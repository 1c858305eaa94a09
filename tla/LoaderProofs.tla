---------------------------- MODULE LoaderProofs ----------------------------
(***************************************************************************)
(* Proofs for module Loader.                                               *)
(*                                                                         *)
(* The loop of rangeToCIDRs and the folds are recursive functions: what    *)
(* they compute is proved by a least counterexample.  ParseInv relates,    *)
(* for every parser and between any two lines, the attributes it has       *)
(* extracted so far to those that a scan of the raw text so far finds.     *)
(* StoreInv says that every index of the store has each emitted object as  *)
(* often as it was emitted, exactly where it belongs, in whatever order    *)
(* the goroutines inserted; what Lookup and answer return follows.         *)
(***************************************************************************)
EXTENDS Loader, SequenceTheorems, FiniteSetTheorems, WellFoundedInduction, TLAPS

\* A nonempty set of natural numbers has a least element.
LEMMA LeastNat ==
  ASSUME NEW T \in SUBSET Nat, T # {}
  PROVE  \E m \in T : \A n \in T : m <= n
<1>1. PICK m \in T : \A n \in T : ~(<<n, m>> \in OpToRel(<, Nat))
  BY NatLessThanWellFounded, WFMin
<1>2. ASSUME NEW n \in T PROVE m <= n
  <2>1. m \in Nat /\ n \in Nat
    OBVIOUS
  <2>2. ~(n < m)
    BY <1>1, <2>1 DEF OpToRel
  <2>3. QED
    BY <2>1, <2>2
<1>3. QED
  BY <1>2

UpTo(s, N) == N \in Nat /\ s \subseteq 0..N

\* A nonempty set of numbers up to a bound has a largest element, which is Max.
LEMMA MaxOfInterval ==
  ASSUME NEW N, NEW s, UpTo(s, N), s # {}
  PROVE  Max(s) \in s /\ Max(s) \in Nat /\ \A y \in s : Max(s) >= y
<1> DEFINE T == {N - x : x \in s}
<1>0. N \in Nat /\ \A x \in s : x \in Nat /\ N - x \in Nat
  BY DEF UpTo
<1>1. T \in SUBSET Nat /\ T # {}
  BY <1>0
<1>2. PICK m \in T : \A n \in T : m <= n
  BY <1>1, LeastNat
<1>3. PICK x \in s : m = N - x
  BY <1>2
<1>4. \A y \in s : x >= y
  <2>1. ASSUME NEW y \in s PROVE x >= y
    <3>1. N - y \in T
      OBVIOUS
    <3>2. N - x <= N - y
      BY <1>2, <1>3, <3>1
    <3>3. x \in Nat /\ y \in Nat
      BY <1>0
    <3>4. QED
      BY <1>0, <3>2, <3>3
  <2>2. QED
    BY <2>1
<1>5. QED
  BY <1>0, <1>3, <1>4 DEF Max

-----------------------------------------------------------------------------
(* Powers of two. *)

IsPow2(f) == f = [n \in 0..W |-> IF n = 0 THEN 1 ELSE 2 * f[n - 1]]

\* The recursion is well founded.
LEMMA Pow2Exists == IsPow2(Pow2)
<1> DEFINE Part(n, g) == g = [k \in 0..n |-> IF k = 0 THEN 1 ELSE 2 * g[k - 1]]
           Bad == {n \in Nat : ~\E g : Part(n, g)}
<1>1. ASSUME NEW m \in Bad, \A n \in Bad : m <= n PROVE FALSE
  <2>1. CASE m = 0
    <3> DEFINE h == [k \in 0..0 |-> 1]
    <3>1. Part(0, h)
      OBVIOUS
    <3>2. QED
      BY <1>1, <2>1, <3>1
  <2>2. CASE m # 0
    <3>1. m - 1 \in Nat /\ m \in Nat /\ ~(m <= m - 1)
      BY <2>2
    <3>2. PICK g : Part(m - 1, g)
      BY <1>1, <3>1
    <3> DEFINE h == [k \in 0..m |-> IF k = 0 THEN 1 ELSE 2 * g[k - 1]]
    <3>3. \A k \in 0..(m - 1) : h[k] = g[k]
      BY <3>1, <3>2
    <3>4. \A k \in 0..m : k # 0 => k - 1 \in 0..(m - 1)
      BY <3>1
    <3>5. Part(m, h)
      BY <3>3, <3>4
    <3>6. QED
      BY <1>1, <3>5
  <2>3. QED
    BY <2>1, <2>2
<1>2. Bad = {}
  <2>1. Bad \in SUBSET Nat
    OBVIOUS
  <2> HIDE DEF Bad
  <2>2. QED
    BY <1>1, <2>1, LeastNat
<1>3. W \in Nat
  BY PrefixesAssumption
<1>4. PICK g : Part(W, g)
  BY <1>2, <1>3
<1>5. IsPow2(g)
  BY <1>4 DEF IsPow2
<1>6. Pow2 = CHOOSE f : IsPow2(f)
  BY DEF Pow2, IsPow2
<1>7. QED
  BY <1>5, <1>6

\* The steps of the recursion.
LEMMA Pow2Steps ==
  /\ W \in Nat /\ Pow2[0] = 1
  /\ \A n \in 0..W : n # 0 => Pow2[n] = 2 * Pow2[n - 1]
<1>1. W \in Nat
  BY PrefixesAssumption
<1>2. 0 \in 0..W
  BY <1>1
<1>3. QED
  BY <1>1, <1>2, Pow2Exists DEF IsPow2

\* Powers of two are positive.
LEMMA Pow2Positive ==
  ASSUME NEW n \in 0..W PROVE Pow2[n] \in Nat /\ Pow2[n] >= 1
<1> DEFINE Bad == {k \in 0..W : ~(Pow2[k] \in Nat /\ Pow2[k] >= 1)}
<1>1. ASSUME NEW m \in Bad, \A k \in Bad : m <= k PROVE FALSE
  <2>1. m # 0
    BY Pow2Steps
  <2>2. m - 1 \in 0..W /\ ~(m <= m - 1)
    BY <2>1, Pow2Steps
  <2>3. Pow2[m - 1] \in Nat /\ Pow2[m - 1] >= 1
    BY <1>1, <2>2
  <2>4. Pow2[m] = 2 * Pow2[m - 1]
    BY <2>1, Pow2Steps
  <2>5. QED
    BY <2>3, <2>4
<1>2. Bad \in SUBSET Nat
  BY Pow2Steps
<1>3. Bad = {}
  <2> HIDE DEF Bad
  <2>1. QED
    BY <1>1, <1>2, LeastNat
<1>4. QED
  BY <1>3

\* A smaller power of two divides a larger one.
LEMMA Pow2Divides ==
  ASSUME NEW k \in 0..W, NEW j \in 0..k
  PROVE  \E m \in Nat : m >= 1 /\ Pow2[k] = m * Pow2[j]
<1> DEFINE Bad == {n \in 0..W : n >= j /\ ~\E m \in Nat : m >= 1 /\ Pow2[n] = m * Pow2[j]}
<1>0. W \in Nat /\ j \in 0..W /\ j \in Nat /\ k \in Nat /\ j <= k
  BY Pow2Steps
<1>1. ASSUME NEW n \in Bad, \A i \in Bad : n <= i PROVE FALSE
  <2>1. Pow2[j] \in Nat
    BY <1>0, Pow2Positive
  <2>2. n # j
    <3>1. 1 \in Nat /\ 1 >= 1 /\ Pow2[j] = 1 * Pow2[j]
      BY <2>1
    <3>2. QED
      BY <3>1
  <2>3. n - 1 \in 0..W /\ n - 1 >= j /\ ~(n <= n - 1) /\ n # 0
    BY <1>0, <2>2
  <2>4. PICK m \in Nat : m >= 1 /\ Pow2[n - 1] = m * Pow2[j]
    BY <1>1, <2>3
  <2>5. Pow2[n] = 2 * Pow2[n - 1]
    BY <2>3, Pow2Steps
  <2>6. 2 * m \in Nat /\ 2 * m >= 1 /\ Pow2[n] = (2 * m) * Pow2[j]
    BY <2>1, <2>4, <2>5
  <2>7. QED
    BY <2>6
<1>2. Bad \in SUBSET Nat
  BY <1>0
<1>3. Bad = {}
  <2> HIDE DEF Bad
  <2>1. QED
    BY <1>1, <1>2, LeastNat
<1>4. QED
  BY <1>0, <1>3

\* Multiples of a positive number are ordered as their factors are.
LEMMA FactorLess ==
  ASSUME NEW x \in Int, NEW y \in Int, NEW c \in Nat, c >= 1, x * c < y * c
  PROVE  x < y
<1>1. SUFFICES ASSUME y <= x PROVE FALSE
  OBVIOUS
<1>2. (x - y) * c >= 0
  BY <1>1
<1>3. x * c - y * c >= 0
  BY <1>2
<1>4. QED
  BY <1>3

\* and the other way around.
LEMMA FactorLeq ==
  ASSUME NEW x \in Int, NEW y \in Int, NEW c \in Nat, x <= y
  PROVE  x * c <= y * c
<1>2. (y - x) * c >= 0
  OBVIOUS
<1>3. QED
  BY <1>2

Aligned(a, k) == a % Pow2[k] = 0

\* An aligned address is a multiple.
LEMMA AlignedIs ==
  ASSUME NEW a \in Nat, NEW k \in 0..W
  PROVE  Aligned(a, k) <=> \E q \in Nat : a = q * Pow2[k]
<1>1. Pow2[k] \in Nat /\ Pow2[k] >= 1
  BY Pow2Positive
<1> DEFINE c == Pow2[k]
<1> HIDE DEF c
<1>2. c \in Nat /\ c >= 1
  BY <1>1 DEF c
<1>3. a % c = 0 => \E q \in Nat : a = q * c
  <2>1. a \div c \in Nat /\ a = c * (a \div c) + (a % c)
    BY <1>2
  <2>2. a % c = 0 => a = (a \div c) * c
    BY <1>2, <2>1
  <2>3. QED
    BY <2>1, <2>2
<1>4. ASSUME NEW q \in Nat, a = q * c PROVE a % c = 0
  BY <1>2, <1>4
<1>5. QED
  BY <1>3, <1>4 DEF c, Aligned

\* What is aligned to a block is aligned to smaller ones.
LEMMA AlignedDown ==
  ASSUME NEW a \in Nat, NEW k \in 0..W, NEW j \in 0..k, Aligned(a, k)
  PROVE  Aligned(a, j)
<1>1. j \in 0..W
  BY Pow2Steps
<1>2. PICK q \in Nat : a = q * Pow2[k]
  BY AlignedIs
<1>3. PICK m \in Nat : m >= 1 /\ Pow2[k] = m * Pow2[j]
  BY Pow2Divides
<1>4. Pow2[j] \in Nat
  BY <1>1, Pow2Positive
<1>5. a = (q * m) * Pow2[j] /\ q * m \in Nat
  BY <1>2, <1>3, <1>4
<1>6. QED
  BY <1>1, <1>5, AlignedIs

\* Two aligned blocks that meet are nested.
LEMMA Nested ==
  ASSUME NEW a \in Nat, NEW b \in Nat, NEW k \in 0..W, NEW j \in 0..k, Aligned(a, j), Aligned(b, k),
         NEW x \in Nat, a <= x, x < a + Pow2[j], b <= x, x < b + Pow2[k]
  PROVE  b <= a /\ a + Pow2[j] <= b + Pow2[k]
<1>1. j \in 0..W
  BY Pow2Steps
<1>2. PICK u \in Nat : a = u * Pow2[j]
  BY <1>1, AlignedIs
<1>3. PICK v \in Nat : b = v * Pow2[k]
  BY AlignedIs
<1>4. PICK m \in Nat : m >= 1 /\ Pow2[k] = m * Pow2[j]
  BY Pow2Divides
<1> DEFINE c == Pow2[j]
           d == Pow2[k]
           w == v * m
<1>5. c \in Nat /\ c >= 1 /\ d \in Nat
  BY <1>1, Pow2Positive
<1>6. a = u * c /\ d = m * c /\ a <= x /\ x < a + c /\ b <= x /\ x < b + d
  BY <1>2, <1>4
<1>7. b = w * c /\ w \in Nat
  BY <1>3, <1>4, <1>5
<1> HIDE DEF c, d, w
<1>8. w <= u
  <2>1. w * c < (u + 1) * c
    BY <1>5, <1>6, <1>7
  <2>2. w < u + 1
    BY <1>5, <1>7, <2>1, FactorLess
  <2>3. QED
    BY <1>7, <2>2
<1>9. u + 1 <= w + m
  <2>1. u * c < (w + m) * c
    BY <1>5, <1>6, <1>7
  <2>2. u < w + m
    BY <1>5, <1>7, <2>1, FactorLess
  <2>3. QED
    BY <1>7, <2>2
<1>10. w * c <= u * c
  BY <1>5, <1>7, <1>8, FactorLeq
<1>11. (u + 1) * c <= (w + m) * c
  BY <1>5, <1>7, <1>9, FactorLeq
<1>12. a + c = (u + 1) * c /\ b + d = (w + m) * c
  BY <1>5, <1>6, <1>7
<1>13. QED
  BY <1>6, <1>7, <1>10, <1>11, <1>12 DEF c, d

-----------------------------------------------------------------------------
(* Prefixes as aligned blocks. *)

\* A prefix is an address aligned to the bits that its length leaves.
LEMMA PrefixParts ==
  ASSUME NEW p \in Prefix
  PROVE  /\ p = [addr |-> p.addr, len |-> p.len] /\ p.addr \in Address /\ p.addr \in Nat
         /\ p.len \in 0..W /\ W - p.len \in 0..W /\ Aligned(p.addr, W - p.len)
<1>1. PICK a \in Address, d \in 0..W : p = Masked(a, d)
  BY DEF Prefix
<1> DEFINE c == Pow2[W - d]
<1>2. W \in Nat /\ W - d \in 0..W /\ Pow2[W] \in Nat
  BY Pow2Steps, Pow2Positive
<1>3. c \in Nat /\ c >= 1
  BY <1>2, Pow2Positive
<1>4. p = [addr |-> a - (a % c), len |-> d]
  BY <1>1 DEF Masked
<1> HIDE DEF c
<1>5. a \in Nat /\ a <= Pow2[W] - 1
  BY <1>2 DEF Address
<1>6. a = c * (a \div c) + (a % c) /\ a \div c \in Nat /\ a % c \in Nat
  BY <1>3, <1>5
<1>7. p.addr = (a \div c) * c /\ p.len = d
  BY <1>3, <1>4, <1>5, <1>6
<1>8. p.addr \in Nat /\ p.addr <= a
  BY <1>3, <1>4, <1>5, <1>6, <1>7
<1>9. Aligned(p.addr, W - d)
  BY <1>2, <1>6, <1>7, <1>8, AlignedIs DEF c
<1>10. p.addr \in Address
  BY <1>2, <1>5, <1>8 DEF Address
<1>11. p = [addr |-> p.addr, len |-> p.len]
  BY <1>4
<1>12. QED
  BY <1>2, <1>7, <1>8, <1>9, <1>10, <1>11

\* An aligned block is a prefix.
LEMMA BlockIsPrefix ==
  ASSUME NEW a \in Address, NEW s \in 0..W, Aligned(a, s)
  PROVE  [addr |-> a, len |-> W - s] \in Prefix
<1>1. W \in Nat /\ W - s \in 0..W /\ W - (W - s) = s /\ a \in Nat
  BY Pow2Steps, Pow2Positive DEF Address
<1>2. Masked(a, W - s) = [addr |-> a - (a % Pow2[s]), len |-> W - s]
  BY <1>1 DEF Masked
<1>3. a - (a % Pow2[s]) = a
  BY <1>1 DEF Aligned
<1>4. QED
  BY <1>1, <1>2, <1>3 DEF Prefix

\* The first and last address of a prefix; a shorter one is larger.
LEMMA PrefixEnds ==
  ASSUME NEW p \in Prefix
  PROVE  /\ FirstAddr(p) \in Nat /\ LastAddr(p) \in Nat /\ FirstAddr(p) <= LastAddr(p)
         /\ FirstAddr(p) = p.addr /\ LastAddr(p) = p.addr + Pow2[W - p.len] - 1
<1>1. Pow2[W - p.len] \in Nat /\ Pow2[W - p.len] >= 1
  BY PrefixParts, Pow2Positive
<1>2. QED
  BY <1>1, PrefixParts DEF FirstAddr, LastAddr

\* Prefixes that meet are nested.
LEMMA PrefixesNest ==
  ASSUME NEW p \in Prefix, NEW q \in Prefix, q.len <= p.len, NEW x \in Nat, Holds(p, x), Holds(q, x)
  PROVE  FirstAddr(q) <= FirstAddr(p) /\ LastAddr(p) <= LastAddr(q)
<1> DEFINE a == p.addr
           b == q.addr
           j == W - p.len
           k == W - q.len
<1>1. /\ a \in Nat /\ j \in 0..W /\ Aligned(a, j) /\ p.len \in 0..W
      /\ b \in Nat /\ k \in 0..W /\ Aligned(b, k) /\ q.len \in 0..W
  BY PrefixParts
<1>2. j \in 0..k
  BY <1>1, Pow2Steps
<1>3. Pow2[j] \in Nat /\ Pow2[k] \in Nat
  BY <1>1, Pow2Positive
<1>4. FirstAddr(p) = a /\ LastAddr(p) = a + Pow2[j] - 1 /\ FirstAddr(q) = b /\ LastAddr(q) = b + Pow2[k] - 1
  BY DEF FirstAddr, LastAddr
<1> HIDE DEF a, b, j, k
<1>5. a <= x /\ x < a + Pow2[j] /\ b <= x /\ x < b + Pow2[k]
  BY <1>1, <1>3, <1>4 DEF Holds
<1>6. b <= a /\ a + Pow2[j] <= b + Pow2[k]
  BY <1>1, <1>2, <1>5, Nested
<1>7. QED
  BY <1>1, <1>3, <1>4, <1>6

-----------------------------------------------------------------------------
(* The size of a block. *)

\* trailingZeros is the largest alignment of an address.
LEMMA TrailingZeros ==
  ASSUME NEW a \in Nat, NEW b \in 0..W, NEW t, t = trailingZeros(a, b)
  PROVE  t \in 0..b /\ Aligned(a, t) /\ \A j \in 0..b : Aligned(a, j) => j <= t
<1> DEFINE S == {k \in 0..b : Aligned(a, k)}
           Good(k) == a % Pow2[k] = 0 /\ (k = b \/ a % Pow2[k + 1] # 0)
<1>1. W \in Nat /\ b \in Nat
  BY Pow2Steps
<1>2. 0 \in S
  BY <1>1, Pow2Steps DEF Aligned
<1>3. UpTo(S, b) /\ S # {}
  BY <1>1, <1>2 DEF UpTo
<1> DEFINE m == Max(S)
<1>4. m \in S /\ \A y \in S : m >= y
  BY <1>3, MaxOfInterval
<1> HIDE DEF m
<1>5. Good(m)
  <2>1. CASE m = b
    BY <1>4, <2>1 DEF Aligned
  <2>2. CASE m # b
    <3>1. m + 1 \in 0..b /\ ~(m >= m + 1)
      BY <1>1, <1>4, <2>2
    <3>2. m + 1 \notin S
      BY <1>4, <3>1
    <3>3. QED
      BY <1>4, <3>1, <3>2 DEF Aligned
  <2>3. QED
    BY <2>1, <2>2
<1>6. t = CHOOSE k \in 0..b : Good(k)
  BY DEF trailingZeros
<1>7. t \in 0..b /\ Good(t)
  <2>1. m \in 0..b
    BY <1>4
  <2> HIDE DEF Good
  <2>2. QED
    BY <1>5, <1>6, <2>1
<1>8. ASSUME NEW j \in 0..b, Aligned(a, j), t < j PROVE FALSE
  <2>1. t # b /\ t + 1 \in 0..j /\ j \in 0..W
    BY <1>1, <1>7, <1>8
  <2>2. Aligned(a, t + 1)
    BY <1>8, <2>1, AlignedDown
  <2>3. QED
    BY <1>7, <2>1, <2>2 DEF Aligned
<1>9. QED
  <2>1. t \in 0..b /\ Aligned(a, t)
    BY <1>7 DEF Aligned
  <2>2. ASSUME NEW j \in 0..b, Aligned(a, j) PROVE j <= t
    BY <1>1, <1>7, <1>8, <2>2
  <2>3. QED
    BY <2>1, <2>2

\* BlockSize is the largest alignment whose block stays inside the range.
LEMMA BlockSizeIs ==
  ASSUME NEW c0 \in Nat, NEW end \in Nat, c0 <= end, NEW b \in 0..W, NEW s, s = BlockSize(c0, end, b)
  PROVE  /\ s \in 0..b /\ Aligned(c0, s) /\ c0 + Pow2[s] - 1 <= end
         /\ \A r \in 0..b : Aligned(c0, r) /\ c0 + Pow2[r] - 1 <= end => r <= s
<1> DEFINE most == trailingZeros(c0, b)
           Good(k) == /\ k = 0 \/ addrPlusMask(c0, k) <= end
                      /\ \A r \in (k + 1)..most : addrPlusMask(c0, r) > end
           S == {k \in 0..most : c0 + Pow2[k] - 1 <= end}
<1>1. W \in Nat /\ b \in Nat
  BY Pow2Steps
<1>2. most \in 0..b /\ Aligned(c0, most) /\ \A j \in 0..b : Aligned(c0, j) => j <= most
  BY TrailingZeros
<1>3. s = CHOOSE k \in 0..most : Good(k)
  BY DEF BlockSize
<1> HIDE DEF most
<1>4. c0 + Pow2[0] - 1 <= end
  BY Pow2Steps
<1>5. 0 \in S
  BY <1>1, <1>2, <1>4
<1>6. UpTo(S, b) /\ S # {}
  BY <1>1, <1>2, <1>5 DEF UpTo
<1> DEFINE m == Max(S)
<1>7. m \in S /\ \A y \in S : m >= y
  BY <1>6, MaxOfInterval
<1> HIDE DEF m
<1>8. Good(m)
  <2>1. ASSUME NEW r \in (m + 1)..most PROVE addrPlusMask(c0, r) > end
    <3>1. r \in 0..most /\ ~(m >= r) /\ r \in 0..W
      BY <1>1, <1>2, <1>7
    <3>2. r \notin S
      BY <1>7, <3>1
    <3>3. Pow2[r] \in Nat
      BY <3>1, Pow2Positive
    <3>4. QED
      BY <3>1, <3>2, <3>3 DEF addrPlusMask
  <2>2. addrPlusMask(c0, m) <= end
    BY <1>7 DEF addrPlusMask
  <2>3. QED
    BY <2>1, <2>2
<1>9. s \in 0..most /\ Good(s)
  <2>1. m \in 0..most
    BY <1>7
  <2> HIDE DEF Good
  <2>2. QED
    BY <1>3, <1>8, <2>1
<1>10. s \in 0..b /\ s \in 0..W /\ most \in 0..W
  BY <1>1, <1>2, <1>9
<1>11. Aligned(c0, s)
  BY <1>2, <1>9, <1>10, AlignedDown
<1>12. c0 + Pow2[s] - 1 <= end
  BY <1>4, <1>9 DEF addrPlusMask
<1>13. ASSUME NEW r \in 0..b, Aligned(c0, r), c0 + Pow2[r] - 1 <= end PROVE r <= s
  <2>1. r <= most /\ r \in 0..W
    BY <1>1, <1>2, <1>13
  <2>2. Pow2[r] \in Nat
    BY <2>1, Pow2Positive
  <2>3. r \notin (s + 1)..most
    BY <1>9, <1>13, <2>2 DEF addrPlusMask
  <2>4. QED
    BY <1>1, <1>2, <1>10, <2>1, <2>3
<1>14. QED
  BY <1>10, <1>11, <1>12, <1>13

-----------------------------------------------------------------------------
(* The loop. *)

Inside(lo, hi) == {p \in Prefix : lo <= FirstAddr(p) /\ LastAddr(p) <= hi}

\* No block inside the range has more than b bits.
Fits(lo, hi, b) == \A p \in Inside(lo, hi) : W - p.len <= b

\* No block inside the range is cut at c.
Uncut(lo, hi, c) == \A q \in Inside(lo, hi) : ~(FirstAddr(q) < c /\ c <= LastAddr(q))

\* The maximal blocks from c on.
BlocksFrom(lo, hi, c) == {p \in MaximalBlocks(lo, hi) : c <= FirstAddr(p)}

\* A maximal block is the longest inside the range around its first address.
LEMMA MaximalIs ==
  ASSUME NEW lo, NEW hi, NEW p
  PROVE  p \in MaximalBlocks(lo, hi)
           <=> p \in Inside(lo, hi) /\ \A q \in Inside(lo, hi) : Holds(q, FirstAddr(p)) => p.len <= q.len
BY DEF MaximalBlocks, Inside

\* The block of one pass.
Block(c0, s) == [addr |-> c0, len |-> W - s]

\* Its ends.
LEMMA BlockEnds ==
  ASSUME NEW c0 \in Nat, NEW s \in 0..W
  PROVE  /\ Block(c0, s).addr = c0 /\ Block(c0, s).len = W - s
         /\ FirstAddr(Block(c0, s)) = c0 /\ LastAddr(Block(c0, s)) = addrPlusMask(c0, s)
<1>1. W \in Nat /\ W - (W - s) = s
  BY Pow2Steps
<1>2. QED
  BY <1>1 DEF Block, FirstAddr, LastAddr, addrPlusMask

\* The block of one pass is inside the range.
LEMMA BlockInside ==
  ASSUME NEW lo \in Address, NEW hi \in Address, NEW b \in 0..W, NEW c0 \in lo..hi,
         NEW s, s = BlockSize(c0, hi, b)
  PROVE  /\ Block(c0, s) \in Inside(lo, hi) /\ s \in 0..b /\ s \in 0..W
         /\ c0 <= addrPlusMask(c0, s) /\ addrPlusMask(c0, s) <= hi /\ addrPlusMask(c0, s) \in Nat
<1>1. W \in Nat /\ Pow2[W] \in Nat
  BY Pow2Steps, Pow2Positive
<1>2. lo \in Nat /\ hi \in Nat /\ c0 \in Nat /\ lo <= c0 /\ c0 <= hi /\ c0 \in Address
  BY <1>1 DEF Address
<1>3. s \in 0..b /\ Aligned(c0, s) /\ c0 + Pow2[s] - 1 <= hi
  BY <1>2, BlockSizeIs
<1>4. s \in 0..W
  BY <1>1, <1>3
<1>5. Pow2[s] \in Nat /\ Pow2[s] >= 1
  BY <1>4, Pow2Positive
<1>6. Block(c0, s) \in Prefix
  BY <1>2, <1>3, <1>4, BlockIsPrefix DEF Block
<1>7. c0 <= addrPlusMask(c0, s) /\ addrPlusMask(c0, s) <= hi /\ addrPlusMask(c0, s) \in Nat
  BY <1>2, <1>3, <1>5 DEF addrPlusMask
<1>8. QED
  BY <1>2, <1>3, <1>4, <1>6, <1>7, BlockEnds DEF Inside

\* It is maximal if nothing is cut where it starts.
LEMMA BlockMaximal ==
  ASSUME NEW lo \in Address, NEW hi \in Address, NEW b \in 0..W, Fits(lo, hi, b),
         NEW c0 \in lo..hi, Uncut(lo, hi, c0), NEW s, s = BlockSize(c0, hi, b)
  PROVE  Block(c0, s) \in MaximalBlocks(lo, hi)
<1>1. W \in Nat /\ Pow2[W] \in Nat
  BY Pow2Steps, Pow2Positive
<1>2. lo \in Nat /\ hi \in Nat /\ c0 \in Nat /\ lo <= c0 /\ c0 <= hi
  BY <1>1 DEF Address
<1>3. Block(c0, s) \in Inside(lo, hi) /\ s \in 0..W
  BY BlockInside
<1>4. FirstAddr(Block(c0, s)) = c0 /\ Block(c0, s).len = W - s
  BY <1>2, <1>3, BlockEnds
<1>5. ASSUME NEW q \in Inside(lo, hi), Holds(q, c0) PROVE W - s <= q.len
  <2>1. q \in Prefix /\ LastAddr(q) <= hi
    BY DEF Inside
  <2>2. /\ q.len \in 0..W /\ W - q.len \in 0..W /\ Aligned(q.addr, W - q.len) /\ q.addr \in Nat
        /\ FirstAddr(q) = q.addr /\ LastAddr(q) = q.addr + Pow2[W - q.len] - 1
    BY <2>1, PrefixParts, PrefixEnds
  <2>3. q.addr = c0
    BY <1>2, <1>5, <2>2 DEF Holds, Uncut
  <2>4. W - q.len <= b
    BY DEF Fits
  <2> DEFINE r == W - q.len
  <2>5. r \in 0..b
    BY <1>1, <2>2, <2>4
  <2>6. Aligned(c0, r) /\ c0 + Pow2[r] - 1 <= hi
    BY <2>1, <2>2, <2>3
  <2>7. r <= s
    <3> HIDE DEF r
    <3>1. QED
      BY <1>2, <2>5, <2>6, BlockSizeIs
  <2>8. QED
    BY <1>1, <1>3, <2>2, <2>7
<1>6. QED
  BY <1>3, <1>4, <1>5, MaximalIs

\* One pass: the block it adds is the first of those that are left.
LEMMA OnePass ==
  ASSUME NEW lo \in Address, NEW hi \in Address, NEW b \in 0..W, Fits(lo, hi, b),
         NEW c0 \in lo..hi, Uncut(lo, hi, c0), NEW s, s = BlockSize(c0, hi, b),
         NEW next, next = addrPlusMask(c0, s) + 1
  PROVE  /\ Uncut(lo, hi, next)
         /\ BlocksFrom(lo, hi, c0) = {Block(c0, s)} \cup BlocksFrom(lo, hi, next)
<1> DEFINE B == Block(c0, s)
           last == addrPlusMask(c0, s)
<1>1. W \in Nat /\ Pow2[W] \in Nat
  BY Pow2Steps, Pow2Positive
<1>2. lo \in Nat /\ hi \in Nat /\ c0 \in Nat /\ lo <= c0 /\ c0 <= hi
  BY <1>1 DEF Address
<1>3. B \in Inside(lo, hi) /\ s \in 0..W /\ c0 <= last /\ last \in Nat
  BY BlockInside
<1>4. FirstAddr(B) = c0 /\ LastAddr(B) = last /\ B.len = W - s
  BY <1>2, <1>3, BlockEnds
<1>5. B \in MaximalBlocks(lo, hi) /\ B \in Prefix
  BY <1>3, BlockMaximal DEF Inside
<1>6. next = last + 1 /\ next \in Nat
  BY <1>3
<1> HIDE DEF B, last
<1>7. B.len \in 0..W
  BY <1>5, PrefixParts
\* A block inside the range that starts in B and is not longer lies in B.
<1>8. ASSUME NEW q \in Inside(lo, hi), c0 <= FirstAddr(q), FirstAddr(q) <= last
      PROVE  \/ LastAddr(q) <= last
             \/ FirstAddr(q) = c0 /\ q.len = B.len
  <2>1. q \in Prefix
    BY DEF Inside
  <2>2. FirstAddr(q) \in Nat /\ FirstAddr(q) <= LastAddr(q) /\ LastAddr(q) \in Nat /\ q.len \in 0..W
    BY <2>1, PrefixEnds, PrefixParts
  <2>3. Holds(q, FirstAddr(q)) /\ Holds(B, FirstAddr(q))
    BY <1>4, <1>8, <2>2 DEF Holds
  <2>4. CASE B.len <= q.len
    BY <1>4, <1>5, <2>1, <2>2, <2>3, <2>4, PrefixesNest
  <2>5. CASE q.len <= B.len
    <3>1. FirstAddr(q) <= c0 /\ last <= LastAddr(q)
      BY <1>4, <1>5, <2>1, <2>2, <2>3, <2>5, PrefixesNest
    <3>2. Holds(q, FirstAddr(B))
      BY <1>3, <1>4, <3>1, <2>2 DEF Holds
    <3>3. B.len <= q.len
      BY <1>5, <3>2, MaximalIs
    <3>4. QED
      BY <1>2, <1>7, <1>8, <2>2, <2>5, <3>1, <3>3
  <2>6. QED
    BY <1>7, <2>2, <2>4, <2>5
<1>9. ASSUME NEW q \in Inside(lo, hi), FirstAddr(q) < next, next <= LastAddr(q) PROVE FALSE
  <2>1. q \in Prefix
    BY DEF Inside
  <2>2. FirstAddr(q) \in Nat /\ LastAddr(q) \in Nat
    BY <2>1, PrefixEnds
  <2>3. c0 <= FirstAddr(q)
    BY <1>2, <1>3, <1>6, <1>9, <2>2 DEF Uncut
  <2>4. FirstAddr(q) = c0 /\ q.len = B.len
    BY <1>3, <1>6, <1>8, <1>9, <2>2, <2>3
  <2>5. LastAddr(q) = LastAddr(B)
    BY <1>4, <2>4 DEF FirstAddr, LastAddr
  <2>6. QED
    BY <1>3, <1>4, <1>6, <1>9, <2>5
<1>10. ASSUME NEW p \in MaximalBlocks(lo, hi), c0 <= FirstAddr(p), FirstAddr(p) <= last
       PROVE  p = B
  <2>1. p \in Inside(lo, hi) /\ p \in Prefix
    BY MaximalIs DEF Inside
  <2>2. FirstAddr(p) \in Nat /\ FirstAddr(p) <= LastAddr(p) /\ LastAddr(p) \in Nat /\ p.len \in 0..W
    BY <2>1, PrefixEnds, PrefixParts
  <2>3. Holds(p, FirstAddr(p)) /\ Holds(B, FirstAddr(p))
    BY <1>4, <1>10, <2>2 DEF Holds
  <2>4. p.len <= B.len
    BY <1>3, <2>3, MaximalIs
  <2>5. FirstAddr(p) <= c0 /\ last <= LastAddr(p)
    BY <1>4, <1>5, <2>1, <2>2, <2>3, <2>4, PrefixesNest
  <2>6. Holds(p, FirstAddr(B))
    BY <1>2, <1>3, <1>4, <2>2, <2>5 DEF Holds
  <2>7. B.len <= p.len
    BY <1>5, <2>1, <2>6, MaximalIs
  <2>8. p.addr = B.addr /\ p.len = B.len
    BY <1>2, <1>4, <1>7, <1>10, <2>2, <2>4, <2>5, <2>7 DEF FirstAddr
  <2>9. p = [addr |-> p.addr, len |-> p.len] /\ B = [addr |-> B.addr, len |-> B.len]
    BY <1>5, <2>1, PrefixParts
  <2>10. QED
    BY <2>8, <2>9
<1>11. Uncut(lo, hi, next)
  BY <1>9 DEF Uncut
<1>12. ASSUME NEW p PROVE p \in BlocksFrom(lo, hi, c0) <=> p \in {B} \cup BlocksFrom(lo, hi, next)
  <2>1. p = B => p \in BlocksFrom(lo, hi, c0)
    BY <1>2, <1>4, <1>5 DEF BlocksFrom
  <2>2. ASSUME p \in MaximalBlocks(lo, hi) PROVE FirstAddr(p) \in Nat
    BY <2>2, MaximalIs, PrefixEnds DEF Inside
  <2>3. p \in BlocksFrom(lo, hi, next) => p \in BlocksFrom(lo, hi, c0)
    BY <1>2, <1>3, <1>6, <2>2 DEF BlocksFrom
  <2>4. p \in BlocksFrom(lo, hi, c0) /\ p # B => p \in BlocksFrom(lo, hi, next)
    BY <1>2, <1>3, <1>6, <1>10, <2>2 DEF BlocksFrom
  <2>5. QED
    BY <2>1, <2>3, <2>4
<1>13. BlocksFrom(lo, hi, c0) = {B} \cup BlocksFrom(lo, hi, next)
  BY <1>12
<1>14. QED
  BY <1>11, <1>13 DEF B

\* No block starts past the end of the range.
LEMMA NoneLeft ==
  ASSUME NEW lo \in Address, NEW hi \in Address, NEW c \in Nat, hi < c
  PROVE  BlocksFrom(lo, hi, c) = {}
<1>1. hi \in Nat
  BY Pow2Steps, Pow2Positive DEF Address
<1>2. ASSUME NEW p \in BlocksFrom(lo, hi, c) PROVE FALSE
  <2>1. p \in Prefix /\ LastAddr(p) <= hi /\ c <= FirstAddr(p)
    BY MaximalIs DEF BlocksFrom, Inside
  <2>2. QED
    BY <1>1, <2>1, PrefixEnds
<1>3. QED
  BY <1>2

\* The loop from c0 on, as a recursive function.
LoopFrom(end, b, g) ==
  g = [c0 \in 0..Pow2[W] |->
         IF c0 > end THEN <<>>
         ELSE <<Block(c0, BlockSize(c0, end, b))>>
              \o (IF addrPlusMask(c0, BlockSize(c0, end, b)) >= end THEN <<>>
                  ELSE g[addrPlusMask(c0, BlockSize(c0, end, b)) + 1])]
Loop(end, b) == CHOOSE g : LoopFrom(end, b, g)

\* rangeToCIDRs is this loop.
LEMMA RangeIsLoop ==
  ASSUME NEW start, NEW end, NEW b PROVE rangeToCIDRs(start, end, b) = Loop(end, b)[start]
BY DEF rangeToCIDRs, Loop, LoopFrom, Block

\* The loop ends: every pass starts after the one before it.
LEMMA LoopExists ==
  ASSUME NEW end \in Address, NEW b \in 0..W
  PROVE  LoopFrom(end, b, Loop(end, b))
<1> DEFINE M == Pow2[W]
           D(n) == {c \in 0..M : M - c <= n}
           last(c) == addrPlusMask(c, BlockSize(c, end, b))
           Step(c, g) == IF c > end THEN <<>>
                         ELSE <<Block(c, BlockSize(c, end, b))>>
                              \o (IF last(c) >= end THEN <<>> ELSE g[last(c) + 1])
           Part(n, g) == g = [c \in D(n) |-> Step(c, g)]
           Bad == {n \in Nat : ~\E g : Part(n, g)}
<1>1. W \in Nat /\ M \in Nat /\ end \in Nat /\ end < M /\ end \in 0..M
  BY Pow2Steps, Pow2Positive DEF Address
<1>2. ASSUME NEW c \in 0..M, ~(c > end) PROVE last(c) \in Nat /\ c <= last(c)
  <2>1. c \in 0..end /\ 0 \in Address
    BY <1>1, <1>2 DEF Address
  <2>2. QED
    BY <2>1, BlockInside
<1> HIDE DEF M, last
<1>3. ASSUME NEW m \in Bad, \A n \in Bad : m <= n PROVE FALSE
  <2>1. CASE m = 0
    <3> DEFINE h == [c \in D(0) |-> <<>>]
    <3>1. \A c \in D(0) : c > end
      BY <1>1
    <3>2. \A c \in D(0) : Step(c, h) = <<>>
      BY <3>1
    <3> HIDE DEF D, Step
    <3>3. Part(0, h)
      BY <3>2
    <3>4. QED
      BY <1>3, <2>1, <3>3
  <2>2. CASE m # 0
    <3>1. m - 1 \in Nat /\ m \in Nat /\ ~(m <= m - 1)
      BY <2>2
    <3>2. PICK g : Part(m - 1, g)
      BY <1>3, <3>1
    <3> DEFINE h == [c \in D(m) |-> Step(c, g)]
    <3>3. ASSUME NEW c \in D(m), ~(c > end), ~(last(c) >= end) PROVE last(c) + 1 \in D(m - 1)
      BY <1>1, <1>2, <3>1, <3>3
    <3>4. D(m - 1) \subseteq D(m)
      BY <1>1, <3>1
    <3> HIDE DEF D
    <3>5. \A r \in D(m - 1) : h[r] = g[r]
      <4> HIDE DEF Step
      <4>1. QED
        BY <3>2, <3>4
    <3>6. ASSUME NEW c \in D(m) PROVE Step(c, g) = Step(c, h)
      <4> HIDE DEF h
      <4>1. QED
        BY <3>3, <3>5
    <3> HIDE DEF Step
    <3>7. Part(m, h)
      BY <3>6
    <3>8. QED
      BY <1>3, <3>7
  <2>3. QED
    BY <2>1, <2>2
<1>4. Bad = {}
  <2>1. Bad \in SUBSET Nat
    OBVIOUS
  <2> HIDE DEF Bad
  <2>2. QED
    BY <1>3, <2>1, LeastNat
<1>5. PICK g : Part(M, g)
  BY <1>1, <1>4
<1>6. D(M) = 0..M
  BY <1>1
<1>7. LoopFrom(end, b, g)
  <2> HIDE DEF D
  <2>1. QED
    BY <1>5, <1>6 DEF LoopFrom, M, last
<1>8. QED
  BY <1>7 DEF Loop

\* Blocks in address order, without overlap.
Ordered(out) == \A m, n \in DOMAIN out : m < n => LastAddr(out[m]) < FirstAddr(out[n])

\* A block before the others.
LEMMA BlockFirst ==
  ASSUME NEW B \in Prefix, NEW rest \in Seq(Prefix), Ordered(rest),
         \A p \in ToSet(rest) : LastAddr(B) < FirstAddr(p)
  PROVE  /\ <<B>> \o rest \in Seq(Prefix)
         /\ ToSet(<<B>> \o rest) = {B} \cup ToSet(rest)
         /\ Ordered(<<B>> \o rest)
<1> DEFINE out == <<B>> \o rest
           N == Len(rest)
<1>1. out \in Seq(Prefix) /\ N \in Nat /\ DOMAIN rest = 1..N
  OBVIOUS
<1>2. DOMAIN out = 1..(N + 1) /\ out[1] = B /\ \A i \in 2..(N + 1) : out[i] = rest[i - 1]
  OBVIOUS
<1>3. \A i \in 1..(N + 1) : i = 1 \/ (i \in 2..(N + 1) /\ i - 1 \in 1..N)
  BY <1>1
<1>4. \A i \in 1..N : i + 1 \in 2..(N + 1) /\ (i + 1) - 1 = i /\ i + 1 \in 1..(N + 1)
  BY <1>1
<1>5. 1 \in 1..(N + 1)
  BY <1>1
<1> HIDE DEF out, N
<1>6. ASSUME NEW p PROVE p \in ToSet(out) <=> p \in {B} \cup ToSet(rest)
  <2>1. ASSUME p \in ToSet(out) PROVE p \in {B} \cup ToSet(rest)
    <3>1. PICK i \in 1..(N + 1) : p = out[i]
      BY <1>2, <2>1 DEF ToSet
    <3>2. QED
      BY <1>1, <1>2, <1>3, <3>1 DEF ToSet
  <2>2. ASSUME p \in ToSet(rest) PROVE p \in ToSet(out)
    <3>1. PICK i \in 1..N : p = rest[i]
      BY <1>1, <2>2 DEF ToSet
    <3>2. out[i + 1] = rest[i] /\ i + 1 \in DOMAIN out
      BY <1>2, <1>4
    <3>3. QED
      BY <3>1, <3>2 DEF ToSet
  <2>3. B \in ToSet(out)
    BY <1>2, <1>5 DEF ToSet
  <2>4. QED
    BY <2>1, <2>2, <2>3
<1>7. ASSUME NEW m \in 1..(N + 1), NEW n \in 1..(N + 1), m < n PROVE LastAddr(out[m]) < FirstAddr(out[n])
  <2>1. n \in 2..(N + 1) /\ n - 1 \in 1..N /\ out[n] = rest[n - 1]
    BY <1>1, <1>2, <1>7
  <2>2. CASE m = 1
    <3>1. rest[n - 1] \in ToSet(rest)
      BY <1>1, <2>1 DEF ToSet
    <3>2. QED
      BY <1>2, <2>1, <2>2, <3>1
  <2>3. CASE m # 1
    <3>1. m \in 2..(N + 1) /\ m - 1 \in 1..N /\ m - 1 < n - 1
      BY <1>1, <1>7, <2>3
    <3>2. out[m] = rest[m - 1]
      BY <1>2, <3>1
    <3>3. LastAddr(rest[m - 1]) < FirstAddr(rest[n - 1])
      BY <1>1, <2>1, <3>1 DEF Ordered
    <3>4. QED
      BY <2>1, <3>2, <3>3
  <2>4. QED
    BY <2>2, <2>3
<1>8. Ordered(out)
  BY <1>2, <1>7 DEF Ordered
<1>9. ToSet(out) = {B} \cup ToSet(rest)
  BY <1>6
<1>10. QED
  BY <1>1, <1>8, <1>9 DEF out

Yields(lo, hi, out, c) == out \in Seq(Prefix) /\ ToSet(out) = BlocksFrom(lo, hi, c) /\ Ordered(out)

\* The loop yields the maximal blocks from c on, in order.
LEMMA LoopYields ==
  ASSUME NEW lo \in Address, NEW hi \in Address, NEW b \in 0..W, Fits(lo, hi, b),
         NEW c \in lo..hi, Uncut(lo, hi, c)
  PROVE  Yields(lo, hi, Loop(hi, b)[c], c)
<1> DEFINE g == Loop(hi, b)
           Bad == {n \in Nat : \E x \in lo..hi : n = hi - x /\ Uncut(lo, hi, x) /\ ~Yields(lo, hi, g[x], x)}
<1>1. W \in Nat /\ Pow2[W] \in Nat /\ lo \in Nat /\ hi \in Nat /\ hi < Pow2[W]
  BY Pow2Steps, Pow2Positive DEF Address
<1>2. LoopFrom(hi, b, g)
  BY LoopExists
<1> HIDE DEF g
<1>3. ASSUME NEW m \in Bad, \A n \in Bad : m <= n PROVE FALSE
  <2>1. PICK x \in lo..hi : m = hi - x /\ Uncut(lo, hi, x) /\ ~Yields(lo, hi, g[x], x)
    OBVIOUS
  <2> DEFINE s == BlockSize(x, hi, b)
             B == Block(x, s)
             last == addrPlusMask(x, s)
             rest == IF last >= hi THEN <<>> ELSE g[last + 1]
  <2>2. x \in Nat /\ lo <= x /\ x <= hi /\ x \in 0..Pow2[W] /\ ~(x > hi)
    BY <1>1
  <2>3. g[x] = <<B>> \o rest
    BY <1>2, <2>2 DEF LoopFrom
  <2>4. B \in Inside(lo, hi) /\ x <= last /\ last <= hi /\ last \in Nat /\ s \in 0..W
    BY BlockInside
  <2>5. LastAddr(B) = last /\ B \in Prefix
    BY <2>2, <2>4, BlockEnds DEF Inside
  <2>6. Uncut(lo, hi, last + 1) /\ BlocksFrom(lo, hi, x) = {B} \cup BlocksFrom(lo, hi, last + 1)
    BY <2>1, OnePass
  <2> HIDE DEF s, B, last
  <2>7. Yields(lo, hi, rest, last + 1)
    <3>1. CASE last >= hi
      <4>1. BlocksFrom(lo, hi, last + 1) = {}
        BY <1>1, <2>4, <3>1, NoneLeft
      <4>2. rest = <<>>
        BY <3>1
      <4>3. <<>> \in Seq(Prefix) /\ ToSet(<<>>) = {} /\ Ordered(<<>>)
        BY DEF ToSet, Ordered
      <4>4. QED
        BY <4>1, <4>2, <4>3 DEF Yields
    <3>2. CASE ~(last >= hi)
      <4>1. last + 1 \in lo..hi /\ hi - (last + 1) \in Nat /\ ~(m <= hi - (last + 1))
        BY <1>1, <2>1, <2>2, <2>4, <3>2
      <4>2. hi - (last + 1) \notin Bad
        BY <1>3, <4>1
      <4>3. Yields(lo, hi, g[last + 1], last + 1)
        BY <2>6, <4>1, <4>2
      <4>4. QED
        BY <3>2, <4>3
    <3>3. QED
      BY <3>1, <3>2
  <2> HIDE DEF rest
  <2>8. \A p \in ToSet(rest) : LastAddr(B) < FirstAddr(p)
    <3>1. ASSUME NEW p \in ToSet(rest) PROVE LastAddr(B) < FirstAddr(p)
      <4>1. p \in MaximalBlocks(lo, hi) /\ last + 1 <= FirstAddr(p)
        BY <2>7 DEF Yields, BlocksFrom
      <4>2. FirstAddr(p) \in Nat
        BY <4>1, MaximalIs, PrefixEnds DEF Inside
      <4>3. QED
        BY <2>4, <2>5, <4>1, <4>2
    <3>2. QED
      BY <3>1
  <2>9. Yields(lo, hi, <<B>> \o rest, x)
    BY <2>5, <2>6, <2>7, <2>8, BlockFirst DEF Yields
  <2>10. QED
    BY <2>1, <2>3, <2>9
<1>4. Bad = {}
  <2>1. Bad \in SUBSET Nat
    OBVIOUS
  <2> HIDE DEF Bad
  <2>2. QED
    BY <1>3, <2>1, LeastNat
<1>5. hi - c \in Nat
  BY <1>1
<1>6. QED
  BY <1>4, <1>5 DEF g

\* rangeToCIDRs decomposes any range of any address width into its maximal
\* blocks.
LEMMA RangeDecomposed ==
  ASSUME NEW lo \in Address, NEW hi \in Address, NEW b \in 0..W, Fits(lo, hi, b),
         NEW out, out = rangeToCIDRs(lo, hi, b)
  PROVE  out \in Seq(Prefix) /\ ToSet(out) = MaximalBlocks(lo, hi) /\ Ordered(out)
<1>1. W \in Nat /\ Pow2[W] \in Nat /\ lo \in Nat /\ hi \in Nat /\ hi < Pow2[W] /\ lo \in 0..Pow2[W]
  BY Pow2Steps, Pow2Positive DEF Address
<1>2. out = Loop(hi, b)[lo]
  BY RangeIsLoop
<1>3. BlocksFrom(lo, hi, lo) = MaximalBlocks(lo, hi)
  BY MaximalIs DEF BlocksFrom, Inside
<1>4. CASE lo <= hi
  <2>1. Uncut(lo, hi, lo)
    <3>1. ASSUME NEW q \in Inside(lo, hi) PROVE ~(FirstAddr(q) < lo)
      BY <1>1, PrefixEnds DEF Inside
    <3>2. QED
      BY <3>1 DEF Uncut
  <2>2. lo \in lo..hi
    BY <1>1, <1>4
  <2>3. Yields(lo, hi, out, lo)
    BY <1>2, <2>1, <2>2, LoopYields
  <2>4. QED
    BY <1>3, <2>3 DEF Yields
<1>5. CASE hi < lo
  <2>1. out = <<>>
    BY <1>1, <1>2, <1>5, LoopExists DEF LoopFrom
  <2>2. MaximalBlocks(lo, hi) = {}
    BY <1>1, <1>3, <1>5, NoneLeft
  <2>3. <<>> \in Seq(Prefix) /\ ToSet(<<>>) = {} /\ Ordered(<<>>)
    BY EmptySeq DEF ToSet, Ordered
  <2>4. QED
    BY <2>1, <2>2, <2>3
<1>6. QED
  BY <1>1, <1>4, <1>5

\* Inside a prefix no block has more bits than the prefix leaves.
LEMMA FamilyFits ==
  ASSUME NEW V \in Prefix, NEW lo \in Address, NEW hi \in Address, Holds(V, lo), Holds(V, hi)
  PROVE  Fits(lo, hi, W - V.len)
<1>1. ASSUME NEW p \in Inside(lo, hi) PROVE W - p.len <= W - V.len
  <2>1. p \in Prefix /\ lo <= FirstAddr(p) /\ LastAddr(p) <= hi
    BY DEF Inside
  <2>2. /\ FirstAddr(p) \in Nat /\ LastAddr(p) \in Nat /\ FirstAddr(p) <= LastAddr(p)
        /\ FirstAddr(V) \in Nat /\ LastAddr(V) \in Nat
    BY <2>1, PrefixEnds
  <2>3. p.len \in 0..W /\ V.len \in 0..W /\ W - p.len \in 0..W /\ W - V.len \in 0..W
    BY <2>1, PrefixParts
  <2>4. lo \in Nat /\ hi \in Nat /\ W \in Nat
    BY Pow2Steps, Pow2Positive DEF Address
  <2>5. FirstAddr(V) <= FirstAddr(p) /\ LastAddr(p) <= LastAddr(V)
    BY <2>1, <2>2, <2>4 DEF Holds
  <2>6. ASSUME p.len < V.len PROVE FALSE
    <3> DEFINE j == W - V.len
               k == W - p.len
    <3>1. Pow2[j] >= Pow2[k] /\ Pow2[j] \in Nat /\ Pow2[k] \in Nat
      <4>1. Pow2[j] \in Nat /\ Pow2[k] \in Nat
        BY <2>3, Pow2Positive
      <4>2. p.addr \in Nat /\ V.addr \in Nat
        BY <2>1, PrefixParts
      <4>3. QED
        BY <2>5, <4>1, <4>2 DEF FirstAddr, LastAddr
    <3>2. j + 1 \in 0..k /\ j + 1 # 0 /\ j + 1 \in 0..W /\ (j + 1) - 1 = j
      BY <2>3, <2>4, <2>6
    <3>3. PICK m \in Nat : m >= 1 /\ Pow2[k] = m * Pow2[j + 1]
      BY <2>3, <3>2, Pow2Divides
    <3>4. Pow2[j + 1] = 2 * Pow2[j] /\ Pow2[j] >= 1
      BY <2>3, <3>2, Pow2Steps, Pow2Positive
    <3> HIDE DEF j, k
    <3>5. m * Pow2[j + 1] >= 1 * Pow2[j + 1]
      BY <3>1, <3>3, <3>4, FactorLeq
    <3>6. QED
      BY <3>1, <3>3, <3>4, <3>5
  <2>7. QED
    BY <2>3, <2>4, <2>6
<1>2. QED
  BY <1>1 DEF Fits

-----------------------------------------------------------------------------
(* Reading an attribute back, line by line. *)

\* What LookupAll has when it has read the lines in raw.
NotFound == [out |-> <<>>, matching |-> FALSE]

Scans(raw, name, g) ==
  g = [s \in SUBSET DOMAIN raw |->
         IF s = {} THEN NotFound ELSE scanned(g[s \ {Max(s)}], raw[Max(s)], name)]
Scanning(raw, name) == CHOOSE g : Scans(raw, name, g)
Scan(raw, name) == Scanning(raw, name)[DOMAIN raw]

\* LookupAll is this scan of the raw text.
LEMMA LookupIsScan ==
  ASSUME NEW o, NEW name PROVE LookupAll(o, name) = Scan(o.raw, name).out
BY DEF LookupAll, FoldLeft, MapThenFoldSet, Scan, Scanning, Scans, NotFound

\* The recursion is well founded: there is a function that satisfies it.
LEMMA ScanningExists ==
  ASSUME NEW raw, NEW name, NEW N \in Nat, DOMAIN raw = 1..N
  PROVE  Scans(raw, name, Scanning(raw, name))
<1> DEFINE S == DOMAIN raw
           Upto(n) == {s \in SUBSET S : \A x \in s : x <= n}
           Step(s, g) == IF s = {} THEN NotFound ELSE scanned(g[s \ {Max(s)}], raw[Max(s)], name)
           Part(n, g) == g = [s \in Upto(n) |-> Step(s, g)]
           Bad == {n \in Nat : ~\E g : Part(n, g)}
<1>0. ASSUME NEW s \in SUBSET S, s # {} PROVE Max(s) \in s /\ Max(s) \in Nat /\ \A y \in s : Max(s) >= y
  <2>1. UpTo(s, N)
    BY DEF UpTo
  <2>2. QED
    BY <1>0, <2>1, MaxOfInterval
<1>1. ASSUME NEW m \in Bad, \A n \in Bad : m <= n PROVE FALSE
  <2>1. CASE m = 0
    <3> DEFINE h == [s \in Upto(0) |-> NotFound]
    <3>1. \A s \in Upto(0) : s = {}
      OBVIOUS
    <3>2. \A s \in Upto(0) : Step(s, h) = NotFound
      BY <3>1
    <3> HIDE DEF Upto, Step
    <3>3. Part(0, h)
      BY <3>2
    <3>4. QED
      BY <1>1, <2>1, <3>3
  <2>2. CASE m # 0
    <3>1. m - 1 \in Nat /\ ~(m <= m - 1)
      BY <2>2
    <3>2. PICK g : Part(m - 1, g)
      BY <1>1, <3>1
    <3> DEFINE h == [s \in Upto(m) |-> Step(s, g)]
    <3>3. ASSUME NEW s \in Upto(m), s # {} PROVE s \ {Max(s)} \in Upto(m - 1)
      <4>1. Max(s) \in Nat /\ \A y \in s : Max(s) >= y
        BY <1>0, <3>3
      <4>2. Max(s) <= m
        BY <1>0, <3>3
      <4>3. ASSUME NEW x \in s \ {Max(s)} PROVE x <= m - 1
        <5>1. x \in Nat /\ Max(s) >= x /\ x # Max(s)
          BY <4>1
        <5>2. QED
          BY <4>1, <4>2, <5>1
      <4>4. QED
        BY <4>3
    <3>4. ASSUME NEW r \in Upto(m - 1) PROVE g[r] = Step(r, g) /\ r \in Upto(m)
      <4>1. r \in Upto(m)
        <5>1. \A x \in r : x \in Nat /\ x <= m - 1
          OBVIOUS
        <5>2. \A x \in r : x <= m
          BY <3>1, <5>1
        <5>3. QED
          BY <5>2
      <4> HIDE DEF Upto, Step
      <4>2. QED
        BY <3>2, <4>1
    <3> HIDE DEF Upto
    <3>5. \A r \in Upto(m - 1) : h[r] = g[r]
      <4> HIDE DEF Step
      <4>1. QED
        BY <3>4
    <3>6. ASSUME NEW s \in Upto(m) PROVE Step(s, g) = Step(s, h)
      <4> HIDE DEF h
      <4>1. QED
        BY <3>3, <3>5
    <3> HIDE DEF Step
    <3>7. Part(m, h)
      BY <3>6
    <3>8. QED
      BY <1>1, <3>7
  <2>3. QED
    BY <2>1, <2>2
<1>2. Bad = {}
  <2>1. Bad \in SUBSET Nat
    OBVIOUS
  <2> HIDE DEF Bad
  <2>2. QED
    BY <1>1, <2>1, LeastNat
<1>4. PICK g : Part(N, g)
  BY <1>2
<1>5. Upto(N) = SUBSET S
  OBVIOUS
<1>6. Scans(raw, name, g)
  <2> HIDE DEF Upto
  <2>1. QED
    BY <1>4, <1>5 DEF Scans
<1>7. QED
  BY <1>6 DEF Scanning

\* The scan of a sequence, and of one that agrees with it so far.
LEMMA ScanAppend ==
  ASSUME NEW raw \in Seq(Line), NEW line \in Line, NEW name
  PROVE  Scan(Append(raw, line), name) = scanned(Scan(raw, name), line, name)
<1> DEFINE N == Len(raw)
           raw2 == Append(raw, line)
           g == Scanning(raw, name)
           h == Scanning(raw2, name)
           B == {n \in Nat : \E s \in SUBSET (1..N) : (\A x \in s : x <= n) /\ g[s] # h[s]}
<1>1. /\ N \in Nat /\ DOMAIN raw = 1..N /\ DOMAIN raw2 = 1..(N + 1)
      /\ raw2[N + 1] = line /\ \A i \in 1..N : raw2[i] = raw[i]
  OBVIOUS
<1>2. Scans(raw, name, g) /\ Scans(raw2, name, h)
  BY <1>1, ScanningExists
<1> HIDE DEF g, h, raw2, N
<1>3. ASSUME NEW s \in SUBSET (1..N)
      PROVE  /\ g[s] = IF s = {} THEN NotFound ELSE scanned(g[s \ {Max(s)}], raw[Max(s)], name)
             /\ h[s] = IF s = {} THEN NotFound ELSE scanned(h[s \ {Max(s)}], raw2[Max(s)], name)
  <2>1. s \in SUBSET (1..(N + 1))
    BY <1>1
  <2>2. QED
    BY <1>1, <1>2, <2>1 DEF Scans
<1>4. ASSUME NEW m \in B, \A n \in B : m <= n PROVE FALSE
  <2>1. PICK s \in SUBSET (1..N) : (\A x \in s : x <= m) /\ g[s] # h[s]
    OBVIOUS
  <2>2. s # {}
    BY <1>3, <2>1
  <2>3. Max(s) \in s /\ \A y \in s : Max(s) >= y
    <3>1. UpTo(s, N)
      BY <1>1 DEF UpTo
    <3>2. QED
      BY <2>2, <3>1, MaxOfInterval
  <2>4. Max(s) \in 1..N /\ m \in Nat /\ Max(s) <= m
    BY <1>1, <2>1, <2>3
  <2>5. \A x \in s \ {Max(s)} : x <= m - 1
    <3>1. \A x \in s : x \in Nat
      BY <1>1
    <3>2. QED
      BY <2>3, <2>4, <3>1
  <2>6. m - 1 \in Nat /\ ~(m <= m - 1)
    BY <1>1, <2>4
  <2>7. g[s \ {Max(s)}] = h[s \ {Max(s)}]
    BY <1>4, <2>5, <2>6
  <2>8. raw2[Max(s)] = raw[Max(s)]
    BY <1>1, <2>4
  <2>9. QED
    BY <1>3, <2>1, <2>2, <2>7, <2>8
<1>5. B = {}
  <2>1. B \in SUBSET Nat
    OBVIOUS
  <2> HIDE DEF B
  <2>2. QED
    BY <1>4, <2>1, LeastNat
<1>6. g[1..N] = h[1..N]
  <2>1. N \in Nat /\ \A x \in 1..N : x <= N
    BY <1>1
  <2>2. QED
    BY <1>5, <2>1
<1>7. Max(1..(N + 1)) = N + 1
  <2>1. UpTo(1..(N + 1), N + 1) /\ N + 1 \in 1..(N + 1)
    BY <1>1 DEF UpTo
  <2>2. Max(1..(N + 1)) \in 1..(N + 1) /\ \A y \in 1..(N + 1) : Max(1..(N + 1)) >= y
    BY <2>1, MaxOfInterval
  <2>3. QED
    BY <1>1, <2>1, <2>2
<1>8. (1..(N + 1)) \ {N + 1} = 1..N
  BY <1>1
<1>9. h[1..(N + 1)] = scanned(h[1..N], line, name)
  <2> DEFINE all == 1..(N + 1)
  <2>0. N + 1 \in all
    BY <1>1
  <2>1. all # {} /\ all \in SUBSET all
    BY <2>0
  <2>2. raw2[Max(all)] = line /\ all \ {Max(all)} = 1..N
    BY <1>1, <1>7, <1>8
  <2>3. DOMAIN raw2 = all
    BY <1>1
  <2> HIDE DEF all
  <2>4. h[all] = scanned(h[all \ {Max(all)}], raw2[Max(all)], name)
    BY <1>2, <2>1, <2>3 DEF Scans
  <2>5. QED
    BY <2>2, <2>4 DEF all
<1>10. QED
  BY <1>1, <1>6, <1>9 DEF Scan, g, h, raw2

\* The scan of no lines finds nothing.
LEMMA ScanEmpty ==
  ASSUME NEW name PROVE Scan(<<>>, name) = NotFound
<1>1. DOMAIN <<>> = 1..0
  OBVIOUS
<1>2. Scans(<<>>, name, Scanning(<<>>, name))
  BY <1>1, ScanningExists
<1>3. DOMAIN <<>> = {}
  OBVIOUS
<1>4. QED
  BY <1>2, <1>3 DEF Scan, Scans

-----------------------------------------------------------------------------
(* The parser between two lines. *)

Name == STRING \cup {NoName}
Handles == [1..4 -> Seq(Value)]
Object == [class : Name, pk : Value, nicHdl : Value, handles : Handles, raw : Seq(Line)]
ParserState == [obj : Object, hadAttr : BOOLEAN, curName : Name, curVal : Value]

\* The handles of an attribute, with the one under construction.
HandlesSoFar(p, i) ==
  IF p.curName = HandleAttrs[i] THEN Append(p.obj.handles[i], p.curVal) ELSE p.obj.handles[i]

\* The empty sequence is a value, and has no values and no lines.
LEMMA EmptyValues == <<>> \in Value /\ <<>> \in Seq(Value) /\ <<>> \in Seq(Line)
BY EmptySeq DEF Value

\* Append keeps the type of a sequence.
LEMMA AppendTyped ==
  ASSUME NEW S, NEW s \in Seq(S), NEW e \in S PROVE Append(s, e) \in Seq(S)
OBVIOUS

\* Sequences of four that are alike.
LEMMA FourOf ==
  ASSUME NEW S, NEW e \in S
  PROVE  <<e, e, e, e>> \in [1..4 -> S] /\ \A i \in 1..4 : <<e, e, e, e>>[i] = e
OBVIOUS

StateOf(o, b, name, v) == [obj |-> o, hadAttr |-> b, curName |-> name, curVal |-> v]

\* The fields of a parser state.
LEMMA StateFields ==
  ASSUME NEW o, NEW b, NEW name, NEW v
  PROVE  LET p == StateOf(o, b, name, v)
         IN  /\ p.obj = o /\ p.hadAttr = b /\ p.curName = name /\ p.curVal = v
             /\ o \in Object /\ b \in BOOLEAN /\ name \in Name /\ v \in Value => p \in ParserState
BY DEF StateOf, ParserState

\* The parser starts with, and reset leaves, a well-typed state.
LEMMA FreshState == Fresh \in ParserState
<1> DEFINE h == <<<<>>, <<>>, <<>>, <<>>>>
<1>1. h \in Handles
  BY FourOf, EmptyValues DEF Handles
<1>2. NoObject = [class |-> NoName, pk |-> <<>>, nicHdl |-> <<>>, handles |-> h, raw |-> <<>>]
  BY DEF NoObject
<1> HIDE DEF h
<1>3. NoName \in Name
  BY DEF Name
<1>4. NoObject \in Object
  <2> DEFINE o(name, v, hs, ls) == [class |-> name, pk |-> v, nicHdl |-> v, handles |-> hs, raw |-> ls]
  <2>1. \A name \in Name : \A v \in Value : \A hs \in Handles : \A ls \in Seq(Line) : o(name, v, hs, ls) \in Object
    BY DEF Object
  <2>2. o(NoName, <<>>, h, <<>>) \in Object
    <3> HIDE DEF o
    <3>1. QED
      BY <1>1, <1>3, <2>1, EmptyValues
  <2>3. QED
    BY <1>2, <2>2
<1>5. Fresh = StateOf(NoObject, FALSE, NoName, <<>>)
  BY DEF Fresh, StateOf
<1> HIDE DEF NoObject
<1>6. QED
  BY <1>3, <1>4, <1>5, EmptyValues, StateFields

\* What a parser starts with.
LEMMA FreshFields ==
  /\ Fresh.obj.raw = <<>> /\ ~Fresh.hadAttr /\ Fresh.curName = NoName
  /\ \A i \in 1..4 : Fresh.obj.handles[i] = <<>>
<1>1. Fresh.obj.raw = <<>> /\ ~Fresh.hadAttr /\ Fresh.curName = NoName /\ Fresh.obj.handles = <<<<>>, <<>>, <<>>, <<>>>>
  BY DEF Fresh, NoObject
<1>2. QED
  BY <1>1, FourOf, EmptyValues

\* commit moves the attribute under construction into the object.
LEMMA CommitFields ==
  ASSUME NEW p \in ParserState, p.curName # NoName, NEW q, q = commit(p)
  PROVE  /\ q \in ParserState /\ q.hadAttr /\ q.obj.raw = p.obj.raw
         /\ q.obj.class = IF p.hadAttr THEN p.obj.class ELSE p.curName
         /\ q.obj.pk = IF p.hadAttr THEN p.obj.pk ELSE p.curVal
         /\ q.obj.nicHdl = IF p.curName = "nic-hdl" /\ p.obj.nicHdl = <<>> THEN p.curVal ELSE p.obj.nicHdl
         /\ \A i \in 1..4 : q.obj.handles[i] = HandlesSoFar(p, i)
<1> DEFINE o == p.obj
           hs == [i \in 1..4 |-> IF i \in handleIdx(p.curName) THEN Append(o.handles[i], p.curVal) ELSE o.handles[i]]
           c == [class |-> IF p.hadAttr THEN o.class ELSE p.curName,
                 pk |-> IF p.hadAttr THEN o.pk ELSE p.curVal,
                 nicHdl |-> IF p.curName = "nic-hdl" /\ o.nicHdl = <<>> THEN p.curVal ELSE o.nicHdl,
                 handles |-> hs, raw |-> o.raw]
<1>1. o \in Object /\ p.curName \in Name /\ p.curVal \in Value /\ p.hadAttr \in BOOLEAN
  BY DEF ParserState
<1>2. o.handles \in Handles /\ o.class \in Name /\ o.pk \in Value /\ o.nicHdl \in Value /\ o.raw \in Seq(Line)
  BY <1>1 DEF Object
<1>3. \A i \in 1..4 : o.handles[i] \in Seq(Value)
  BY <1>2 DEF Handles
<1>4. hs \in Handles
  <2>1. \A i \in 1..4 : Append(o.handles[i], p.curVal) \in Seq(Value)
    BY <1>1, <1>3, AppendTyped
  <2>2. QED
    BY <1>3, <2>1 DEF Handles
<1>5. \A i \in 1..4 : hs[i] = HandlesSoFar(p, i)
  BY DEF HandlesSoFar, handleIdx
<1> HIDE DEF hs
<1>6. c \in Object
  BY <1>1, <1>2, <1>4 DEF Object
<1>7. q = [obj |-> c, hadAttr |-> TRUE, curName |-> NoName, curVal |-> <<>>]
  BY DEF commit, hs, ParserState, Object
<1>8. <<>> \in Value /\ NoName \in Name /\ TRUE \in BOOLEAN
  BY EmptyValues DEF Name
<1> HIDE DEF c
<1>9. q.obj = c /\ q.hadAttr
  BY <1>7
<1>10. q \in ParserState
  BY <1>6, <1>7, <1>8 DEF ParserState
<1>11. /\ c.class = IF p.hadAttr THEN p.obj.class ELSE p.curName
       /\ c.pk = IF p.hadAttr THEN p.obj.pk ELSE p.curVal
       /\ c.nicHdl = IF p.curName = "nic-hdl" /\ p.obj.nicHdl = <<>> THEN p.curVal ELSE p.obj.nicHdl
       /\ c.raw = p.obj.raw /\ c.handles = hs
  BY DEF c
<1>12. QED
  BY <1>5, <1>9, <1>10, <1>11

\* No contact attribute is called nothing.
LEMMA HandleAttrsNamed ==
  ASSUME NEW i \in 1..4 PROVE HandleAttrs[i] # NoName
<1>1. HandleAttrs[i] \in {"admin-c", "tech-c", "abuse-c", "zone-c"}
  BY DEF HandleAttrs
<1>2. QED
  BY <1>1 DEF NoName

\* The value of a continued attribute is a value.
LEMMA Continued ==
  ASSUME NEW v \in Value, NEW w \in Value PROVE v \o <<Break>> \o w \in Value
<1>1. <<Break>> \in Seq(Word)
  BY DEF Word
<1>2. QED
  BY <1>1, ConcatProperties DEF Value

\* A comment or continuation is added to the raw text; a continuation also
\* to the attribute under construction, if there is one.
LEMMA ConsumedSame ==
  ASSUME NEW p \in ParserState, NEW line \in Line, line.kind \in {"comment", "continuation"},
         NEW q, q = consumed(p, line)
  PROVE  /\ q \in ParserState /\ q.obj.raw = Append(p.obj.raw, line)
         /\ q.obj.class = p.obj.class /\ q.obj.pk = p.obj.pk /\ q.obj.handles = p.obj.handles
         /\ q.obj.nicHdl = p.obj.nicHdl
         /\ q.hadAttr = p.hadAttr /\ q.curName = p.curName
         /\ q.curVal = IF line.kind = "comment" \/ p.curName = NoName THEN p.curVal
                       ELSE p.curVal \o <<Break>> \o line.words
<1> DEFINE o == [class |-> p.obj.class, pk |-> p.obj.pk, nicHdl |-> p.obj.nicHdl, handles |-> p.obj.handles,
                 raw |-> Append(p.obj.raw, line)]
           v == IF line.kind = "comment" \/ p.curName = NoName THEN p.curVal
                ELSE p.curVal \o <<Break>> \o line.words
<1>1. p.obj \in Object /\ p.curName \in Name /\ p.curVal \in Value /\ p.hadAttr \in BOOLEAN
  BY DEF ParserState
<1>2. /\ p.obj.handles \in Handles /\ p.obj.class \in Name /\ p.obj.pk \in Value
      /\ p.obj.nicHdl \in Value /\ p.obj.raw \in Seq(Line)
  BY <1>1 DEF Object
<1>3. v \in Value
  <2>1. line.words \in Value
    BY DEF Line
  <2>2. QED
    BY <1>1, <2>1, Continued
<1>4. o \in Object
  <2>1. Append(p.obj.raw, line) \in Seq(Line)
    BY <1>2, AppendTyped
  <2>2. QED
    BY <1>2, <2>1 DEF Object
<1>5. q = [obj |-> o, hadAttr |-> p.hadAttr, curName |-> p.curName, curVal |-> v]
  BY DEF consumed, ParserState, Object
<1> HIDE DEF o, v
<1>6. q.obj = o /\ q.hadAttr = p.hadAttr /\ q.curName = p.curName /\ q.curVal = v
  BY <1>5
<1>7. q \in ParserState
  BY <1>1, <1>3, <1>4, <1>5 DEF ParserState
<1>8. QED
  BY <1>6, <1>7 DEF o, v

\* An attribute line ends the attribute before it and starts its own.
LEMMA ConsumedAttribute ==
  ASSUME NEW p \in ParserState, NEW line \in Line, line.kind = "attribute",
         NEW q, q = consumed(p, line)
  PROVE  /\ q \in ParserState /\ q.obj.raw = Append(p.obj.raw, line)
         /\ q.obj.class = IF p.hadAttr \/ p.curName = NoName THEN p.obj.class ELSE p.curName
         /\ q.obj.pk = IF p.hadAttr \/ p.curName = NoName THEN p.obj.pk ELSE p.curVal
         /\ \A i \in 1..4 : q.obj.handles[i] = HandlesSoFar(p, i)
         /\ q.hadAttr <=> p.hadAttr \/ p.curName # NoName
         /\ q.obj.nicHdl = commit(p).obj.nicHdl
         /\ q.curName = line.name /\ q.curVal = line.words
<1> DEFINE c == commit(p)
           o == [class |-> c.obj.class, pk |-> c.obj.pk, nicHdl |-> c.obj.nicHdl, handles |-> c.obj.handles,
                 raw |-> Append(c.obj.raw, line)]
<1>1. /\ c \in ParserState /\ c.obj.raw = p.obj.raw
      /\ c.hadAttr <=> p.hadAttr \/ p.curName # NoName
      /\ c.obj.class = IF p.hadAttr \/ p.curName = NoName THEN p.obj.class ELSE p.curName
      /\ c.obj.pk = IF p.hadAttr \/ p.curName = NoName THEN p.obj.pk ELSE p.curVal
      /\ \A i \in 1..4 : c.obj.handles[i] = HandlesSoFar(p, i)
  <2>1. CASE p.curName = NoName
    BY <2>1, HandleAttrsNamed DEF commit, HandlesSoFar
  <2>2. CASE p.curName # NoName
    BY <2>2, CommitFields
  <2>3. QED
    BY <2>1, <2>2
<1>2. q = [obj |-> o, hadAttr |-> c.hadAttr, curName |-> line.name, curVal |-> line.words]
  <2> HIDE DEF c
  <2>1. q = [[c EXCEPT !.curName = line.name, !.curVal = line.words] EXCEPT !.obj.raw = Append(@, line)]
    BY DEF consumed, c
  <2>2. c \in ParserState
    BY <1>1
  <2>3. QED
    BY <2>1, <2>2 DEF ParserState, Object
<1> HIDE DEF c
<1>3. c.obj \in Object /\ c.hadAttr \in BOOLEAN
  BY <1>1 DEF ParserState
<1>4. o \in Object
  <2>1. /\ c.obj.handles \in Handles /\ c.obj.class \in Name /\ c.obj.pk \in Value
        /\ c.obj.nicHdl \in Value /\ c.obj.raw \in Seq(Line)
    BY <1>3 DEF Object
  <2>2. Append(c.obj.raw, line) \in Seq(Line)
    BY <2>1, AppendTyped
  <2>3. QED
    BY <2>1, <2>2 DEF Object
<1>5. /\ o.class = c.obj.class /\ o.pk = c.obj.pk /\ o.handles = c.obj.handles
      /\ o.raw = Append(c.obj.raw, line) /\ o.nicHdl = c.obj.nicHdl
  OBVIOUS
<1> HIDE DEF o
<1>6. q.obj = o /\ q.hadAttr = c.hadAttr /\ q.curName = line.name /\ q.curVal = line.words
  BY <1>2
<1>7. q \in ParserState
  <2>1. line.name \in Name /\ line.words \in Value
    BY DEF Line, Name
  <2>2. QED
    BY <1>2, <1>3, <1>4, <2>1 DEF ParserState
<1>8. QED
  BY <1>1, <1>5, <1>6, <1>7 DEF c

-----------------------------------------------------------------------------
(* The scan of the raw text so far agrees with the parser's state. *)

ScanState == [out : Seq(Value), matching : BOOLEAN]

HandlesFound(p) ==
  \A i \in 1..4 : Scan(p.obj.raw, HandleAttrs[i])
                     = [out |-> HandlesSoFar(p, i), matching |-> p.curName = HandleAttrs[i]]

\* The first attribute is found by its name: there is none yet, it is under
\* construction, or it is complete and no continuation line is added to it.
KeyFound(p) ==
  /\ ~p.hadAttr /\ p.curName = NoName => \A name \in STRING : Scan(p.obj.raw, name) = NotFound
  /\ ~p.hadAttr /\ p.curName # NoName =>
       Scan(p.obj.raw, p.curName) = [out |-> <<p.curVal>>, matching |-> TRUE]
  /\ p.hadAttr =>
       LET s == Scan(p.obj.raw, p.obj.class)
       IN  s \in ScanState /\ Len(s.out) >= 1 /\ s.out[1] = p.obj.pk /\ (s.matching => Len(s.out) >= 2)

AllLower(raw) == \A i \in DOMAIN raw : ~raw[i].capitals

ScanFollows(p) ==
  /\ p \in ParserState
  /\ p.curName = NoName => ~p.hadAttr
  /\ p.curName # NoName => p.curName \in STRING
  /\ AllLower(p.obj.raw) => HandlesFound(p) /\ KeyFound(p)

\* A parser that has read nothing.
LEMMA FreshFollows == ScanFollows(Fresh)
<1>1. HandlesFound(Fresh)
  BY FreshFields, ScanEmpty, HandleAttrsNamed DEF HandlesFound, HandlesSoFar, NotFound
<1>2. KeyFound(Fresh)
  BY FreshFields, ScanEmpty DEF KeyFound
<1>3. QED
  BY <1>1, <1>2, FreshState, FreshFields DEF ScanFollows

\* What scanAttr makes of a line.
LEMMA ScannedOther ==
  ASSUME NEW s, NEW line, NEW name,
         \/ line.kind \in {"comment", "junk"}
         \/ line.kind = "continuation" /\ ~s.matching
  PROVE  scanned(s, line, name) = s
BY DEF scanned

\* A continuation line extends the last value of a scan that is matching.
LEMMA ScannedContinuation ==
  ASSUME NEW h \in Seq(Value), NEW v \in Value, NEW line \in Line, line.kind = "continuation", NEW name
  PROVE  scanned([out |-> Append(h, v), matching |-> TRUE], line, name)
           = [out |-> Append(h, v \o <<Break>> \o line.words), matching |-> TRUE]
<1> DEFINE a == Append(h, v)
           s == [out |-> a, matching |-> TRUE]
           n == Len(h) + 1
           w == v \o <<Break>> \o line.words
<1>1. a \in Seq(Value) /\ Len(a) = n /\ a[n] = v /\ n \in 1..Len(a) /\ \A i \in 1..Len(h) : a[i] = h[i]
  OBVIOUS
<1>2. w \in Value
  BY Continued DEF Line
<1>3. Len(h) \in Nat
  OBVIOUS
<1> HIDE DEF a, n
<1>4. scanned(s, line, name) = [out |-> [a EXCEPT ![n] = w], matching |-> TRUE]
  <2>1. scanned(s, line, name) = [s EXCEPT !.out[Len(s.out)] = @ \o <<Break>> \o line.words]
    BY DEF scanned
  <2>2. QED
    BY <1>1, <2>1
<1>5. [a EXCEPT ![n] = w] = Append(h, w)
  <2> DEFINE b == [a EXCEPT ![n] = w]
             c == Append(h, w)
  <2> HIDE DEF w
  <2>1. b \in Seq(Value) /\ Len(b) = n /\ \A i \in 1..n : b[i] = IF i = n THEN w ELSE a[i]
    BY <1>1, <1>2, ExceptSeq
  <2>2. c \in Seq(Value) /\ Len(c) = Len(h) + 1 /\ c[Len(h) + 1] = w /\ \A i \in 1..Len(h) : c[i] = h[i]
    BY <1>2
  <2> HIDE DEF b, c
  <2>3. n = Len(h) + 1
    BY DEF n
  <2>4. \A i \in 1..n : b[i] = c[i]
    BY <1>1, <1>3, <2>1, <2>2, <2>3
  <2>5. b = c
    BY <2>1, <2>2, <2>3, <2>4, SeqEqual
  <2>6. QED
    BY <2>5 DEF b, c
<1>6. QED
  BY <1>4, <1>5 DEF a

\* An attribute line, spelt in lower case, starts a value or ends one.
LEMMA ScannedAttribute ==
  ASSUME NEW s \in ScanState, NEW line, line.kind = "attribute", ~line.capitals, NEW name
  PROVE  scanned(s, line, name) = IF line.name = name THEN [out |-> Append(s.out, line.words), matching |-> TRUE]
                                  ELSE [out |-> s.out, matching |-> FALSE]
<1>1. scanned(s, line, name) = IF line.name = name THEN [out |-> Append(s.out, line.words), matching |-> TRUE]
                               ELSE [s EXCEPT !.matching = FALSE]
  BY DEF scanned, scanAttribute
<1>2. [s EXCEPT !.matching = FALSE] = [out |-> s.out, matching |-> FALSE]
  <2> DEFINE t == [s EXCEPT !.matching = FALSE]
  <2>1. t \in ScanState /\ t.out = s.out /\ ~t.matching
    BY DEF ScanState
  <2> HIDE DEF t
  <2>2. t = [out |-> t.out, matching |-> FALSE]
    BY <2>1 DEF ScanState
  <2>3. QED
    BY <2>1, <2>2 DEF t
<1>3. QED
  BY <1>1, <1>2

\* The raw text with one more line.
LEMMA OneMoreLine ==
  ASSUME NEW raw \in Seq(Line), NEW line \in Line, AllLower(Append(raw, line))
  PROVE  AllLower(raw) /\ ~line.capitals
<1>1. DOMAIN Append(raw, line) = 1..(Len(raw) + 1) /\ DOMAIN raw = 1..Len(raw) /\ Len(raw) \in Nat
  OBVIOUS
<1>2. Append(raw, line)[Len(raw) + 1] = line /\ \A i \in 1..Len(raw) : Append(raw, line)[i] = raw[i]
  OBVIOUS
<1>3. QED
  BY <1>1, <1>2 DEF AllLower

\* The types of the parts of a parser state.
LEMMA StateParts ==
  ASSUME NEW p \in ParserState
  PROVE  /\ p.obj \in Object /\ p.hadAttr \in BOOLEAN /\ p.curName \in Name /\ p.curVal \in Value
         /\ p.obj.raw \in Seq(Line) /\ p.obj.pk \in Value
         /\ \A i \in 1..4 : p.obj.handles[i] \in Seq(Value) /\ HandlesSoFar(p, i) \in Seq(Value)
<1>1. p.obj \in Object /\ p.hadAttr \in BOOLEAN /\ p.curName \in Name /\ p.curVal \in Value
  BY DEF ParserState
<1>2. p.obj.raw \in Seq(Line) /\ p.obj.pk \in Value /\ p.obj.handles \in Handles
  BY <1>1 DEF Object
<1>3. \A i \in 1..4 : p.obj.handles[i] \in Seq(Value)
  BY <1>2 DEF Handles
<1>4. \A i \in 1..4 : HandlesSoFar(p, i) \in Seq(Value)
  BY <1>1, <1>3, AppendTyped DEF HandlesSoFar
<1>5. QED
  BY <1>1, <1>2, <1>3, <1>4

\* A comment or a continuation line.
LEMMA FollowsSame ==
  ASSUME NEW p, ScanFollows(p), NEW line \in Line, line.kind \in {"comment", "continuation"},
         NEW q, q = consumed(p, line)
  PROVE  ScanFollows(q)
<1>0. p \in ParserState
  BY DEF ScanFollows
<1>1. /\ q \in ParserState /\ q.obj.raw = Append(p.obj.raw, line)
      /\ q.obj.class = p.obj.class /\ q.obj.pk = p.obj.pk /\ q.obj.handles = p.obj.handles
      /\ q.hadAttr = p.hadAttr /\ q.curName = p.curName
      /\ q.curVal = IF line.kind = "comment" \/ p.curName = NoName THEN p.curVal
                    ELSE p.curVal \o <<Break>> \o line.words
  BY <1>0, ConsumedSame
<1>2. /\ p.hadAttr \in BOOLEAN /\ p.curVal \in Value /\ p.obj.raw \in Seq(Line) /\ line.words \in Value
      /\ \A i \in 1..4 : p.obj.handles[i] \in Seq(Value)
  BY <1>0, StateParts DEF Line
<1>3. \A name : Scan(q.obj.raw, name) = scanned(Scan(p.obj.raw, name), line, name)
  BY <1>1, <1>2, ScanAppend
<1> HIDE DEF consumed
<1>4. ASSUME AllLower(q.obj.raw) PROVE HandlesFound(q) /\ KeyFound(q)
  <2>1. HandlesFound(p) /\ KeyFound(p)
    BY <1>1, <1>2, <1>4, OneMoreLine DEF ScanFollows
  <2>2. ASSUME NEW i \in 1..4
        PROVE  Scan(q.obj.raw, HandleAttrs[i]) = [out |-> HandlesSoFar(q, i), matching |-> q.curName = HandleAttrs[i]]
    <3> DEFINE s == Scan(p.obj.raw, HandleAttrs[i])
    <3>1. s = [out |-> HandlesSoFar(p, i), matching |-> p.curName = HandleAttrs[i]]
      BY <2>1 DEF HandlesFound
    <3> HIDE DEF s
    <3>2. Scan(q.obj.raw, HandleAttrs[i]) = scanned(s, line, HandleAttrs[i])
      BY <1>3 DEF s
    <3>3. CASE line.kind = "comment" \/ p.curName # HandleAttrs[i]
      <4>1. line.kind # "comment" => ~s.matching
        BY <3>1, <3>3
      <4>5. scanned(s, line, HandleAttrs[i]) = s
        BY <4>1, ScannedOther
      <4>2. HandlesSoFar(q, i) = HandlesSoFar(p, i)
        BY <1>1, <3>3 DEF HandlesSoFar
      <4>3. QED
        BY <1>1, <3>1, <3>2, <4>5, <4>2
    <3>4. CASE line.kind = "continuation" /\ p.curName = HandleAttrs[i]
      <4>1. s = [out |-> Append(p.obj.handles[i], p.curVal), matching |-> TRUE]
        BY <3>1, <3>4 DEF HandlesSoFar
      <4>2. scanned(s, line, HandleAttrs[i])
              = [out |-> Append(p.obj.handles[i], p.curVal \o <<Break>> \o line.words), matching |-> TRUE]
        BY <1>2, <3>4, <4>1, ScannedContinuation
      <4>3. HandlesSoFar(q, i) = Append(p.obj.handles[i], p.curVal \o <<Break>> \o line.words)
        BY <1>1, <3>4, HandleAttrsNamed DEF HandlesSoFar
      <4>4. QED
        BY <1>1, <3>2, <3>4, <4>2, <4>3
    <3>5. QED
      BY <3>3, <3>4
  <2>3. CASE ~p.hadAttr /\ p.curName = NoName
    <3>1. ASSUME NEW name \in STRING PROVE Scan(q.obj.raw, name) = NotFound
      <4>1. Scan(p.obj.raw, name) = NotFound
        BY <2>1, <2>3 DEF KeyFound
      <4>2. scanned(NotFound, line, name) = NotFound
        BY ScannedOther DEF NotFound
      <4>3. QED
        BY <1>3, <4>1, <4>2
    <3>2. QED
      BY <1>1, <2>3, <2>2, <3>1 DEF HandlesFound, KeyFound
  <2>4. CASE ~p.hadAttr /\ p.curName # NoName
    <3>1. Scan(p.obj.raw, p.curName) = [out |-> <<p.curVal>>, matching |-> TRUE]
      BY <2>1, <2>4 DEF KeyFound
    <3>2. Scan(q.obj.raw, q.curName) = [out |-> <<q.curVal>>, matching |-> TRUE]
      <4>1. CASE line.kind = "comment"
        BY <1>1, <1>3, <3>1, <4>1, ScannedOther
      <4>2. CASE line.kind = "continuation"
        <5> DEFINE none == <<>>
        <5>1. <<p.curVal>> = Append(none, p.curVal) /\ none \in Seq(Value)
          BY EmptyValues
        <5>4. Append(none, q.curVal) = <<q.curVal>>
          OBVIOUS
        <5> HIDE DEF none
        <5>2. scanned(Scan(p.obj.raw, p.curName), line, p.curName)
                = [out |-> Append(none, p.curVal \o <<Break>> \o line.words), matching |-> TRUE]
          <6> DEFINE s == [out |-> Append(none, p.curVal), matching |-> TRUE]
          <6>1. Scan(p.obj.raw, p.curName) = s
            BY <3>1, <5>1
          <6>2. scanned(s, line, p.curName)
                  = [out |-> Append(none, p.curVal \o <<Break>> \o line.words), matching |-> TRUE]
            BY <1>2, <4>2, <5>1, ScannedContinuation
          <6> HIDE DEF s
          <6>3. QED
            BY <6>1, <6>2
        <5>3. q.curVal = p.curVal \o <<Break>> \o line.words
          BY <1>1, <2>4, <4>2
        <5>5. QED
          BY <1>1, <1>3, <5>2, <5>3, <5>4
      <4>3. QED
        BY <4>1, <4>2
    <3>3. QED
      BY <1>1, <2>4, <2>2, <3>2 DEF HandlesFound, KeyFound
  <2>5. CASE p.hadAttr
    <3> DEFINE s == Scan(p.obj.raw, p.obj.class)
               t == Scan(q.obj.raw, q.obj.class)
    <3>1. /\ s \in ScanState /\ Len(s.out) >= 1 /\ s.out[1] = p.obj.pk
          /\ s.matching => Len(s.out) >= 2
      BY <2>1, <2>5 DEF KeyFound
    <3>2. t = scanned(s, line, p.obj.class)
      BY <1>1, <1>3
    <3> HIDE DEF s, t
    <3>3. t \in ScanState /\ Len(t.out) >= 1 /\ t.out[1] = p.obj.pk /\ (t.matching => Len(t.out) >= 2)
      <4>1. CASE line.kind = "comment" \/ ~s.matching
        BY <3>1, <3>2, <4>1, ScannedOther
      <4>2. CASE line.kind = "continuation" /\ s.matching
        <5> DEFINE n == Len(s.out)
                   w == s.out[n] \o <<Break>> \o line.words
        <5>1. s.out \in Seq(Value) /\ n \in Nat /\ n >= 2 /\ s.matching = TRUE
          BY <3>1, <4>2 DEF ScanState
        <5>2. s.out[n] \in Value
          BY <5>1
        <5>3. w \in Value
          BY <1>2, <5>2, Continued
        <5>4. t = [out |-> [s.out EXCEPT ![n] = w], matching |-> TRUE]
          <6>1. t = [s EXCEPT !.out[Len(s.out)] = @ \o <<Break>> \o line.words]
            BY <3>2, <4>2 DEF scanned
          <6>2. QED
            BY <3>1, <5>1, <6>1 DEF ScanState
        <5> HIDE DEF w
        <5>5. [s.out EXCEPT ![n] = w] \in Seq(Value) /\ Len([s.out EXCEPT ![n] = w]) = n
              /\ [s.out EXCEPT ![n] = w][1] = s.out[1]
          BY <5>1, <5>3, ExceptSeq
        <5>6. QED
          BY <3>1, <5>1, <5>4, <5>5 DEF ScanState
      <4>3. QED
        BY <4>1, <4>2
    <3>4. QED
      BY <1>1, <2>5, <2>2, <3>3 DEF HandlesFound, KeyFound, t
  <2>6. QED
    BY <1>2, <2>3, <2>4, <2>5
<1>5. QED
  BY <1>1, <1>4 DEF ScanFollows

\* An attribute line.
LEMMA FollowsAttribute ==
  ASSUME NEW p, ScanFollows(p), NEW line \in Line, line.kind = "attribute",
         NEW q, q = consumed(p, line)
  PROVE  ScanFollows(q)
<1>0. p \in ParserState
  BY DEF ScanFollows
<1>1. /\ q \in ParserState /\ q.obj.raw = Append(p.obj.raw, line)
      /\ q.obj.class = IF p.hadAttr \/ p.curName = NoName THEN p.obj.class ELSE p.curName
      /\ q.obj.pk = IF p.hadAttr \/ p.curName = NoName THEN p.obj.pk ELSE p.curVal
      /\ \A i \in 1..4 : q.obj.handles[i] = HandlesSoFar(p, i)
      /\ q.hadAttr <=> p.hadAttr \/ p.curName # NoName
      /\ q.curName = line.name /\ q.curVal = line.words
  BY <1>0, ConsumedAttribute
<1>2. /\ p.curVal \in Value /\ p.obj.raw \in Seq(Line) /\ line.words \in Value
      /\ line.name \in STRING /\ line.name # NoName
      /\ \A i \in 1..4 : HandlesSoFar(p, i) \in Seq(Value)
  BY <1>0, StateParts DEF Line
<1>3. \A name : Scan(q.obj.raw, name) = scanned(Scan(p.obj.raw, name), line, name)
  BY <1>1, <1>2, ScanAppend
<1> HIDE DEF consumed
<1>4. ASSUME AllLower(q.obj.raw) PROVE HandlesFound(q) /\ KeyFound(q)
  <2>0. ~line.capitals
    BY <1>1, <1>2, <1>4, OneMoreLine
  <2>1. HandlesFound(p) /\ KeyFound(p)
    BY <1>1, <1>2, <1>4, OneMoreLine DEF ScanFollows
  <2>2. ASSUME NEW i \in 1..4
        PROVE  Scan(q.obj.raw, HandleAttrs[i]) = [out |-> HandlesSoFar(q, i), matching |-> q.curName = HandleAttrs[i]]
    <3> DEFINE s == Scan(p.obj.raw, HandleAttrs[i])
               h == HandlesSoFar(p, i)
    <3>1. s = [out |-> h, matching |-> p.curName = HandleAttrs[i]]
      BY <2>1 DEF HandlesFound
    <3>2. h \in Seq(Value)
      BY <1>2
    <3> HIDE DEF s, h
    <3>3. s \in ScanState /\ s.out = h
      BY <3>1, <3>2 DEF ScanState
    <3>4. Scan(q.obj.raw, HandleAttrs[i]) = scanned(s, line, HandleAttrs[i])
      BY <1>3 DEF s
    <3>5. scanned(s, line, HandleAttrs[i])
            = IF line.name = HandleAttrs[i] THEN [out |-> Append(h, line.words), matching |-> TRUE]
              ELSE [out |-> h, matching |-> FALSE]
      BY <2>0, <3>3, ScannedAttribute
    <3>6. HandlesSoFar(q, i) = IF line.name = HandleAttrs[i] THEN Append(h, line.words) ELSE h
      BY <1>1 DEF HandlesSoFar, h
    <3>7. CASE line.name = HandleAttrs[i]
      BY <1>1, <3>4, <3>5, <3>6, <3>7
    <3>8. CASE line.name # HandleAttrs[i]
      BY <1>1, <3>4, <3>5, <3>6, <3>8
    <3>9. QED
      BY <3>7, <3>8
  <2>3. CASE ~p.hadAttr /\ p.curName = NoName
    <3>1. Scan(p.obj.raw, line.name) = NotFound
      BY <1>2, <2>1, <2>3 DEF KeyFound
    <3>2. NotFound \in ScanState /\ Append(NotFound.out, line.words) = <<line.words>>
      BY EmptyValues DEF NotFound, ScanState
    <3>3. Scan(q.obj.raw, line.name) = [out |-> <<line.words>>, matching |-> TRUE]
      BY <1>3, <2>0, <3>1, <3>2, ScannedAttribute
    <3>4. QED
      BY <1>1, <1>2, <2>2, <2>3, <3>3 DEF HandlesFound, KeyFound
  <2>4. CASE p.hadAttr \/ p.curName # NoName
    <3> DEFINE s == Scan(p.obj.raw, q.obj.class)
               t == Scan(q.obj.raw, q.obj.class)
    <3>1. s \in ScanState /\ Len(s.out) >= 1 /\ s.out[1] = q.obj.pk
      <4>1. CASE p.hadAttr
        BY <1>1, <2>1, <4>1 DEF KeyFound
      <4>2. CASE ~p.hadAttr
        <5>1. q.obj.class = p.curName /\ q.obj.pk = p.curVal
          BY <1>1, <2>4, <4>2
        <5>2. s = [out |-> <<p.curVal>>, matching |-> TRUE]
          BY <2>1, <2>4, <4>2, <5>1 DEF KeyFound
        <5>3. <<p.curVal>> \in Seq(Value) /\ Len(<<p.curVal>>) = 1 /\ <<p.curVal>>[1] = p.curVal
          BY <1>2
        <5> HIDE DEF s
        <5>4. s.out = <<p.curVal>> /\ s \in ScanState
          BY <5>2, <5>3 DEF ScanState
        <5>5. QED
          BY <5>1, <5>3, <5>4
      <4>3. QED
        BY <4>1, <4>2
    <3>2. t = scanned(s, line, q.obj.class)
      BY <1>3
    <3> HIDE DEF s, t
    <3>3. t = IF line.name = q.obj.class THEN [out |-> Append(s.out, line.words), matching |-> TRUE]
              ELSE [out |-> s.out, matching |-> FALSE]
      BY <2>0, <3>1, <3>2, ScannedAttribute
    <3>4. s.out \in Seq(Value)
      BY <3>1 DEF ScanState
    <3>5. /\ Append(s.out, line.words) \in Seq(Value) /\ Len(Append(s.out, line.words)) >= 2
          /\ Append(s.out, line.words)[1] = s.out[1]
      BY <1>2, <3>1, <3>4
    <3>6. t \in ScanState /\ Len(t.out) >= 1 /\ t.out[1] = q.obj.pk /\ (t.matching => Len(t.out) >= 2)
      <4>1. CASE line.name = q.obj.class
        <5>1. t = [out |-> Append(s.out, line.words), matching |-> TRUE]
          BY <3>3, <4>1
        <5>2. QED
          BY <3>1, <3>5, <5>1 DEF ScanState
      <4>2. CASE line.name # q.obj.class
        <5>1. t = [out |-> s.out, matching |-> FALSE]
          BY <3>3, <4>2
        <5>2. QED
          BY <3>1, <3>4, <5>1 DEF ScanState
      <4>3. QED
        BY <4>1, <4>2
    <3>7. QED
      BY <1>1, <2>4, <2>2, <3>6 DEF HandlesFound, KeyFound, t
  <2>5. QED
    BY <2>3, <2>4
<1>5. QED
  BY <1>1, <1>2, <1>4 DEF ScanFollows

\* Every line that is not blank keeps the agreement.
LEMMA ConsumedFollows ==
  ASSUME NEW p, ScanFollows(p), NEW line \in Line, line.kind # "blank"
  PROVE  ScanFollows(consumed(p, line))
<1>1. line.kind \in LineKinds
  BY DEF Line
<1>2. CASE line.kind \in {"comment", "continuation"}
  BY <1>2, FollowsSame
<1>3. CASE line.kind = "attribute"
  BY <1>3, FollowsAttribute
<1>4. CASE line.kind = "junk"
  <2>1. consumed(p, line) = p
    BY <1>4 DEF consumed
  <2>2. QED
    BY <2>1
<1>5. QED
  BY <1>1, <1>2, <1>3, <1>4 DEF LineKinds

\* What flush emits can be read back.
Readable(o) ==
  LowerCase(o) =>
    /\ \A i \in 1..4 : LookupAll(o, HandleAttrs[i]) = o.handles[i]
    /\ o.pk = LookupAll(o, o.class)[1]

\* flush emits one well-typed object that can be read back, or none.
LEMMA FlushedReadable ==
  ASSUME NEW p, ScanFollows(p), flushed(p) # <<>>
  PROVE  flushed(p) = <<flushed(p)[1]>> /\ Readable(flushed(p)[1]) /\ flushed(p)[1] \in Object
<1> DEFINE q == commit(p)
           o == q.obj
<1>1. p \in ParserState /\ (p.curName = NoName => ~p.hadAttr)
  BY DEF ScanFollows
<1>2. p.curName # NoName /\ flushed(p) = <<o>>
  <2>1. CASE p.curName = NoName
    BY <1>1, <2>1 DEF flushed, commit
  <2>2. CASE p.curName # NoName
    <3>1. q.hadAttr
      BY <1>1, <2>2, CommitFields
    <3>2. QED
      BY <2>2, <3>1 DEF flushed
  <2>3. QED
    BY <2>1, <2>2
<1>3. /\ q \in ParserState /\ o.raw = p.obj.raw
      /\ o.class = IF p.hadAttr THEN p.obj.class ELSE p.curName
      /\ o.pk = IF p.hadAttr THEN p.obj.pk ELSE p.curVal
      /\ \A i \in 1..4 : o.handles[i] = HandlesSoFar(p, i)
  BY <1>1, <1>2, CommitFields
<1>4. o \in Object
  BY <1>3, StateParts
<1> HIDE DEF o, q
<1>5. ASSUME LowerCase(o)
      PROVE  /\ \A i \in 1..4 : LookupAll(o, HandleAttrs[i]) = o.handles[i]
             /\ o.pk = LookupAll(o, o.class)[1]
  <2>1. HandlesFound(p) /\ KeyFound(p)
    BY <1>3, <1>5 DEF ScanFollows, LowerCase, AllLower
  <2>2. ASSUME NEW i \in 1..4 PROVE LookupAll(o, HandleAttrs[i]) = o.handles[i]
    <3>1. Scan(o.raw, HandleAttrs[i]) = [out |-> HandlesSoFar(p, i), matching |-> p.curName = HandleAttrs[i]]
      BY <1>3, <2>1 DEF HandlesFound
    <3>2. Scan(o.raw, HandleAttrs[i]).out = HandlesSoFar(p, i)
      BY <3>1
    <3>3. QED
      BY <1>3, <3>2, LookupIsScan
  <2>3. Scan(o.raw, o.class).out[1] = o.pk
    <3>1. CASE p.hadAttr
      BY <1>3, <2>1, <3>1 DEF KeyFound
    <3>2. CASE ~p.hadAttr
      <4>1. Scan(o.raw, o.class) = [out |-> <<p.curVal>>, matching |-> TRUE] /\ o.pk = p.curVal
        BY <1>2, <1>3, <2>1, <3>2 DEF KeyFound
      <4>2. QED
        BY <4>1
    <3>3. QED
      BY <3>1, <3>2
  <2>4. QED
    BY <2>2, <2>3, LookupIsScan
<1>6. QED
  BY <1>2, <1>4, <1>5 DEF Readable

-----------------------------------------------------------------------------
(* The goroutines of a reload. *)

LoaderTypes ==
  /\ text \in Texts
  /\ pc \in [Files -> {"wait", "parse", "done", "failed"}]
  /\ pos \in [Files -> Nat \ {0}]
  /\ parse \in [Files -> ParserState]
  /\ emitted \in [Files -> Seq(Object)]

ParseInv ==
  /\ LoaderTypes
  /\ \A f \in Files : ScanFollows(parse[f])
  /\ \A f \in Files : \A k \in DOMAIN emitted[f] : Readable(emitted[f][k])

\* The initial state satisfies the invariant.
LEMMA ParseInit == Init => ParseInv
<1> SUFFICES ASSUME Init PROVE ParseInv
  OBVIOUS
<1> USE DEF Init
<1>1. text \in Texts /\ pc \in [Files -> {"wait", "parse", "done", "failed"}] /\ pos \in [Files -> Nat \ {0}]
  OBVIOUS
<1>2. parse \in [Files -> ParserState]
  BY FreshState
<1>3. emitted \in [Files -> Seq(Object)]
  BY EmptySeq
<1>4. \A f \in Files : ScanFollows(parse[f])
  BY FreshFollows
<1>5. \A f \in Files : \A k \in DOMAIN emitted[f] : Readable(emitted[f][k])
  OBVIOUS
<1>6. QED
  BY <1>1, <1>2, <1>3, <1>4, <1>5 DEF ParseInv, LoaderTypes

\* flush: an object that can be read back is emitted, or none.
LEMMA FlushKeeps ==
  ASSUME ParseInv, NEW f \in Files, NEW then \in {"parse", "done", "failed"}, Flush(f, then), text' = text
  PROVE  /\ pc' \in [Files -> {"wait", "parse", "done", "failed"}]
         /\ parse' \in [Files -> ParserState]
         /\ emitted' \in [Files -> Seq(Object)]
         /\ \A g \in Files : ScanFollows(parse'[g])
         /\ \A g \in Files : \A k \in DOMAIN emitted'[g] : Readable(emitted'[g][k])
<1> DEFINE objs == flushed(parse[f])
<1>1. parse' = [parse EXCEPT ![f] = Fresh]
  BY DEF Flush, reset
<1>2. /\ parse' \in [Files -> ParserState]
      /\ \A g \in Files : ScanFollows(parse'[g])
  <2>1. ScanFollows(Fresh) /\ Fresh \in ParserState
    BY FreshFollows, FreshState
  <2>2. parse \in [Files -> ParserState] /\ \A g \in Files : ScanFollows(parse[g])
    BY DEF ParseInv, LoaderTypes
  <2> HIDE DEF Fresh
  <2>3. QED
    BY <1>1, <2>1, <2>2
<1>3. pc' \in [Files -> {"wait", "parse", "done", "failed"}]
  <2>1. pc' = [pc EXCEPT ![f] = then] \/ pc' = [pc EXCEPT ![f] = "failed"]
    BY DEF Flush
  <2>2. QED
    BY <2>1 DEF ParseInv, LoaderTypes
<1>4. CASE UNCHANGED emitted
  BY <1>2, <1>3, <1>4 DEF ParseInv, LoaderTypes
<1>5. CASE emitted' = [emitted EXCEPT ![f] = @ \o objs] /\ objs # <<>>
  <2>1. ScanFollows(parse[f]) /\ emitted \in [Files -> Seq(Object)] /\ emitted[f] \in Seq(Object)
    BY DEF ParseInv, LoaderTypes
  <2>2. objs = <<objs[1]>> /\ Readable(objs[1]) /\ objs[1] \in Object
    BY <1>5, <2>1, FlushedReadable
  <2> DEFINE o == objs[1]
             e == emitted[f]
  <2>3. emitted' = [emitted EXCEPT ![f] = e \o <<o>>]
    BY <1>5, <2>2
  <2> HIDE DEF objs, o, e
  <2>4. o \in Object /\ e \in Seq(Object) /\ Readable(o)
    BY <2>1, <2>2 DEF o, e
  <2>5. /\ e \o <<o>> \in Seq(Object) /\ DOMAIN (e \o <<o>>) = 1..(Len(e) + 1)
        /\ (e \o <<o>>)[Len(e) + 1] = o /\ \A k \in 1..Len(e) : (e \o <<o>>)[k] = e[k]
    BY <2>4
  <2>6. \A k \in 1..Len(e) : Readable(e[k])
    BY <2>4 DEF ParseInv, e
  <2>7. \A k \in DOMAIN (e \o <<o>>) : Readable((e \o <<o>>)[k])
    <3>1. ASSUME NEW k \in 1..(Len(e) + 1) PROVE Readable((e \o <<o>>)[k])
      <4>1. CASE k \in 1..Len(e)
        BY <2>5, <2>6, <4>1
      <4>2. CASE k = Len(e) + 1
        BY <2>4, <2>5, <4>2
      <4>3. Len(e) \in Nat
        BY <2>4
      <4>4. QED
        BY <4>1, <4>2, <4>3
    <3>2. QED
      BY <2>5, <3>1
  <2>8. emitted' \in [Files -> Seq(Object)]
    BY <2>1, <2>3, <2>5
  <2>9. ASSUME NEW g \in Files, NEW k \in DOMAIN emitted'[g] PROVE Readable(emitted'[g][k])
    <3>1. CASE g = f
      BY <2>1, <2>3, <2>7, <3>1
    <3>2. CASE g # f
      BY <2>1, <2>3, <3>2 DEF ParseInv
    <3>3. QED
      BY <3>1, <3>2
  <2>10. QED
    BY <1>2, <1>3, <2>8, <2>9
<1>6. QED
  BY <1>4, <1>5 DEF Flush

\* Every step keeps the invariant.
LEMMA ParseStep ==
  ASSUME ParseInv, [Next]_vars PROVE ParseInv'
<1>1. ASSUME NEW f \in Files, Begin(f) PROVE ParseInv'
  BY <1>1 DEF Begin, ParseInv, LoaderTypes, Files
<1>2. ASSUME NEW f \in Files, ReadLine(f) PROVE ParseInv'
  <2> DEFINE line == text[f][pos[f]]
  <2>1. /\ text' = text /\ pos' = [pos EXCEPT ![f] = @ + 1] /\ text' \in Texts
        /\ pos' \in [Files -> Nat \ {0}]
    BY <1>2 DEF ReadLine, ParseInv, LoaderTypes
  <2>2. line \in Line
    <3>1. text[f] \in Seq(Line)
      BY LoaderAssumption DEF ParseInv, LoaderTypes, Files
    <3>2. pos[f] \in Nat \ {0} /\ pos[f] <= Len(text[f])
      BY <1>2 DEF ReadLine, ParseInv, LoaderTypes
    <3>3. QED
      BY <3>1, <3>2
  <2>3. CASE line.kind = "blank"
    <3>1. Flush(f, "parse")
      BY <1>2, <2>3 DEF ReadLine
    <3>2. QED
      BY <2>1, <3>1, FlushKeeps DEF ParseInv, LoaderTypes, Files
  <2>4. CASE line.kind # "blank"
    <3>1. parse' = [parse EXCEPT ![f] = consumed(parse[f], line)] /\ UNCHANGED <<pc, emitted>>
      BY <1>2, <2>4 DEF ReadLine
    <3>2. ScanFollows(consumed(parse[f], line))
      BY <2>2, <2>4, ConsumedFollows DEF ParseInv
    <3>3. consumed(parse[f], line) \in ParserState
      BY <3>2 DEF ScanFollows
    <3> DEFINE q == consumed(parse[f], line)
    <3> HIDE DEF q
    <3>4. parse' \in [Files -> ParserState] /\ \A g \in Files : ScanFollows(parse'[g])
      <4>1. parse \in [Files -> ParserState] /\ \A g \in Files : ScanFollows(parse[g])
        BY DEF ParseInv, LoaderTypes
      <4>2. parse' = [parse EXCEPT ![f] = q] /\ ScanFollows(q) /\ q \in ParserState
        BY <3>1, <3>2, <3>3 DEF q
      <4>3. QED
        BY <4>1, <4>2
    <3>5. QED
      BY <2>1, <3>1, <3>4 DEF ParseInv, LoaderTypes, Files
  <2>5. QED
    BY <2>3, <2>4
<1>3. ASSUME NEW f \in Files, EndOfFile(f) PROVE ParseInv'
  <2>1. /\ text' = text /\ pos' = [pos EXCEPT ![f] = @ + 1] /\ text' \in Texts
        /\ pos' \in [Files -> Nat \ {0}] /\ Flush(f, "done")
    BY <1>3 DEF EndOfFile, ParseInv, LoaderTypes
  <2>2. QED
    BY <2>1, FlushKeeps DEF ParseInv, LoaderTypes, Files
<1>4. ASSUME NEW f \in Files, ReadError(f) PROVE ParseInv'
  <2>1. text' = text /\ pos' = pos /\ text' \in Texts
    BY <1>4 DEF ReadError, ParseInv, LoaderTypes
  <2>2. CASE pc' = [pc EXCEPT ![f] = "failed"] /\ UNCHANGED <<parse, emitted>>
    BY <2>1, <2>2 DEF ParseInv, LoaderTypes, Files
  <2>3. CASE Flush(f, "failed")
    BY <2>1, <2>3, FlushKeeps DEF ParseInv, LoaderTypes, Files
  <2>4. QED
    BY <1>4, <2>2, <2>3 DEF ReadError
<1>5. CASE Cancel
  BY <1>5 DEF Cancel, ParseInv, LoaderTypes, Files
<1>6. CASE Finish
  BY <1>6 DEF Finish, ParseInv, LoaderTypes, Files
<1>7. CASE UNCHANGED vars
  BY <1>7 DEF vars, ParseInv, LoaderTypes, Files
<1>8. QED
  BY <1>1, <1>2, <1>3, <1>4, <1>5, <1>6, <1>7 DEF Next

\* The invariant holds throughout a reload.
LEMMA ParseInductive == Spec => []ParseInv
BY ParseInit, ParseStep, PTL DEF Spec

\* Whatever the dumps say, an attribute read back from the raw text of an
\* object is what the parser extracted while it read the lines.
THEOREM ObjectsReadBack == Spec => []ScanAgrees
<1>1. ParseInv => ScanAgrees
  BY DEF ParseInv, ScanAgrees, Readable
<1>2. QED
  BY ParseInductive, <1>1, PTL

-----------------------------------------------------------------------------
(* The blocks of a range. *)

\* An address of a dump is one of its family's.
LEMMA AddressWord ==
  ASSUME NEW w \in Word, w.form = "addr"
  PROVE  w.addr \in Address /\ (w.id = "4" => Holds(V4, w.addr))
<1>1. w # Dash /\ w # Break
  BY DEF Dash, Break, Named
<1>2. QED
  BY <1>1 DEF Word

\* The block size is clamped to the bits of the family, which no block inside
\* a range of the family exceeds.
LEMMA FamilyBits ==
  ASSUME NEW v \in Word, NEW w \in Word, v.form = "addr", w.form = "addr", v.id = w.id
  PROVE  BitLen(v.id) \in 0..W /\ Fits(v.addr, w.addr, BitLen(v.id))
<1>1. v.addr \in Address /\ w.addr \in Address
  BY AddressWord
<1>2. V4 \in Prefix /\ W \in Nat
  BY PrefixesAssumption
<1>3. CASE v.id = "4"
  <2>1. Holds(V4, v.addr) /\ Holds(V4, w.addr)
    BY <1>3, AddressWord
  <2>2. W - V4.len \in 0..W /\ Fits(v.addr, w.addr, W - V4.len)
    BY <1>1, <1>2, <2>1, FamilyFits, PrefixParts
  <2>3. QED
    BY <1>3, <2>2 DEF BitLen
<1>4. CASE v.id # "4"
  <2>1. ASSUME NEW p \in Prefix PROVE W - p.len <= W
    BY <1>2, PrefixParts
  <2>2. QED
    BY <1>2, <1>4, <2>1 DEF BitLen, Fits, Inside
<1>5. QED
  BY <1>3, <1>4

\* Every range of a dump, of any address width, is decomposed into the
\* minimum number of blocks that cover it exactly, in address order.
THEOREM RangesDecompose == Spec => []BlocksAreMinimal
<1>1. ParseInv => BlocksAreMinimal
  <2> SUFFICES ASSUME ParseInv, NEW o \in Indexed, NEW i \in DOMAIN o.pk, NEW k \in DOMAIN o.pk,
                      IsRange(o.pk, i, k), NEW out,
                      out = rangeToCIDRs(o.pk[i].addr, o.pk[k].addr, BitLen(o.pk[i].id))
               PROVE  /\ ToSet(out) = MaximalBlocks(o.pk[i].addr, o.pk[k].addr)
                      /\ Ordered(out)
    BY DEF BlocksAreMinimal, Ordered
  <2>1. o \in Object
    <3>1. PICK f \in Files : o \in ToSet(emitted[f])
      BY DEF Indexed
    <3>2. emitted[f] \in Seq(Object)
      BY DEF ParseInv, LoaderTypes
    <3>3. QED
      BY <3>1, <3>2 DEF ToSet
  <2>2. o.pk \in Seq(Word)
    BY <2>1 DEF Object, Value
  <2> DEFINE v == o.pk[i]
             w == o.pk[k]
  <2>3. v \in Word /\ w \in Word
    BY <2>2
  <2>4. v.form = "addr" /\ w.form = "addr" /\ v.id = w.id
    BY DEF IsRange
  <2> HIDE DEF v, w
  <2>5. v.addr \in Address /\ w.addr \in Address
    BY <2>3, <2>4, AddressWord
  <2>6. BitLen(v.id) \in 0..W /\ Fits(v.addr, w.addr, BitLen(v.id))
    BY <2>3, <2>4, FamilyBits
  <2>7. out = rangeToCIDRs(v.addr, w.addr, BitLen(v.id))
    BY DEF v, w
  <2>8. ToSet(out) = MaximalBlocks(v.addr, w.addr) /\ Ordered(out)
    BY <2>5, <2>6, <2>7, RangeDecomposed
  <2>9. QED
    BY <2>8 DEF v, w
<1>2. QED
  BY ParseInductive, <1>1, PTL

-----------------------------------------------------------------------------
(* Counting the objects of a sequence. *)

\* The number of times that a sequence has an object.
LEMMA CountType ==
  ASSUME NEW S, NEW s \in Seq(S), NEW x
  PROVE  /\ IsFiniteSet({i \in DOMAIN s : s[i] = x}) /\ Count(s, x) \in Nat
         /\ Count(s, x) # 0 <=> x \in ToSet(s)
<1> DEFINE P == {i \in DOMAIN s : s[i] = x}
<1>1. IsFiniteSet(1..Len(s)) /\ DOMAIN s = 1..Len(s)
  BY FS_Interval
<1>2. P \in SUBSET (1..Len(s))
  BY <1>1
<1>3. x \in ToSet(s) <=> P # {}
  BY DEF ToSet
<1>4. Count(s, x) = Cardinality(P)
  BY DEF Count
<1> HIDE DEF P
<1>5. IsFiniteSet(P)
  BY <1>1, <1>2, FS_Subset
<1>6. Cardinality(P) \in Nat /\ (Cardinality(P) = 0 <=> P = {})
  BY <1>5, FS_CardinalityType, FS_EmptySet
<1>7. QED
  BY <1>3, <1>4, <1>5, <1>6 DEF P

\* An empty sequence has none.
LEMMA CountEmpty ==
  ASSUME NEW x PROVE Count(<<>>, x) = 0
<1>1. {i \in DOMAIN <<>> : <<>>[i] = x} = {}
  OBVIOUS
<1>2. QED
  BY <1>1, FS_EmptySet DEF Count

\* Appending an object adds one to its number.
LEMMA CountAppend ==
  ASSUME NEW S, NEW s \in Seq(S), NEW e \in S, NEW x
  PROVE  Count(Append(s, e), x) = Count(s, x) + (IF e = x THEN 1 ELSE 0)
<1> DEFINE P == {i \in DOMAIN s : s[i] = x}
           t == Append(s, e)
           n == Len(s) + 1
           Q == {i \in DOMAIN t : t[i] = x}
<1>1. IsFiniteSet(P) /\ Count(s, x) = Cardinality(P) /\ Cardinality(P) \in Nat
  BY CountType, FS_CardinalityType DEF Count
<1>2. Count(t, x) = Cardinality(Q)
  BY DEF Count
<1>3. DOMAIN s = 1..Len(s) /\ DOMAIN t = 1..n /\ Len(s) \in Nat
  OBVIOUS
<1>4. t[n] = e /\ \A i \in 1..Len(s) : t[i] = s[i]
  OBVIOUS
<1>5. 1..n = 1..Len(s) \cup {n} /\ n \notin 1..Len(s)
  BY <1>3
<1>6. Q = (IF e = x THEN P \cup {n} ELSE P) /\ n \notin P
  <2> HIDE DEF t, n
  <2>1. QED
    BY <1>3, <1>4, <1>5
<1> HIDE DEF P, Q, t, n
<1>7. Cardinality(P \cup {n}) = Cardinality(P) + 1
  BY <1>1, <1>6, FS_AddElement
<1>8. CASE e = x
  BY <1>1, <1>2, <1>6, <1>7, <1>8 DEF t
<1>9. CASE e # x
  BY <1>1, <1>2, <1>6, <1>9 DEF t
<1>10. QED
  BY <1>8, <1>9

\* The number of times that a concatenation has an object.
LEMMA CountConcat ==
  ASSUME NEW S, NEW s \in Seq(S), NEW t \in Seq(S), NEW x
  PROVE  Count(s \o t, x) = Count(s, x) + Count(t, x)
<1> DEFINE n == Len(s)
           m == Len(t)
           u == s \o t
           Pos(k) == {i \in DOMAIN t : t[i] = x /\ i <= k}
           Upto(k) == {i \in DOMAIN u : u[i] = x /\ i <= n + k}
           Bad == {k \in 0..m : Cardinality(Upto(k)) # Count(s, x) + Cardinality(Pos(k))}
<1>1. /\ n \in Nat /\ m \in Nat /\ DOMAIN s = 1..n /\ DOMAIN t = 1..m /\ DOMAIN u = 1..(n + m)
      /\ \A i \in 1..n : u[i] = s[i]
      /\ \A i \in 1..m : u[n + i] = t[i]
  OBVIOUS
<1>2. u \in Seq(S)
  OBVIOUS
<1> HIDE DEF u, n, m
<1>3. IsFiniteSet({i \in DOMAIN t : t[i] = x}) /\ IsFiniteSet({i \in DOMAIN u : u[i] = x})
  BY <1>2, CountType
<1>4. ASSUME NEW k PROVE IsFiniteSet(Pos(k)) /\ IsFiniteSet(Upto(k))
  <2>1. Pos(k) \in SUBSET {i \in DOMAIN t : t[i] = x} /\ Upto(k) \in SUBSET {i \in DOMAIN u : u[i] = x}
    OBVIOUS
  <2> HIDE DEF Pos, Upto
  <2>2. QED
    BY <1>3, <2>1, FS_Subset
<1>5. ASSUME NEW k \in Bad, \A j \in Bad : k <= j PROVE FALSE
  <2>1. CASE k = 0
    <3>1. Pos(0) = {}
      BY <1>1
    <3>2. Upto(0) = {i \in DOMAIN s : s[i] = x}
      BY <1>1
    <3>3. Cardinality(Upto(0)) = Count(s, x) /\ Cardinality(Pos(0)) = 0
      BY <3>1, <3>2, FS_EmptySet DEF Count
    <3>4. Count(s, x) \in Nat
      BY CountType
    <3> HIDE DEF Pos, Upto
    <3>5. QED
      BY <1>5, <2>1, <3>3, <3>4
  <2>2. CASE k # 0
    <3>1. k \in Nat /\ k - 1 \in 0..m /\ ~(k <= k - 1) /\ k \in 1..m
      BY <1>1, <2>2
    <3>2. Cardinality(Upto(k - 1)) = Count(s, x) + Cardinality(Pos(k - 1))
      BY <1>5, <3>1
    <3>3. Pos(k) = (IF t[k] = x THEN Pos(k - 1) \cup {k} ELSE Pos(k - 1)) /\ k \notin Pos(k - 1)
      <4>1. \A i \in 1..m : i <= k <=> i <= k - 1 \/ i = k
        BY <1>1, <3>1
      <4>2. \A i \in 1..m : i = k => ~(i <= k - 1)
        BY <1>1, <3>1
      <4>3. QED
        BY <1>1, <3>1, <4>1, <4>2
    <3>4. Upto(k) = (IF t[k] = x THEN Upto(k - 1) \cup {n + k} ELSE Upto(k - 1)) /\ n + k \notin Upto(k - 1)
      <4>1. \A i \in 1..(n + m) : i <= n + k <=> i <= n + (k - 1) \/ i = n + k
        BY <1>1, <3>1
      <4>2. \A i \in 1..(n + m) : i = n + k => ~(i <= n + (k - 1))
        BY <1>1, <3>1
      <4>3. n + k \in 1..(n + m) /\ u[n + k] = t[k]
        BY <1>1, <3>1
      <4>4. QED
        BY <1>1, <4>1, <4>2, <4>3
    <3>5. Cardinality(Upto(k - 1)) \in Nat /\ Cardinality(Pos(k - 1)) \in Nat /\ Count(s, x) \in Nat
      BY <1>4, FS_CardinalityType, CountType
    <3> DEFINE A == Upto(k - 1)
               B == Pos(k - 1)
    <3>6. IsFiniteSet(A) /\ IsFiniteSet(B)
      BY <1>4
    <3>a. Cardinality(Upto(k)) # Count(s, x) + Cardinality(Pos(k))
      BY <1>5
    <3> HIDE DEF Pos, Upto
    <3>7. CASE t[k] = x
      <4>1. Cardinality(A \cup {n + k}) = Cardinality(A) + 1 /\ Cardinality(B \cup {k}) = Cardinality(B) + 1
        BY <3>3, <3>4, <3>6, FS_AddElement
      <4>2. QED
        <5>1. Upto(k) = A \cup {n + k} /\ Pos(k) = B \cup {k}
          BY <3>3, <3>4, <3>7
        <5>2. Cardinality(A) = Count(s, x) + Cardinality(B)
          BY <3>2
        <5>3. Cardinality(A) \in Nat /\ Cardinality(B) \in Nat /\ Count(s, x) \in Nat
          BY <3>5
        <5>4. Cardinality(A) + 1 = Count(s, x) + (Cardinality(B) + 1)
          <6> HIDE DEF A, B
          <6>1. QED
            BY <5>2, <5>3
        <5>5. QED
          BY <3>a, <4>1, <5>1, <5>4
    <3>8. CASE t[k] # x
      BY <3>a, <3>2, <3>3, <3>4, <3>8
    <3>9. QED
      BY <3>7, <3>8
  <2>3. QED
    BY <2>1, <2>2
<1>6. Bad = {}
  <2>1. Bad \in SUBSET Nat
    BY <1>1
  <2> HIDE DEF Bad
  <2>2. QED
    BY <1>5, <2>1, LeastNat
<1>7. m \in 0..m
  BY <1>1
<1>8. Cardinality(Upto(m)) = Count(s, x) + Cardinality(Pos(m))
  <2> HIDE DEF Upto, Pos
  <2>1. QED
    BY <1>6, <1>7
<1>9. Upto(m) = {i \in DOMAIN u : u[i] = x} /\ Pos(m) = {i \in DOMAIN t : t[i] = x}
  BY <1>1
<1>10. Cardinality({i \in DOMAIN u : u[i] = x}) = Count(s, x) + Cardinality({i \in DOMAIN t : t[i] = x})
  <2> HIDE DEF Upto, Pos
  <2>1. QED
    BY <1>8, <1>9
<1>11. QED
  BY <1>10 DEF Count, u

-----------------------------------------------------------------------------
(* Sequences of sequences, one after the other. *)

Flattens(seqs, g) == g = [i \in 1..Len(seqs) |-> IF i = 1 THEN seqs[i] ELSE g[i - 1] \o seqs[i]]
Flat(seqs) == CHOOSE g : Flattens(seqs, g)

\* FlattenSeq is this recursion, which is well founded.
LEMMA FlattenIs ==
  ASSUME NEW seqs, Len(seqs) \in Nat
  PROVE  /\ FlattenSeq(seqs) = IF Len(seqs) = 0 THEN seqs ELSE Flat(seqs)[Len(seqs)]
         /\ Flattens(seqs, Flat(seqs))
<1> DEFINE N == Len(seqs)
           Step(i, g) == IF i = 1 THEN seqs[i] ELSE g[i - 1] \o seqs[i]
           Part(n, g) == g = [i \in 1..n |-> Step(i, g)]
           Bad == {n \in Nat : ~\E g : Part(n, g)}
<1>0. N \in Nat
  OBVIOUS
<1>1. FlattenSeq(seqs) = IF N = 0 THEN seqs ELSE Flat(seqs)[N]
  BY DEF FlattenSeq, Flat, Flattens
<1>2. ASSUME NEW m \in Bad, \A n \in Bad : m <= n PROVE FALSE
  <2>1. CASE m = 0
    <3> DEFINE h == [i \in 1..0 |-> <<>>]
    <3>1. Part(0, h)
      OBVIOUS
    <3>2. QED
      BY <1>2, <2>1, <3>1
  <2>2. CASE m # 0
    <3>1. m - 1 \in Nat /\ m \in Nat /\ ~(m <= m - 1)
      BY <2>2
    <3>2. PICK g : Part(m - 1, g)
      BY <1>2, <3>1
    <3> DEFINE h == [i \in 1..m |-> Step(i, g)]
    <3>3. \A i \in 1..(m - 1) : h[i] = g[i]
      <4>1. \A i \in 1..(m - 1) : i \in 1..m
        BY <3>1
      <4> HIDE DEF Step
      <4>2. QED
        BY <3>2, <4>1
    <3>4. \A i \in 1..m : i # 1 => i - 1 \in 1..(m - 1)
      BY <3>1
    <3>a. \A i \in 1..m : Step(i, g) = Step(i, h)
      <4> HIDE DEF h
      <4>1. QED
        BY <3>3, <3>4
    <3> HIDE DEF Step
    <3>5. Part(m, h)
      BY <3>a
    <3>6. QED
      BY <1>2, <3>5
  <2>3. QED
    BY <2>1, <2>2
<1>3. Bad = {}
  <2>1. Bad \in SUBSET Nat
    OBVIOUS
  <2> HIDE DEF Bad
  <2>2. QED
    BY <1>2, <2>1, LeastNat
<1>4. PICK g : Part(N, g)
  BY <1>0, <1>3
<1>5. Flattens(seqs, g)
  BY <1>4 DEF Flattens
<1>6. QED
  BY <1>1, <1>5 DEF Flat

\* The elements of a concatenation, counted one sequence after the other.
LEMMA FlattenCount ==
  ASSUME NEW S, NEW seqs \in Seq(Seq(S)), NEW x, NEW c, c[0] = 0,
         \A i \in 1..Len(seqs) : c[i] = c[i - 1] + Count(seqs[i], x)
  PROVE  FlattenSeq(seqs) \in Seq(S) /\ Count(FlattenSeq(seqs), x) = c[Len(seqs)]
<1> DEFINE N == Len(seqs)
           g == Flat(seqs)
           Bad == {i \in 1..N : ~(g[i] \in Seq(S) /\ Count(g[i], x) = c[i])}
<1>1. N \in Nat /\ \A i \in 1..N : seqs[i] \in Seq(S)
  OBVIOUS
<1>2. FlattenSeq(seqs) = (IF N = 0 THEN seqs ELSE g[N]) /\ Flattens(seqs, g)
  BY <1>1, FlattenIs
<1>3. \A i \in 1..N : c[i] = c[i - 1] + Count(seqs[i], x)
  OBVIOUS
<1>4. \A i \in 1..N : g[i] = IF i = 1 THEN seqs[i] ELSE g[i - 1] \o seqs[i]
  <2> HIDE DEF g
  <2>1. QED
    BY <1>2 DEF Flattens
<1> HIDE DEF g, N
<1>5. ASSUME NEW m \in Bad, \A i \in Bad : m <= i PROVE FALSE
  <2>1. m \in 1..N /\ seqs[m] \in Seq(S) /\ m \in Nat
    BY <1>1
  <2>2. CASE m = 1
    <3>1. g[m] = seqs[m] /\ c[m] = 0 + Count(seqs[m], x)
      BY <1>3, <1>4, <2>1, <2>2
    <3>2. Count(seqs[m], x) \in Nat
      BY <2>1, CountType
    <3>3. QED
      BY <1>5, <2>1, <3>1, <3>2
  <2>3. CASE m # 1
    <3>1. m - 1 \in 1..N /\ ~(m <= m - 1)
      BY <1>1, <2>1, <2>3
    <3>2. g[m - 1] \in Seq(S) /\ Count(g[m - 1], x) = c[m - 1]
      BY <1>5, <3>1
    <3>3. g[m] = g[m - 1] \o seqs[m] /\ c[m] = c[m - 1] + Count(seqs[m], x)
      BY <1>3, <1>4, <2>1, <2>3
    <3>4. Count(g[m - 1] \o seqs[m], x) = Count(g[m - 1], x) + Count(seqs[m], x)
      BY <2>1, <3>2, CountConcat
    <3>5. g[m - 1] \o seqs[m] \in Seq(S)
      BY <2>1, <3>2
    <3>6. QED
      BY <1>5, <3>2, <3>3, <3>4, <3>5
  <2>4. QED
    BY <2>2, <2>3
<1>6. Bad = {}
  <2>1. Bad \in SUBSET Nat
    BY <1>1
  <2> HIDE DEF Bad
  <2>2. QED
    BY <1>5, <2>1, LeastNat
<1>7. CASE N = 0
  <2>1. seqs = <<>>
    BY <1>7 DEF N
  <2>2. FlattenSeq(seqs) = <<>>
    BY <1>2, <1>7, <2>1
  <2>3. QED
    BY <1>7, <2>2, CountEmpty DEF N
<1>8. CASE N # 0
  <2>1. N \in 1..N
    BY <1>1, <1>8
  <2>2. QED
    BY <1>2, <1>6, <1>8, <2>1 DEF N
<1>9. QED
  BY <1>7, <1>8

\* When only one of the sequences has an object.
LEMMA FlattenOne ==
  ASSUME NEW S, NEW seqs \in Seq(Seq(S)), NEW x, NEW k \in 1..Len(seqs),
         \A i \in 1..Len(seqs) : i # k => Count(seqs[i], x) = 0
  PROVE  Count(FlattenSeq(seqs), x) = Count(seqs[k], x)
<1> DEFINE N == Len(seqs)
           n == Count(seqs[k], x)
           c == [i \in 0..N |-> IF i < k THEN 0 ELSE n]
<1>1. N \in Nat /\ seqs[k] \in Seq(S) /\ k \in 1..N
  OBVIOUS
<1>2. n \in Nat
  BY <1>1, CountType
<1>3. c[0] = 0 /\ c[N] = n
  BY <1>1
<1>4. ASSUME NEW i \in 1..N PROVE c[i] = c[i - 1] + Count(seqs[i], x)
  <2>1. i \in 0..N /\ i - 1 \in 0..N
    BY <1>1
  <2>2. c[i] = (IF i < k THEN 0 ELSE n) /\ c[i - 1] = (IF i - 1 < k THEN 0 ELSE n)
    BY <2>1
  <2>3. Count(seqs[i], x) = IF i = k THEN n ELSE 0
    OBVIOUS
  <2> HIDE DEF c, n
  <2>4. QED
    BY <1>1, <1>2, <2>1, <2>2, <2>3
<1> HIDE DEF c, n
<1>5. QED
  BY <1>3, <1>4, FlattenCount DEF n

\* When none has it.
LEMMA FlattenNone ==
  ASSUME NEW S, NEW seqs \in Seq(Seq(S)), NEW x,
         \A i \in 1..Len(seqs) : Count(seqs[i], x) = 0
  PROVE  Count(FlattenSeq(seqs), x) = 0
<1> DEFINE N == Len(seqs)
           c == [i \in 0..N |-> 0]
<1>1. N \in Nat
  OBVIOUS
<1>2. c[0] = 0 /\ c[N] = 0 /\ \A i \in 1..N : c[i] = c[i - 1] + Count(seqs[i], x)
  BY <1>1
<1> HIDE DEF c
<1>3. QED
  BY <1>2, FlattenCount

\* The types of the parts of a concatenation.
LEMMA FlattenParts ==
  ASSUME NEW S, NEW seqs \in Seq(Seq(S))
  PROVE  \A i \in 1..Len(seqs) : Flat(seqs)[i] \in Seq(S)
<1> DEFINE N == Len(seqs)
           g == Flat(seqs)
           Bad == {i \in 1..N : g[i] \notin Seq(S)}
<1>1. N \in Nat /\ \A i \in 1..N : seqs[i] \in Seq(S)
  OBVIOUS
<1>2. FlattenSeq(seqs) = (IF N = 0 THEN seqs ELSE g[N]) /\ Flattens(seqs, g)
  BY <1>1, FlattenIs
<1>4. \A i \in 1..N : g[i] = IF i = 1 THEN seqs[i] ELSE g[i - 1] \o seqs[i]
  <2> HIDE DEF g
  <2>1. QED
    BY <1>2 DEF Flattens
<1> HIDE DEF g, N
<1>5. ASSUME NEW m \in Bad, \A i \in Bad : m <= i PROVE FALSE
  <2>1. m \in 1..N /\ seqs[m] \in Seq(S) /\ m \in Nat
    BY <1>1
  <2>2. CASE m = 1
    BY <1>4, <1>5, <2>1, <2>2
  <2>3. CASE m # 1
    <3>1. m - 1 \in 1..N /\ ~(m <= m - 1)
      BY <1>1, <2>1, <2>3
    <3>2. g[m - 1] \in Seq(S)
      BY <1>5, <3>1
    <3>3. g[m] = g[m - 1] \o seqs[m]
      BY <1>4, <2>1, <2>3
    <3>4. g[m - 1] \o seqs[m] \in Seq(S)
      BY <2>1, <3>2
    <3>5. QED
      BY <1>5, <3>3, <3>4
  <2>4. QED
    BY <2>2, <2>3
<1>6. Bad = {}
  <2>1. Bad \in SUBSET Nat
    BY <1>1
  <2> HIDE DEF Bad
  <2>2. QED
    BY <1>5, <2>1, LeastNat
<1>7. QED
  BY <1>6 DEF g, N

\* The type of a concatenation.
LEMMA FlattenType ==
  ASSUME NEW S, NEW seqs \in Seq(Seq(S))
  PROVE  FlattenSeq(seqs) \in Seq(S)
<1> DEFINE N == Len(seqs)
           g == Flat(seqs)
<1>1. N \in Nat
  OBVIOUS
<1>2. FlattenSeq(seqs) = IF N = 0 THEN seqs ELSE g[N]
  BY <1>1, FlattenIs
<1>3. \A i \in 1..N : g[i] \in Seq(S)
  BY FlattenParts
<1> HIDE DEF g, N
<1>4. CASE N = 0
  <2>1. seqs = <<>>
    BY <1>4 DEF N
  <2>2. QED
    BY <1>2, <1>4, <2>1, EmptySeq
<1>5. CASE N # 0
  <2>1. N \in 1..N
    BY <1>1, <1>5
  <2>2. QED
    BY <1>2, <1>3, <1>5, <2>1
<1>6. QED
  BY <1>4, <1>5

-----------------------------------------------------------------------------
(* The objects of the dumps. *)

\* Where the emitted objects have an object.
Places(em, x) == {e \in UNION {{f} \X DOMAIN em[f] : f \in DOMAIN em} : em[e[1]][e[2]] = x}

\* File f has emitted one more object.
OneMore(F, em, f, o, em2) ==
  em \in [F -> Seq(Object)] /\ f \in F /\ o \in Object /\ em2 = [em EXCEPT ![f] = em[f] \o <<o>>]

\* One more place if it is that object.
LEMMA OneMorePlace ==
  ASSUME NEW F, NEW em, NEW f, NEW o, NEW em2, OneMore(F, em, f, o, em2), NEW x, IsFiniteSet(Places(em, x))
  PROVE  /\ IsFiniteSet(Places(em2, x))
         /\ Cardinality(Places(em2, x)) = Cardinality(Places(em, x)) + (IF o = x THEN 1 ELSE 0)
<1> DEFINE n == Len(em[f]) + 1
           P == Places(em, x)
           s == em[f] \o <<o>>
<1>0. f \in F
  BY DEF OneMore
<1>1. DOMAIN em = F /\ DOMAIN em2 = F /\ em2[f] = s /\ \A g \in F : g # f => em2[g] = em[g]
  BY DEF OneMore
<1>2. em[f] \in Seq(Object)
  BY DEF OneMore
<1>3. /\ DOMAIN em[f] = 1..Len(em[f]) /\ DOMAIN s = 1..n /\ Len(em[f]) \in Nat /\ n \in Nat
      /\ s[n] = o /\ \A i \in 1..Len(em[f]) : s[i] = em[f][i]
  BY <1>2
<1>4. DOMAIN s = DOMAIN em[f] \cup {n} /\ n \notin DOMAIN em[f]
  BY <1>3
<1> HIDE DEF s, n
<1>5. ASSUME NEW g, NEW k
      PROVE  /\ <<g, k>> \in Places(em, x) <=> g \in F /\ k \in DOMAIN em[g] /\ em[g][k] = x
             /\ <<g, k>> \in Places(em2, x) <=> g \in F /\ k \in DOMAIN em2[g] /\ em2[g][k] = x
  BY <1>1 DEF Places
<1>6. ASSUME NEW e PROVE e \in Places(em, x) \/ e \in Places(em2, x) \/ e = <<f, n>> => e = <<e[1], e[2]>>
  BY DEF Places
<1>7. <<f, n>> \notin P
  BY <1>4, <1>5
<1>8. ASSUME NEW g, NEW k
      PROVE  <<g, k>> \in Places(em2, x) <=> <<g, k>> \in P \/ (<<g, k>> = <<f, n>> /\ o = x)
  <2>1. CASE g = f
    <3>1. <<g, k>> \in Places(em2, x) <=> k \in DOMAIN s /\ s[k] = x
      BY <1>0, <1>1, <1>5, <2>1
    <3>2. <<g, k>> \in P <=> k \in DOMAIN em[f] /\ em[f][k] = x
      BY <1>0, <1>5, <2>1
    <3>3. k \in DOMAIN s /\ s[k] = x <=> (k \in DOMAIN em[f] /\ em[f][k] = x) \/ (k = n /\ o = x)
      BY <1>3, <1>4
    <3>4. <<g, k>> = <<f, n>> <=> k = n
      BY <2>1
    <3> HIDE DEF P
    <3>5. QED
      BY <3>1, <3>2, <3>3, <3>4
  <2>2. CASE g # f
    BY <1>1, <1>5, <2>2
  <2>3. QED
    BY <2>1, <2>2
<1>9. ASSUME NEW e PROVE e \in Places(em2, x) <=> e \in P \/ (e = <<f, n>> /\ o = x)
  <2>1. CASE e = <<e[1], e[2]>>
    BY <1>8, <2>1
  <2>2. CASE e # <<e[1], e[2]>>
    BY <1>6, <2>2
  <2>3. QED
    BY <2>1, <2>2
<1>10. Places(em2, x) = IF o = x THEN P \cup {<<f, n>>} ELSE P
  BY <1>9
<1> DEFINE z == <<f, n>>
<1> HIDE DEF P, z
<1>11. IsFiniteSet(P) /\ Cardinality(P) \in Nat
  BY FS_CardinalityType DEF P
<1>12. IsFiniteSet(P \cup {z}) /\ Cardinality(P \cup {z}) = Cardinality(P) + 1
  BY <1>7, <1>11, FS_AddElement DEF z
<1>13. QED
  BY <1>10, <1>11, <1>12 DEF P, z

-----------------------------------------------------------------------------
(* The trie. *)

\* The prefix of a length around an address.
LEMMA MaskedHolds ==
  ASSUME NEW a \in Address, NEW d \in 0..W
  PROVE  Masked(a, d) \in Prefix /\ Masked(a, d).len = d /\ Holds(Masked(a, d), a)
<1> DEFINE c == Pow2[W - d]
           p == Masked(a, d)
<1>1. p \in Prefix /\ p.len = d /\ p.addr = a - (a % c)
  BY DEF Masked, Prefix
<1>2. W - d \in 0..W /\ Pow2[W] \in Nat
  BY Pow2Steps, Pow2Positive
<1>3. c \in Nat /\ c >= 1 /\ a \in Nat
  BY <1>2, Pow2Positive DEF Address
<1>4. FirstAddr(p) = a - (a % c) /\ LastAddr(p) = (a - (a % c)) + c - 1
  BY <1>1 DEF FirstAddr, LastAddr
<1> HIDE DEF c, p
<1>5. a % c \in 0..(c - 1)
  BY <1>3
<1>6. Holds(p, a)
  BY <1>3, <1>4, <1>5 DEF Holds
<1>7. QED
  BY <1>1, <1>6 DEF p

\* It is the only one.
LEMMA HolderIsMasked ==
  ASSUME NEW q \in Prefix, NEW a \in Address, Holds(q, a)
  PROVE  q = Masked(a, q.len)
<1> DEFINE p == Masked(a, q.len)
<1>1. q.len \in 0..W /\ a \in Nat
  BY PrefixParts, Pow2Steps, Pow2Positive DEF Address
<1>2. p \in Prefix /\ p.len = q.len /\ Holds(p, a)
  BY <1>1, MaskedHolds
<1> HIDE DEF p
<1>3. q.len <= p.len /\ p.len <= q.len
  BY <1>1, <1>2
<1>4. FirstAddr(q) <= FirstAddr(p) /\ FirstAddr(p) <= FirstAddr(q)
  BY <1>1, <1>2, <1>3, PrefixesNest
<1>5. p.addr = q.addr
  BY <1>2, <1>4, PrefixEnds
<1>6. p = [addr |-> p.addr, len |-> p.len] /\ q = [addr |-> q.addr, len |-> q.len]
  BY <1>2, PrefixParts
<1>7. QED
  BY <1>2, <1>5, <1>6 DEF p

\* The prefixes around an address are nested.
LEMMA MaskedTwice ==
  ASSUME NEW a \in Address, NEW d \in 0..W, NEW e \in 0..d
  PROVE  Masked(Masked(a, d).addr, e) = Masked(a, e)
<1> DEFINE p == Masked(a, d)
           q == Masked(a, e)
<1>1. e \in 0..W /\ a \in Nat /\ e <= d
  BY Pow2Steps, Pow2Positive DEF Address
<1>2. p \in Prefix /\ p.len = d /\ Holds(p, a) /\ q \in Prefix /\ q.len = e /\ Holds(q, a)
  BY <1>1, MaskedHolds
<1> HIDE DEF p, q
<1>3. FirstAddr(q) <= FirstAddr(p) /\ LastAddr(p) <= LastAddr(q)
  BY <1>1, <1>2, PrefixesNest
<1>4. p.addr \in Address /\ FirstAddr(p) = p.addr /\ FirstAddr(p) <= LastAddr(p)
  BY <1>2, PrefixParts, PrefixEnds
<1>5. Holds(q, p.addr)
  <2>1. FirstAddr(p) \in Nat /\ LastAddr(p) \in Nat /\ FirstAddr(q) \in Nat /\ LastAddr(q) \in Nat
    BY <1>2, PrefixEnds
  <2>2. QED
    BY <1>3, <1>4, <2>1 DEF Holds
<1>6. q = Masked(p.addr, q.len)
  BY <1>2, <1>4, <1>5, HolderIsMasked
<1>7. QED
  BY <1>2, <1>6 DEF p, q

\* A prefix is masked already.
LEMMA PrefixIsMasked ==
  ASSUME NEW p \in Prefix PROVE p = Masked(p.addr, p.len)
<1>1. p.addr \in Address /\ Holds(p, p.addr)
  BY PrefixParts, PrefixEnds DEF Holds
<1>2. QED
  BY <1>1, HolderIsMasked

\* The nodes on the way to a prefix.
LEMMA PathClosed ==
  ASSUME NEW p \in Prefix
  PROVE  /\ p \in Path(p) /\ Path(p) \subseteq Prefix /\ Root \in Path(p)
         /\ \A r \in Path(p) : Path(r) \subseteq Path(p)
<1>1. p.addr \in Address /\ p.len \in 0..W /\ W \in Nat
  BY PrefixParts, Pow2Steps
<1>2. ASSUME NEW d \in 0..p.len PROVE d \in 0..W
  BY <1>1
<1>3. p \in Path(p)
  <2>1. p.len \in 0..p.len
    BY <1>1
  <2>2. QED
    BY <2>1, PrefixIsMasked DEF Path
<1>4. Path(p) \subseteq Prefix
  BY <1>1, <1>2, MaskedHolds DEF Path
<1>5. ASSUME NEW r \in Path(p) PROVE Path(r) \subseteq Path(p)
  <2>1. PICK d \in 0..p.len : r = Masked(p.addr, d)
    BY DEF Path
  <2>2. d \in 0..W /\ r.len = d
    BY <1>1, <1>2, <2>1, MaskedHolds
  <2>3. ASSUME NEW e \in 0..d PROVE Masked(r.addr, e) = Masked(p.addr, e) /\ e \in 0..p.len
    BY <1>1, <2>1, <2>2, MaskedTwice
  <2>4. QED
    BY <2>2, <2>3 DEF Path
<1>6. Root \in Path(p)
  <2>1. 0 \in 0..p.len /\ 0 \in 0..W /\ 0 \in Address
    BY <1>1, Pow2Steps, Pow2Positive DEF Address
  <2> DEFINE q == Masked(p.addr, 0)
             r == Masked(0, 0)
  <2>2. q \in Prefix /\ r \in Prefix /\ q.len = 0 /\ r.len = 0 /\ Holds(q, p.addr) /\ Holds(r, 0)
    BY <1>1, <2>1, MaskedHolds
  <2>3. q.addr = 0 /\ r.addr = 0
    <3>1. W - 0 = W /\ W \in 0..W
      BY <1>1
    <3>2. q.addr = p.addr - (p.addr % Pow2[W]) /\ r.addr = 0 - (0 % Pow2[W])
      BY <3>1 DEF Masked
    <3>3. Pow2[W] \in Nat /\ Pow2[W] >= 1 /\ p.addr \in 0..(Pow2[W] - 1)
      BY <1>1, <3>1, Pow2Positive DEF Address
    <3>4. \A m \in Nat : \A x \in 0..(m - 1) : x % m = x
      OBVIOUS
    <3>5. p.addr % Pow2[W] = p.addr /\ 0 % Pow2[W] = 0
      BY <3>3, <3>4
    <3>6. p.addr \in Nat /\ p.addr - p.addr = 0 /\ 0 - 0 = 0
      BY <3>3
    <3> HIDE DEF q, r
    <3>7. QED
      BY <3>2, <3>5, <3>6
  <2> HIDE DEF q, r
  <2>4. q = r
    <3>1. q = [addr |-> q.addr, len |-> q.len] /\ r = [addr |-> r.addr, len |-> r.len]
      BY <2>2, PrefixParts
    <3>2. QED
      BY <2>2, <2>3, <3>1
  <2>5. QED
    BY <2>1, <2>4 DEF Root, Path, q, r
<1>7. QED
  BY <1>3, <1>4, <1>5, <1>6

Trie(t) ==
  /\ DOMAIN t \subseteq Prefix /\ Root \in DOMAIN t
  /\ \A p \in DOMAIN t : Path(p) \subseteq DOMAIN t
  /\ \A p \in DOMAIN t : t[p] \in Seq(Object)

\* What a node has.
LEMMA NodeTyped ==
  ASSUME NEW t, Trie(t), NEW q PROVE ObjsAt(t, q) \in Seq(Object)
BY EmptySeq DEF Trie, ObjsAt

\* insert adds one object to one node.
LEMMA InsertTrie ==
  ASSUME NEW t, Trie(t), NEW p, NEW at \in Prefix, at = Masked(p.addr, p.len), NEW o \in Object,
         NEW u, u = insert(t, p, o)
  PROVE  /\ Trie(u)
         /\ \A q : \A x : Count(ObjsAt(u, q), x) = Count(ObjsAt(t, q), x) + (IF q = at /\ x = o THEN 1 ELSE 0)
<1>1. u = [q \in DOMAIN t \cup Path(at) |-> IF q = at THEN Append(ObjsAt(t, q), o) ELSE ObjsAt(t, q)]
  BY DEF insert
<1>2. at \in Path(at) /\ Path(at) \subseteq Prefix /\ \A r \in Path(at) : Path(r) \subseteq Path(at)
  BY PathClosed
<1>3. DOMAIN u = DOMAIN t \cup Path(at) /\ at \in DOMAIN u
  BY <1>1, <1>2
<1>4. \A q \in DOMAIN u : u[q] = IF q = at THEN Append(ObjsAt(t, q), o) ELSE ObjsAt(t, q)
  BY <1>1
<1>5. ASSUME NEW q PROVE ObjsAt(u, q) = IF q = at THEN Append(ObjsAt(t, q), o) ELSE ObjsAt(t, q)
  <2>1. CASE q \in DOMAIN u
    BY <1>4, <2>1 DEF ObjsAt
  <2>2. CASE q \notin DOMAIN u
    BY <1>3, <2>2 DEF ObjsAt
  <2>3. QED
    BY <2>1, <2>2
<1>6. \A q : ObjsAt(t, q) \in Seq(Object)
  BY NodeTyped
<1>7. \A q : Append(ObjsAt(t, q), o) \in Seq(Object)
  BY <1>6, AppendTyped
<1>8. Trie(u)
  BY <1>2, <1>3, <1>4, <1>6, <1>7 DEF Trie
<1>9. ASSUME NEW q, NEW x
      PROVE  Count(ObjsAt(u, q), x) = Count(ObjsAt(t, q), x) + (IF q = at /\ x = o THEN 1 ELSE 0)
  <2>1. Count(ObjsAt(t, q), x) \in Nat
    BY <1>6, CountType
  <2>2. Count(Append(ObjsAt(t, q), o), x) = Count(ObjsAt(t, q), x) + (IF o = x THEN 1 ELSE 0)
    BY <1>6, CountAppend
  <2>3. CASE q = at
    BY <1>5, <2>1, <2>2, <2>3
  <2>4. CASE q # at
    BY <1>5, <2>1, <2>4
  <2>5. QED
    BY <2>3, <2>4
<1>10. QED
  BY <1>8, <1>9

\* seqs has the objects of the nodes around an address, from the root down to
\* the last one there is, and lookup returns them.
Walk(t, a, seqs) ==
  /\ seqs \in Seq(Seq(Object)) /\ Len(seqs) \in 1..(W + 1) /\ lookup(t, a) = FlattenSeq(seqs)
  /\ \A d \in 1..Len(seqs) : seqs[d] = ObjsAt(t, Masked(a, d - 1))
  /\ \A d \in 0..W : d >= Len(seqs) => ObjsAt(t, Masked(a, d)) = <<>>

\* lookup collects the objects on the way down.
LEMMA LookupWalks ==
  ASSUME NEW t, Trie(t), NEW a \in Address PROVE \E seqs : Walk(t, a, seqs)
<1> DEFINE V == Visited(DOMAIN t, a)
           M == Max(V)
           N == M + 1
           seqs == [d \in 1..N |-> t[Masked(a, d - 1)]]
<1>1. W \in Nat
  BY Pow2Steps
<1>2. 0 \in V
  <2>1. Masked(a, 0) = Root
    <3>1. Masked(a, 0) \in Prefix /\ Masked(a, 0).len = 0
      BY <1>1, MaskedHolds
    <3>2. Root \in Path(Masked(a, 0))
      BY <3>1, PathClosed
    <3>3. PICK d \in 0..0 : Root = Masked(Masked(a, 0).addr, d)
      BY <3>1, <3>2 DEF Path
    <3>4. Root = Masked(Masked(a, 0).addr, 0)
      BY <3>3
    <3>5. QED
      BY <1>1, <3>4, MaskedTwice
  <2>2. 0 \in 0..W /\ \A e \in 0..0 : Masked(a, e) = Root
    BY <1>1, <2>1
  <2>3. QED
    BY <2>2 DEF Visited, Trie
<1>3. UpTo(V, W) /\ V # {}
  BY <1>1, <1>2 DEF UpTo, Visited
<1>4. M \in V /\ M \in Nat /\ \A d \in V : M >= d
  BY <1>3, MaxOfInterval
<1>5. ASSUME NEW d \in 0..W, Masked(a, d) \in DOMAIN t PROVE d \in V
  <2>1. ASSUME NEW e \in 0..d PROVE Masked(a, e) \in DOMAIN t
    <3>1. Masked(a, d).len = d
      BY MaskedHolds
    <3>2. Masked(Masked(a, d).addr, e) \in Path(Masked(a, d))
      BY <3>1 DEF Path
    <3>3. QED
      BY <1>5, <3>2, MaskedTwice DEF Trie
  <2>2. QED
    BY <2>1 DEF Visited
<1>6. \A d \in 0..W : Masked(a, d) \in DOMAIN t <=> d \in 0..M
  <2>1. \A d \in 0..M : Masked(a, d) \in DOMAIN t
    BY <1>4 DEF Visited
  <2> HIDE DEF V, M
  <2>2. QED
    BY <1>1, <1>4, <1>5, <2>1
<1>7. M \in 0..W
  BY <1>4 DEF Visited
<1>8. lookup(t, a) = FlattenSeq(seqs)
  BY DEF lookup
<1> HIDE DEF V, M
<1>9. \A d \in 1..N : d - 1 \in 0..M /\ d - 1 \in 0..W
  BY <1>1, <1>4, <1>7
<1>10. \A d \in 1..N : t[Masked(a, d - 1)] \in Seq(Object)
  BY <1>6, <1>9 DEF Trie
<1>11. N \in Nat
  BY <1>4
<1>12. seqs \in Seq(Seq(Object)) /\ Len(seqs) = N
  BY <1>10, <1>11
<1>13. \A d \in 1..N : seqs[d] = ObjsAt(t, Masked(a, d - 1))
  BY <1>6, <1>9 DEF ObjsAt
<1>14. \A d \in 0..W : d >= N => ObjsAt(t, Masked(a, d)) = <<>>
  <2>1. \A d \in 0..W : d >= N => d \notin 0..M
    BY <1>1, <1>4
  <2>2. QED
    BY <1>6, <2>1 DEF ObjsAt
<1>15. N \in 1..(W + 1)
  BY <1>1, <1>4, <1>7
<1> HIDE DEF seqs
<1>16. Walk(t, a, seqs)
  BY <1>8, <1>12, <1>13, <1>14, <1>15 DEF Walk
<1>17. QED
  BY <1>16

\* An object that is at one of the nodes only is found as often as it is
\* there.
LEMMA LookupTrie ==
  ASSUME NEW t, Trie(t), NEW a \in Address
  PROVE  /\ lookup(t, a) \in Seq(Object)
         /\ \A x : \A e \in 0..W :
              (\A d \in 0..W : d # e => Count(ObjsAt(t, Masked(a, d)), x) = 0)
                => Count(lookup(t, a), x) = Count(ObjsAt(t, Masked(a, e)), x)
<1>1. W \in Nat
  BY Pow2Steps
<1>2. PICK seqs : Walk(t, a, seqs)
  BY LookupWalks
<1> DEFINE N == Len(seqs)
<1>3. seqs \in Seq(Seq(Object)) /\ N \in 1..(W + 1) /\ lookup(t, a) = FlattenSeq(seqs) /\ N \in Nat
  BY <1>1, <1>2 DEF Walk
<1>4. \A d \in 1..N : seqs[d] = ObjsAt(t, Masked(a, d - 1))
  BY <1>2 DEF Walk
<1>5. \A d \in 0..W : d >= N => ObjsAt(t, Masked(a, d)) = <<>>
  BY <1>2 DEF Walk
<1>6. ASSUME NEW x, NEW e \in 0..W, \A d \in 0..W : d # e => Count(ObjsAt(t, Masked(a, d)), x) = 0
      PROVE  Count(FlattenSeq(seqs), x) = Count(ObjsAt(t, Masked(a, e)), x)
  <2>1. ASSUME NEW i \in 1..N, i # e + 1 PROVE Count(seqs[i], x) = 0
    <3>1. i - 1 \in 0..W /\ i - 1 # e
      BY <1>1, <1>3, <2>1
    <3>2. QED
      BY <1>4, <1>6, <3>1
  <2>2. CASE e < N
    <3>1. e + 1 \in 1..N /\ (e + 1) - 1 = e
      BY <1>3, <2>2
    <3>2. seqs[e + 1] = ObjsAt(t, Masked(a, e))
      BY <1>4, <3>1
    <3>3. Count(FlattenSeq(seqs), x) = Count(seqs[e + 1], x)
      BY <1>3, <2>1, <3>1, FlattenOne
    <3>4. QED
      BY <3>2, <3>3
  <2>3. CASE e >= N
    <3>1. ObjsAt(t, Masked(a, e)) = <<>>
      BY <1>5, <2>3
    <3>2. \A i \in 1..N : Count(seqs[i], x) = 0
      <4>1. \A i \in 1..N : i # e + 1
        BY <1>3, <2>3
      <4>2. QED
        BY <2>1, <4>1
    <3>3. Count(FlattenSeq(seqs), x) = 0
      BY <1>3, <3>2, FlattenNone
    <3>4. QED
      BY <3>1, <3>3, CountEmpty
  <2>4. QED
    BY <1>3, <2>2, <2>3
<1>7. FlattenSeq(seqs) \in Seq(Object)
  BY <1>3, FlattenType
<1>8. QED
  BY <1>3, <1>6, <1>7

-----------------------------------------------------------------------------
(* Keys that are ranges or prefixes. *)

\* Min is the least element.
LEMMA MinOfNat ==
  ASSUME NEW T \in SUBSET Nat, T # {}
  PROVE  Min(T) \in T /\ Min(T) \in Nat /\ \A y \in T : Min(T) <= y
BY LeastNat DEF Min

\* A value has at most one range.
LEMMA OneRange ==
  ASSUME NEW v \in Seq(Word), NEW i \in DOMAIN v, NEW k \in DOMAIN v, IsRange(v, i, k),
         NEW m \in DOMAIN v, NEW n \in DOMAIN v, IsRange(v, m, n)
  PROVE  m = i /\ n = k
<1>1. PICK j \in (i + 1)..(k - 1) : Solid(v) = {i, j, k}
  BY DEF IsRange
<1>2. PICK l \in (m + 1)..(n - 1) : Solid(v) = {m, l, n}
  BY DEF IsRange
<1>3. DOMAIN v = 1..Len(v) /\ Len(v) \in Nat
  OBVIOUS
<1>4. i \in Nat /\ k \in Nat /\ m \in Nat /\ n \in Nat /\ j \in Nat /\ l \in Nat
  BY <1>3
<1>5. i < j /\ j < k /\ m < l /\ l < n
  BY <1>4
<1>6. i \in {m, l, n} /\ j \in {m, l, n} /\ k \in {m, l, n}
  BY <1>1, <1>2
<1>7. QED
  BY <1>4, <1>5, <1>6

\* What TrimSpace leaves.
LEMMA TrimTyped ==
  ASSUME NEW v \in Seq(Word)
  PROVE  /\ TrimSpace(v) \in Seq(Word)
         /\ TrimSpace(v) = IF Solid(v) = {} THEN <<>> ELSE SubSeq(v, Min(Solid(v)), Max(Solid(v)))
         /\ Solid(v) # {} => /\ Min(Solid(v)) \in Solid(v) /\ Max(Solid(v)) \in Solid(v)
                             /\ \A y \in Solid(v) : Min(Solid(v)) <= y /\ y <= Max(Solid(v))
<1> DEFINE S == Solid(v)
<1>1. TrimSpace(v) = IF S = {} THEN <<>> ELSE SubSeq(v, Min(S), Max(S))
  BY DEF TrimSpace, Solid
<1>2. DOMAIN v = 1..Len(v) /\ Len(v) \in Nat
  OBVIOUS
<1>3. S \subseteq 1..Len(v) /\ S \in SUBSET Nat /\ UpTo(S, Len(v))
  BY <1>2 DEF Solid, UpTo
<1> HIDE DEF S
<1>4. ASSUME S # {} PROVE Min(S) \in S /\ Max(S) \in S /\ \A y \in S : Min(S) <= y /\ y <= Max(S)
  <2>1. Min(S) \in S /\ \A y \in S : Min(S) <= y
    BY <1>3, <1>4, MinOfNat
  <2>2. Max(S) \in S /\ Max(S) \in Nat /\ \A y \in S : Max(S) >= y
    BY <1>3, <1>4, MaxOfInterval
  <2>3. \A y \in S : y <= Max(S)
    BY <1>3, <2>2
  <2>4. QED
    BY <2>1, <2>2, <2>3
<1>5. TrimSpace(v) \in Seq(Word)
  <2>1. CASE S = {}
    BY <1>1, <2>1, EmptySeq
  <2>2. CASE S # {}
    <3>1. Min(S) \in 1..Len(v) /\ Max(S) \in 1..Len(v)
      BY <1>3, <1>4, <2>2
    <3>2. SubSeq(v, Min(S), Max(S)) \in Seq(Word)
      BY <1>2, <3>1, SubSeqProperties
    <3>3. QED
      BY <1>1, <2>2, <3>2
  <2>3. QED
    BY <2>1, <2>2
<1>6. QED
  BY <1>1, <1>4, <1>5 DEF S

\* One word is left when there is one.
LEMMA TrimOne ==
  ASSUME NEW v \in Seq(Word)
  PROVE  /\ Len(TrimSpace(v)) = 1 => \E i \in DOMAIN v : Solid(v) = {i}
         /\ \A i \in DOMAIN v : Solid(v) = {i} => Len(TrimSpace(v)) = 1 /\ TrimSpace(v)[1] = v[i]
<1> DEFINE S == Solid(v)
<1>1. DOMAIN v = 1..Len(v) /\ Len(v) \in Nat
  OBVIOUS
<1>2. S \subseteq 1..Len(v)
  BY <1>1 DEF Solid
<1>3. /\ TrimSpace(v) = IF S = {} THEN <<>> ELSE SubSeq(v, Min(S), Max(S))
      /\ S # {} => Min(S) \in S /\ Max(S) \in S /\ \A y \in S : Min(S) <= y /\ y <= Max(S)
  BY TrimTyped
<1> HIDE DEF S
<1>4. ASSUME Len(TrimSpace(v)) = 1 PROVE \E i \in DOMAIN v : S = {i}
  <2>1. S # {}
    <3>1. Len(<<>>) # 1
      OBVIOUS
    <3>2. QED
      BY <1>3, <1>4, <3>1
  <2>2. Min(S) \in 1..Len(v) /\ Max(S) \in 1..Len(v) /\ Min(S) <= Max(S)
    BY <1>2, <1>3, <2>1
  <2>3. Len(SubSeq(v, Min(S), Max(S))) = Max(S) - Min(S) + 1
    BY <1>1, <2>2, SubSeqProperties
  <2>4. Max(S) = Min(S)
    BY <1>1, <1>3, <1>4, <2>1, <2>2, <2>3
  <2>5. \A y \in S : y = Min(S)
    BY <1>1, <1>2, <1>3, <2>1, <2>2, <2>4
  <2>6. S = {Min(S)}
    BY <1>3, <2>1, <2>5
  <2>7. QED
    BY <1>1, <2>2, <2>6
<1>5. ASSUME NEW i \in DOMAIN v, S = {i} PROVE Len(TrimSpace(v)) = 1 /\ TrimSpace(v)[1] = v[i]
  <2>1. Min(S) = i /\ Max(S) = i /\ S # {}
    BY <1>3, <1>5
  <2>2. TrimSpace(v) = SubSeq(v, i, i)
    BY <1>3, <2>1
  <2>3. i \in 1..Len(v) /\ i - i + 1 = 1 /\ i + 1 - 1 = i
    BY <1>1
  <2>4. Len(SubSeq(v, i, i)) = 1 /\ SubSeq(v, i, i)[1] = v[i]
    BY <1>1, <2>3
  <2>5. QED
    BY <2>2, <2>4
<1>6. QED
  BY <1>4, <1>5 DEF S

\* A part of a value.
LEMMA PartOf ==
  ASSUME NEW v \in Seq(Word), NEW m \in 1..(Len(v) + 1), NEW n \in 0..Len(v), m <= n + 1,
         NEW u, u = SubSeq(v, m, n)
  PROVE  /\ u \in Seq(Word) /\ DOMAIN u = 1..(n - m + 1) /\ Len(u) = n - m + 1
         /\ \A i \in 1..(n - m + 1) : u[i] = v[m + i - 1]
<1>1. Len(v) \in Nat /\ m \in Int /\ n \in Int /\ \A i \in m..n : v[i] \in Word
  OBVIOUS
<1>2. u \in Seq(Word) /\ Len(u) = (IF m <= n THEN n - m + 1 ELSE 0) /\ \A i \in 1..(n - m + 1) : u[i] = v[m + i - 1]
  BY <1>1, SubSeqProperties
<1>3. Len(u) = n - m + 1
  BY <1>1, <1>2
<1>4. QED
  BY <1>2, <1>3

\* What is before and after a place of a value.
LEMMA PartsAround ==
  ASSUME NEW v \in Seq(Word), NEW j \in 1..Len(v), NEW left, left = SubSeq(v, 1, j - 1),
         NEW right, right = SubSeq(v, j + 1, Len(v))
  PROVE  /\ left \in Seq(Word) /\ DOMAIN left = 1..(j - 1) /\ \A l \in 1..(j - 1) : left[l] = v[l]
         /\ right \in Seq(Word) /\ DOMAIN right = 1..(Len(v) - j) /\ \A l \in 1..(Len(v) - j) : right[l] = v[j + l]
<1>0. Len(v) \in Nat /\ j \in Nat
  OBVIOUS
<1>1. left \in Seq(Word) /\ DOMAIN left = 1..(j - 1) /\ \A l \in 1..(j - 1) : left[l] = v[l]
  <2>1. 1 \in 1..(Len(v) + 1) /\ j - 1 \in 0..Len(v) /\ 1 <= (j - 1) + 1 /\ (j - 1) - 1 + 1 = j - 1
    BY <1>0
  <2>2. \A l \in 1..(j - 1) : 1 + l - 1 = l
    OBVIOUS
  <2>3. QED
    BY <2>1, <2>2, PartOf
<1>2. right \in Seq(Word) /\ DOMAIN right = 1..(Len(v) - j) /\ \A l \in 1..(Len(v) - j) : right[l] = v[j + l]
  <2>1. j + 1 \in 1..(Len(v) + 1) /\ Len(v) \in 0..Len(v) /\ j + 1 <= Len(v) + 1 /\ Len(v) - (j + 1) + 1 = Len(v) - j
    BY <1>0
  <2>2. \A l \in 1..(Len(v) - j) : (j + 1) + l - 1 = j + l
    BY <1>0
  <2>3. QED
    BY <2>1, <2>2, PartOf
<1>3. QED
  BY <1>1, <1>2

\* splitRange takes a range apart.
LEMMA RangeSplits ==
  ASSUME NEW v \in Seq(Word), NEW i \in DOMAIN v, NEW k \in DOMAIN v, IsRange(v, i, k),
         NEW r, r = splitRange(v)
  PROVE  r.dash > 0 /\ Len(r.start) = 1 /\ r.start[1] = v[i] /\ Len(r.end) = 1 /\ r.end[1] = v[k]
<1>1. PICK j \in (i + 1)..(k - 1) : v[j] = Dash /\ Solid(v) = {i, j, k}
  BY DEF IsRange
<1>2. DOMAIN v = 1..Len(v) /\ Len(v) \in Nat
  OBVIOUS
<1>3. i \in 1..Len(v) /\ k \in 1..Len(v) /\ j \in 1..Len(v) /\ i < j /\ j < k
  BY <1>2
<1> DEFINE I == {l \in 1..Len(v) : v[l] = Dash}
           dash == SelectInSeq(v, LAMBDA w : w = Dash)
           left == SubSeq(v, 1, j - 1)
           right == SubSeq(v, j + 1, Len(v))
<1>4. Dash # Break /\ v[i] # Dash /\ v[k] # Dash
  BY DEF Dash, Break, Named, IsRange
<1>5. I = {j}
  <2>1. \A l \in I : l \in Solid(v)
    BY <1>2, <1>4 DEF Solid
  <2>2. QED
    BY <1>1, <1>3, <1>4, <2>1
<1>6. dash = IF I # {} THEN Min(I) ELSE 0
  BY DEF SelectInSeq
<1>7. dash = j
  <2> HIDE DEF I, dash
  <2>1. I \in SUBSET Nat /\ I # {}
    BY <1>3, <1>5
  <2>2. Min(I) \in I
    BY <2>1, MinOfNat
  <2>3. QED
    BY <1>5, <1>6, <2>1, <2>2
<1>8. r = [dash |-> dash, start |-> TrimSpace(SubSeq(v, 1, dash - 1)), end |-> TrimSpace(SubSeq(v, dash + 1, Len(v)))]
  BY DEF splitRange
<1> HIDE DEF dash, I
<1>9. r = [dash |-> j, start |-> TrimSpace(left), end |-> TrimSpace(right)]
  BY <1>7, <1>8
<1>10. r.dash > 0 /\ r.start = TrimSpace(left) /\ r.end = TrimSpace(right)
  BY <1>3, <1>9
<1>11. left \in Seq(Word) /\ DOMAIN left = 1..(j - 1) /\ \A l \in 1..(j - 1) : left[l] = v[l]
  BY <1>3, PartsAround
<1>12. right \in Seq(Word) /\ DOMAIN right = 1..(Len(v) - j) /\ \A l \in 1..(Len(v) - j) : right[l] = v[j + l]
  BY <1>3, PartsAround
<1> HIDE DEF left, right
<1>13. Solid(left) = {i} /\ i \in DOMAIN left /\ left[i] = v[i]
  <2>1. i \in 1..(j - 1) /\ v[i] # Break
    BY <1>1, <1>3 DEF Solid
  <2>2. \A l \in 1..(j - 1) : v[l] # Break => l \in {i, j, k}
    BY <1>1, <1>2, <1>3 DEF Solid
  <2>3. \A l \in 1..(j - 1) : l # j /\ l # k
    BY <1>2, <1>3
  <2>4. \A l \in 1..(j - 1) : left[l] # Break <=> l = i
    BY <1>11, <2>1, <2>2, <2>3
  <2>5. QED
    BY <1>11, <2>1, <2>4 DEF Solid
<1>14. Solid(right) = {k - j} /\ k - j \in DOMAIN right /\ right[k - j] = v[k]
  <2>1. k - j \in 1..(Len(v) - j) /\ v[k] # Break /\ j + (k - j) = k
    BY <1>1, <1>2, <1>3 DEF Solid
  <2>2. \A l \in 1..(Len(v) - j) : v[j + l] # Break => j + l \in {i, j, k}
    BY <1>1, <1>2, <1>3 DEF Solid
  <2>3. \A l \in 1..(Len(v) - j) : v[j + l] # Break => l = k - j
    BY <1>2, <1>3, <2>2
  <2>4. \A l \in 1..(Len(v) - j) : right[l] # Break <=> l = k - j
    BY <1>12, <2>1, <2>3
  <2>5. QED
    BY <1>12, <2>1, <2>4 DEF Solid
<1>15. Len(TrimSpace(left)) = 1 /\ TrimSpace(left)[1] = v[i]
  BY <1>11, <1>13, TrimOne
<1>16. Len(TrimSpace(right)) = 1 /\ TrimSpace(right)[1] = v[k]
  BY <1>12, <1>14, TrimOne
<1>17. QED
  BY <1>10, <1>15, <1>16

\* What splitRange takes apart into two addresses is a range.
LEMMA SplitIsRange ==
  ASSUME NEW v \in Seq(Word), NEW r, r = splitRange(v), r.dash > 0,
         Len(r.start) = 1, r.start[1].form = "addr", Len(r.end) = 1, r.end[1].form = "addr",
         r.start[1].id = r.end[1].id
  PROVE  \E i, k \in DOMAIN v : IsRange(v, i, k)
<1> DEFINE I == {l \in 1..Len(v) : v[l] = Dash}
           j == SelectInSeq(v, LAMBDA w : w = Dash)
           left == SubSeq(v, 1, j - 1)
           right == SubSeq(v, j + 1, Len(v))
<1>1. DOMAIN v = 1..Len(v) /\ Len(v) \in Nat
  OBVIOUS
<1>2. j = IF I # {} THEN Min(I) ELSE 0
  BY DEF SelectInSeq
<1>3. r = [dash |-> j, start |-> TrimSpace(left), end |-> TrimSpace(right)]
  BY DEF splitRange
<1>4. I \in SUBSET Nat
  BY <1>1
<1> HIDE DEF j
<1>5. j > 0 /\ r.start = TrimSpace(left) /\ r.end = TrimSpace(right)
  BY <1>3
<1>6. j \in 1..Len(v) /\ v[j] = Dash
  <2> HIDE DEF I
  <2>1. I # {}
    <3>1. ~(0 > 0)
      OBVIOUS
    <3>2. QED
      BY <1>2, <1>5, <3>1
  <2>2. Min(I) \in I
    BY <1>4, <2>1, MinOfNat
  <2>a. j \in I
    BY <1>2, <2>1, <2>2
  <2>3. QED
    BY <2>a DEF I
<1> HIDE DEF I
<1>7. left \in Seq(Word) /\ DOMAIN left = 1..(j - 1) /\ \A l \in 1..(j - 1) : left[l] = v[l]
  BY <1>6, PartsAround
<1>8. right \in Seq(Word) /\ DOMAIN right = 1..(Len(v) - j) /\ \A l \in 1..(Len(v) - j) : right[l] = v[j + l]
  BY <1>6, PartsAround
<1> HIDE DEF left, right, I
<1>a. Len(TrimSpace(left)) = 1 /\ Len(TrimSpace(right)) = 1
  BY <1>5
<1>9. PICK i \in DOMAIN left : Solid(left) = {i}
  BY <1>7, <1>a, TrimOne
<1>10. r.start[1] = v[i] /\ i \in 1..(j - 1)
  <2>1. TrimSpace(left)[1] = left[i]
    BY <1>7, <1>9, TrimOne
  <2>2. QED
    BY <1>5, <1>7, <1>9, <2>1
<1>11. PICK l \in DOMAIN right : Solid(right) = {l}
  BY <1>8, <1>a, TrimOne
<1> DEFINE k == j + l
<1>12. r.end[1] = v[k] /\ l \in 1..(Len(v) - j)
  <2>1. TrimSpace(right)[1] = right[l]
    BY <1>8, <1>11, TrimOne
  <2>2. QED
    BY <1>5, <1>8, <1>11, <2>1
<1>13. i \in 1..Len(v) /\ k \in 1..Len(v) /\ i < j /\ j < k /\ j \in (i + 1)..(k - 1)
  BY <1>1, <1>6, <1>10, <1>12
<1>14. Dash # Break
  BY DEF Dash, Break, Named
<1>15. ASSUME NEW y \in 1..Len(v) PROVE v[y] # Break <=> y \in {i, j, k}
  <2>1. CASE y < j
    <3>1. y \in 1..(j - 1)
      BY <1>6, <2>1
    <3>2. left[y] # Break <=> y = i
      BY <1>7, <1>9, <3>1 DEF Solid
    <3>3. y # j /\ y # k
      BY <1>6, <1>13, <2>1
    <3>4. QED
      BY <1>7, <3>1, <3>2, <3>3
  <2>2. CASE y = j
    BY <1>6, <1>14, <2>2
  <2>3. CASE y > j
    <3>1. y - j \in 1..(Len(v) - j) /\ j + (y - j) = y
      BY <1>1, <1>6, <2>3
    <3>2. right[y - j] # Break <=> y - j = l
      BY <1>8, <1>11, <3>1 DEF Solid
    <3>3. y # j /\ y # i /\ (y - j = l <=> y = k)
      BY <1>6, <1>12, <1>13, <2>3
    <3>4. QED
      BY <1>8, <3>1, <3>2, <3>3
  <2>4. QED
    BY <1>6, <2>1, <2>2, <2>3
<1> HIDE DEF k
<1>16. Solid(v) = {i, j, k}
  BY <1>1, <1>6, <1>13, <1>15 DEF Solid
<1>17. IsRange(v, i, k)
  BY <1>6, <1>10, <1>12, <1>13, <1>16 DEF IsRange
<1>18. QED
  BY <1>1, <1>13, <1>17

-----------------------------------------------------------------------------
(* Filing an object. *)

NetAt(v, q) == \E i \in DOMAIN v : IsNet(v, i) /\ q = Masked(v[i].addr, v[i].len)
RangeAt(v, q) == \E i, k \in DOMAIN v : IsRange(v, i, k) /\ q \in MaximalBlocks(v[i].addr, v[k].addr)

\* The words with a prefix.
LEMMA PrefixWord ==
  ASSUME NEW w \in Word, w.form = "prefix" PROVE w.addr \in Address /\ w.len \in 0..W
<1>1. w # Dash /\ w # Break
  BY DEF Dash, Break, Named
<1>2. QED
  BY <1>1 DEF Word

\* A value has at most one prefix.
LEMMA OneNet ==
  ASSUME NEW v, NEW i, NEW j, IsNet(v, i), IsNet(v, j) PROVE i = j
BY DEF IsNet

\* insertPrefix files an object under the prefix that its key is.
LEMMA NetFiled ==
  ASSUME NEW t, Trie(t), NEW v \in Seq(Word), NEW o \in Object, NEW u, u = insertPrefix(t, v, o)
  PROVE  /\ Trie(u)
         /\ \A q : \A x : Count(ObjsAt(u, q), x) = Count(ObjsAt(t, q), x) + (IF NetAt(v, q) /\ x = o THEN 1 ELSE 0)
<1> DEFINE s == TrimSpace(v)
<1>1. u = IF Len(s) = 1 /\ s[1].form = "prefix" THEN insert(t, s[1], o) ELSE t
  BY DEF insertPrefix
<1>2. CASE Len(s) = 1 /\ s[1].form = "prefix"
  <2>1. PICK i \in DOMAIN v : Solid(v) = {i}
    BY <1>2, TrimOne
  <2>2. s[1] = v[i] /\ v[i] \in Word
    BY <2>1, TrimOne
  <2> DEFINE w == v[i]
             at == Masked(w.addr, w.len)
  <2>3. IsNet(v, i) /\ w.addr \in Address /\ w.len \in 0..W
    BY <1>2, <2>1, <2>2, PrefixWord DEF IsNet
  <2>4. at \in Prefix
    BY <2>3, MaskedHolds
  <2>5. \A q : NetAt(v, q) <=> q = at
    BY <2>3, OneNet DEF NetAt
  <2>6. u = insert(t, w, o)
    BY <1>1, <1>2, <2>2
  <2> HIDE DEF w
  <2>7. /\ Trie(u)
        /\ \A q : \A x : Count(ObjsAt(u, q), x) = Count(ObjsAt(t, q), x) + (IF q = at /\ x = o THEN 1 ELSE 0)
    BY <2>4, <2>6, InsertTrie
  <2> HIDE DEF at
  <2>8. QED
    BY <2>5, <2>7
<1>3. CASE ~(Len(s) = 1 /\ s[1].form = "prefix")
  <2>1. ASSUME NEW i \in DOMAIN v PROVE ~IsNet(v, i)
    BY <1>3, TrimOne DEF IsNet
  <2>2. \A q : ~NetAt(v, q)
    BY <2>1 DEF NetAt
  <2>3. \A q : \A x : Count(ObjsAt(t, q), x) \in Nat
    BY NodeTyped, CountType
  <2>4. u = t
    BY <1>1, <1>3
  <2>5. QED
    BY <2>2, <2>3, <2>4
<1>4. QED
  BY <1>2, <1>3

\* The loop of insertRange over its blocks.
Filing(t, blocks, o, g) ==
  g = [n \in 0..Len(blocks) |-> IF n = 0 THEN t ELSE insert(g[n - 1], blocks[n], o)]
Filed(t, blocks, o) == CHOOSE g : Filing(t, blocks, o, g)

\* The recursion is well founded.
LEMMA FilingExists ==
  ASSUME NEW t, NEW blocks, NEW o, Len(blocks) \in Nat
  PROVE  Filing(t, blocks, o, Filed(t, blocks, o))
<1> DEFINE N == Len(blocks)
           Step(n, g) == IF n = 0 THEN t ELSE insert(g[n - 1], blocks[n], o)
           Part(m, g) == g = [n \in 0..m |-> Step(n, g)]
           Bad == {m \in Nat : ~\E g : Part(m, g)}
<1>1. ASSUME NEW m \in Bad, \A n \in Bad : m <= n PROVE FALSE
  <2>1. CASE m = 0
    <3> DEFINE h == [n \in 0..0 |-> t]
    <3>1. Part(0, h)
      OBVIOUS
    <3>2. QED
      BY <1>1, <2>1, <3>1
  <2>2. CASE m # 0
    <3>1. m - 1 \in Nat /\ m \in Nat /\ ~(m <= m - 1)
      BY <2>2
    <3>2. PICK g : Part(m - 1, g)
      BY <1>1, <3>1
    <3> DEFINE h == [n \in 0..m |-> Step(n, g)]
    <3>3. \A n \in 0..(m - 1) : h[n] = g[n]
      <4>1. \A n \in 0..(m - 1) : n \in 0..m
        BY <3>1
      <4> HIDE DEF Step
      <4>2. QED
        BY <3>2, <4>1
    <3>4. \A n \in 0..m : n # 0 => n - 1 \in 0..(m - 1)
      BY <3>1
    <3>5. \A n \in 0..m : Step(n, g) = Step(n, h)
      <4> HIDE DEF h
      <4>1. QED
        BY <3>3, <3>4
    <3> HIDE DEF Step
    <3>6. Part(m, h)
      BY <3>5
    <3>7. QED
      BY <1>1, <3>6
  <2>3. QED
    BY <2>1, <2>2
<1>2. Bad = {}
  <2>1. Bad \in SUBSET Nat
    OBVIOUS
  <2> HIDE DEF Bad
  <2>2. QED
    BY <1>1, <2>1, LeastNat
<1>3. PICK g : Part(N, g)
  BY <1>2
<1>4. Filing(t, blocks, o, g)
  BY <1>3 DEF Filing
<1>5. QED
  BY <1>4 DEF Filed

\* After n blocks the object is filed once at each of them.
FiledTo(t, blocks, o, g, n) ==
  /\ Trie(g[n])
  /\ \A q : \A x : Count(ObjsAt(g[n], q), x)
                   = Count(ObjsAt(t, q), x) + (IF (\E i \in 1..n : blocks[i] = q) /\ x = o THEN 1 ELSE 0)

\* That is so when all blocks are done.
LEMMA BlocksFiled ==
  ASSUME NEW t, Trie(t), NEW blocks \in Seq(Prefix), Ordered(blocks), NEW o \in Object
  PROVE  FiledTo(t, blocks, o, Filed(t, blocks, o), Len(blocks))
<1> DEFINE N == Len(blocks)
           g == Filed(t, blocks, o)
           Bad == {n \in 0..N : ~FiledTo(t, blocks, o, g, n)}
<1>1. N \in Nat /\ DOMAIN blocks = 1..N /\ \A n \in 1..N : blocks[n] \in Prefix
  OBVIOUS
<1>2. Filing(t, blocks, o, g)
  BY <1>1, FilingExists
<1> HIDE DEF g
<1>3. \A n \in 0..N : g[n] = IF n = 0 THEN t ELSE insert(g[n - 1], blocks[n], o)
  BY <1>2 DEF Filing
<1> HIDE DEF N
<1>4. ASSUME NEW n \in Bad, \A m \in Bad : n <= m PROVE FALSE
  <2>1. CASE n = 0
    <3>1. g[0] = t
      BY <1>1, <1>3
    <3>2. \A q : \A x : Count(ObjsAt(t, q), x) \in Nat
      BY NodeTyped, CountType
    <3>3. \A q : ~\E i \in 1..0 : blocks[i] = q
      OBVIOUS
    <3>4. FiledTo(t, blocks, o, g, 0)
      BY <3>1, <3>2, <3>3 DEF FiledTo
    <3>5. QED
      BY <1>4, <2>1, <3>4
  <2>2. CASE n # 0
    <3>1. n \in 1..N /\ n - 1 \in 0..N /\ ~(n <= n - 1) /\ n \in 0..N
      BY <1>1, <2>2
    <3>2. FiledTo(t, blocks, o, g, n - 1)
      BY <1>4, <3>1
    <3> DEFINE b == blocks[n]
    <3>3. b \in Prefix /\ b = Masked(b.addr, b.len)
      BY <1>1, <3>1, PrefixIsMasked
    <3>4. g[n] = insert(g[n - 1], b, o)
      BY <1>3, <2>2, <3>1
    <3>5. ASSUME NEW i \in 1..(n - 1) PROVE blocks[i] # b
      <4>1. i \in 1..N /\ i < n
        BY <1>1, <3>1
      <4>2. LastAddr(blocks[i]) < FirstAddr(b)
        BY <1>1, <3>1, <4>1 DEF Ordered
      <4>3. FirstAddr(b) <= LastAddr(b) /\ FirstAddr(b) \in Nat /\ LastAddr(b) \in Nat
        BY <3>3, PrefixEnds
      <4> HIDE DEF b
      <4>4. QED
        BY <4>2, <4>3
    <3>6. ASSUME NEW q PROVE (\E i \in 1..n : blocks[i] = q) <=> (\E i \in 1..(n - 1) : blocks[i] = q) \/ q = b
      <4>1. 1..n = 1..(n - 1) \cup {n}
        BY <3>1
      <4>2. QED
        BY <4>1
    <3>7. ASSUME NEW q PROVE ~((\E i \in 1..(n - 1) : blocks[i] = q) /\ q = b)
      BY <3>5
    <3> DEFINE h == g[n - 1]
               k == g[n]
               Before(q) == \E i \in 1..(n - 1) : blocks[i] = q
               After(q) == \E i \in 1..n : blocks[i] = q
    <3>8. Trie(h) /\ \A q : \A x : Count(ObjsAt(h, q), x)
                                   = Count(ObjsAt(t, q), x) + (IF Before(q) /\ x = o THEN 1 ELSE 0)
      BY <3>2 DEF FiledTo
    <3>9. \A q : (After(q) <=> Before(q) \/ q = b) /\ ~(Before(q) /\ q = b)
      BY <3>6, <3>7
    <3>10. k = insert(h, b, o)
      BY <3>4
    <3> HIDE DEF h, k, Before, After, b
    <3>11. Trie(k) /\ \A q : \A x : Count(ObjsAt(k, q), x)
                                    = Count(ObjsAt(h, q), x) + (IF q = b /\ x = o THEN 1 ELSE 0)
      BY <3>3, <3>8, <3>10, InsertTrie
    <3>12. \A q : \A x : Count(ObjsAt(t, q), x) \in Nat
      BY NodeTyped, CountType
    <3>13. \A q : \A x : Count(ObjsAt(k, q), x) = Count(ObjsAt(t, q), x) + (IF After(q) /\ x = o THEN 1 ELSE 0)
      BY <3>8, <3>9, <3>11, <3>12
    <3>14. FiledTo(t, blocks, o, g, n)
      BY <3>11, <3>13 DEF FiledTo, k, After
    <3>15. QED
      BY <1>4, <3>14
  <2>3. QED
    BY <2>1, <2>2
<1>5. Bad = {}
  <2>1. Bad \in SUBSET Nat
    BY <1>1
  <2> HIDE DEF Bad
  <2>2. QED
    BY <1>4, <2>1, LeastNat
<1>6. N \in 0..N
  BY <1>1
<1>7. FiledTo(t, blocks, o, g, N)
  BY <1>5, <1>6
<1>8. QED
  BY <1>7 DEF g, N

\* insertRange files an object under each block of the range that its key is.
LEMMA RangeFiled ==
  ASSUME NEW t, Trie(t), NEW v \in Seq(Word), NEW o \in Object, NEW u, u = insertRange(t, v, o)
  PROVE  /\ Trie(u)
         /\ \A q : \A x : Count(ObjsAt(u, q), x) = Count(ObjsAt(t, q), x) + (IF RangeAt(v, q) /\ x = o THEN 1 ELSE 0)
<1> DEFINE r == splitRange(v)
           Two == /\ r.dash > 0 /\ Len(r.start) = 1 /\ r.start[1].form = "addr"
                  /\ Len(r.end) = 1 /\ r.end[1].form = "addr" /\ r.start[1].id = r.end[1].id
           out == rangeToCIDRs(r.start[1].addr, r.end[1].addr, BitLen(r.start[1].id))
<1>1. u = IF Two THEN Filed(t, out, o)[Len(out)] ELSE t
  BY DEF insertRange, Filed, Filing
<1>2. Two <=> \E i, k \in DOMAIN v : IsRange(v, i, k)
  <2>1. Two => \E i, k \in DOMAIN v : IsRange(v, i, k)
    <3> HIDE DEF r
    <3>1. r = splitRange(v)
      BY DEF r
    <3>2. QED
      BY <3>1, SplitIsRange
  <2>2. ASSUME NEW i \in DOMAIN v, NEW k \in DOMAIN v, IsRange(v, i, k) PROVE Two
    <3> HIDE DEF r
    <3>1. r = splitRange(v)
      BY DEF r
    <3>2. r.dash > 0 /\ Len(r.start) = 1 /\ r.start[1] = v[i] /\ Len(r.end) = 1 /\ r.end[1] = v[k]
      BY <2>2, <3>1, RangeSplits
    <3>3. v[i].form = "addr" /\ v[k].form = "addr" /\ v[i].id = v[k].id
      BY <2>2 DEF IsRange
    <3>4. QED
      BY <3>2, <3>3
  <2>3. QED
    BY <2>1, <2>2
<1>3. CASE Two
  <2>1. PICK i \in DOMAIN v, k \in DOMAIN v : IsRange(v, i, k)
    BY <1>2, <1>3
  <2>2. r.start[1] = v[i] /\ r.end[1] = v[k]
    BY <2>1, RangeSplits
  <2> DEFINE a == v[i]
             b == v[k]
  <2>3. a \in Word /\ b \in Word /\ a.form = "addr" /\ b.form = "addr" /\ a.id = b.id
    BY <2>1 DEF IsRange
  <2>4. out = rangeToCIDRs(a.addr, b.addr, BitLen(a.id))
    BY <2>2
  <2>5. \A q : RangeAt(v, q) <=> q \in MaximalBlocks(a.addr, b.addr)
    <3>1. \A m, n \in DOMAIN v : IsRange(v, m, n) => m = i /\ n = k
      BY <2>1, OneRange
    <3>2. QED
      BY <2>1, <3>1 DEF RangeAt
  <2> HIDE DEF a, b, out
  <2>6. out \in Seq(Prefix) /\ ToSet(out) = MaximalBlocks(a.addr, b.addr) /\ Ordered(out)
    <3>1. a.addr \in Address /\ b.addr \in Address
      BY <2>3, AddressWord
    <3>2. BitLen(a.id) \in 0..W /\ Fits(a.addr, b.addr, BitLen(a.id))
      BY <2>3, FamilyBits
    <3>3. QED
      BY <2>4, <3>1, <3>2, RangeDecomposed
  <2>7. FiledTo(t, out, o, Filed(t, out, o), Len(out))
    BY <2>6, BlocksFiled
  <2>8. u = Filed(t, out, o)[Len(out)]
    BY <1>1, <1>3
  <2>9. \A q : (\E n \in 1..Len(out) : out[n] = q) <=> RangeAt(v, q)
    <3>1. DOMAIN out = 1..Len(out)
      BY <2>6
    <3>2. \A q : q \in ToSet(out) <=> \E n \in 1..Len(out) : out[n] = q
      BY <3>1 DEF ToSet
    <3>3. QED
      BY <2>5, <2>6, <3>2
  <2>10. QED
    BY <2>7, <2>8, <2>9 DEF FiledTo
<1>4. CASE ~Two
  <2>1. \A q : ~RangeAt(v, q)
    BY <1>2, <1>4 DEF RangeAt
  <2>2. \A q : \A x : Count(ObjsAt(t, q), x) \in Nat
    BY NodeTyped, CountType
  <2>3. u = t
    BY <1>1, <1>4
  <2>4. QED
    BY <2>1, <2>2, <2>3
<1>5. QED
  BY <1>3, <1>4

-----------------------------------------------------------------------------
(* Every address of an object is in one of the blocks it is filed under. *)

\* An address of a range is in one of its maximal blocks.
LEMMA MaximalHolder ==
  ASSUME NEW lo \in Address, NEW hi \in Address, NEW a \in Address, lo <= a, a <= hi
  PROVE  \E e \in 0..W : \A d \in 0..W : Masked(a, d) \in MaximalBlocks(lo, hi) <=> d = e
<1> DEFINE D == {d \in 0..W : Masked(a, d) \in Inside(lo, hi)}
<1>1. W \in Nat /\ Pow2[W] \in Nat /\ Pow2[0] = 1
  BY Pow2Steps, Pow2Positive
<1>2. a \in Nat /\ lo \in Nat /\ hi \in Nat
  BY <1>1 DEF Address
<1>3. \A d \in 0..W : Masked(a, d) \in Prefix /\ Masked(a, d).len = d /\ Holds(Masked(a, d), a)
  BY MaskedHolds
<1>4. W \in D
  <2>1. W \in 0..W /\ W - W = 0
    BY <1>1
  <2> DEFINE p == Masked(a, W)
  <2>2. p \in Prefix /\ p.len = W /\ Holds(p, a)
    BY <1>3, <2>1
  <2> HIDE DEF p
  <2>3. FirstAddr(p) \in Nat /\ LastAddr(p) = p.addr + Pow2[W - p.len] - 1 /\ FirstAddr(p) = p.addr
    BY <2>2, PrefixEnds
  <2>4. FirstAddr(p) = a /\ LastAddr(p) = a
    BY <1>1, <1>2, <2>1, <2>2, <2>3 DEF Holds
  <2>5. p \in Inside(lo, hi)
    BY <2>2, <2>4 DEF Inside
  <2>6. QED
    BY <2>1, <2>5 DEF p
<1>5. D \in SUBSET Nat
  OBVIOUS
<1>6. PICK e \in D : \A d \in D : e <= d
  <2> HIDE DEF D
  <2>1. QED
    BY <1>4, <1>5, LeastNat
<1> DEFINE p == Masked(a, e)
<1>7. e \in 0..W /\ p \in Inside(lo, hi) /\ p \in Prefix /\ p.len = e /\ Holds(p, a) /\ e \in Nat
  BY <1>3
<1>8. \A d \in 0..W : Masked(a, d) \in Inside(lo, hi) => e <= d
  BY <1>6
<1> HIDE DEF D, p
<1>9. p \in MaximalBlocks(lo, hi)
  <2>1. ASSUME NEW q \in Inside(lo, hi), Holds(q, FirstAddr(p)) PROVE p.len <= q.len
    <3>1. q \in Prefix /\ q.len \in 0..W /\ q.len \in Nat
      BY <1>1, PrefixParts DEF Inside
    <3>2. CASE q.len <= p.len
      <4>1. Holds(p, FirstAddr(p)) /\ FirstAddr(p) \in Nat
        BY <1>7, PrefixEnds DEF Holds
      <4>2. FirstAddr(q) <= FirstAddr(p) /\ LastAddr(p) <= LastAddr(q)
        BY <1>7, <2>1, <3>1, <3>2, <4>1, PrefixesNest
      <4>3. Holds(q, a)
        <5>1. FirstAddr(p) \in Nat /\ LastAddr(p) \in Nat /\ FirstAddr(q) \in Nat /\ LastAddr(q) \in Nat
          BY <1>7, <3>1, PrefixEnds
        <5>2. QED
          BY <1>2, <1>7, <4>2, <5>1 DEF Holds
      <4>4. q = Masked(a, q.len)
        BY <3>1, <4>3, HolderIsMasked
      <4>5. QED
        BY <1>7, <1>8, <3>1, <4>4
    <3>3. QED
      BY <1>7, <3>1, <3>2
  <2>2. QED
    BY <1>7, <2>1, MaximalIs
<1>10. ASSUME NEW d \in 0..W, Masked(a, d) \in MaximalBlocks(lo, hi) PROVE d = e
  <2> DEFINE r == Masked(a, d)
  <2>1. r \in Prefix /\ r.len = d /\ Holds(r, a) /\ d \in Nat
    BY <1>3
  <2>2. r \in Inside(lo, hi) /\ \A q \in Inside(lo, hi) : Holds(q, FirstAddr(r)) => r.len <= q.len
    BY <1>10, MaximalIs
  <2>3. e <= d
    BY <1>8, <2>2
  <2> HIDE DEF r
  <2>4. FirstAddr(p) <= FirstAddr(r) /\ LastAddr(r) <= LastAddr(p)
    BY <1>2, <1>7, <2>1, <2>3, PrefixesNest
  <2>5. Holds(p, FirstAddr(r))
    <3>1. FirstAddr(p) \in Nat /\ LastAddr(p) \in Nat /\ FirstAddr(r) \in Nat /\ LastAddr(r) \in Nat
          /\ FirstAddr(r) <= LastAddr(r)
      BY <1>7, <2>1, PrefixEnds
    <3>2. QED
      BY <2>4, <3>1 DEF Holds
  <2>6. QED
    BY <1>7, <2>1, <2>2, <2>3, <2>5
<1>11. QED
  BY <1>7, <1>9, <1>10 DEF p

\* Other addresses are in none.
LEMMA MaximalHoldsNone ==
  ASSUME NEW lo \in Address, NEW hi \in Address, NEW a \in Address, NEW d \in 0..W,
         Masked(a, d) \in MaximalBlocks(lo, hi)
  PROVE  lo <= a /\ a <= hi
<1> DEFINE p == Masked(a, d)
<1>1. p \in Prefix /\ Holds(p, a)
  BY MaskedHolds
<1>2. lo <= FirstAddr(p) /\ LastAddr(p) <= hi
  BY MaximalIs DEF Inside
<1>3. a \in Nat /\ lo \in Nat /\ hi \in Nat
  BY Pow2Steps, Pow2Positive DEF Address
<1> HIDE DEF p
<1>4. FirstAddr(p) \in Nat /\ LastAddr(p) \in Nat
  BY <1>1, PrefixEnds
<1>5. QED
  BY <1>1, <1>2, <1>3, <1>4 DEF Holds

NetClasses == {"route", "inet6num", "route6"}
FiledAt(x, q) ==
  \/ x.class = "inetnum" /\ RangeAt(x.pk, q)
  \/ x.class \in NetClasses /\ NetAt(x.pk, q)

\* Which addresses a range stands for.
LEMMA ExtentOfRange ==
  ASSUME NEW x, x.class = "inetnum", NEW a
  PROVE  a \in Extent(x) <=> \E i, k \in DOMAIN x.pk : IsRange(x.pk, i, k) /\ a \in x.pk[i].addr..x.pk[k].addr
<1>1. Extent(x) = UNION {IF IsRange(x.pk, i, k) THEN x.pk[i].addr..x.pk[k].addr ELSE {} : i, k \in DOMAIN x.pk}
  BY DEF Extent
<1> DEFINE F(i, k) == IF IsRange(x.pk, i, k) THEN x.pk[i].addr..x.pk[k].addr ELSE {}
           D == DOMAIN x.pk
<1>2. Extent(x) = UNION {F(i, k) : i, k \in D}
  BY <1>1
<1>3. \A i, k \in D : a \in F(i, k) <=> IsRange(x.pk, i, k) /\ a \in x.pk[i].addr..x.pk[k].addr
  OBVIOUS
<1> HIDE DEF F, D
<1>4. a \in Extent(x) <=> \E i, k \in D : a \in F(i, k)
  BY <1>2
<1>5. QED
  BY <1>3, <1>4 DEF D

\* Which addresses a prefix stands for.
LEMMA ExtentOfNet ==
  ASSUME NEW x, x.class \in NetClasses, NEW a
  PROVE  a \in Extent(x)
           <=> \E i \in DOMAIN x.pk : /\ IsNet(x.pk, i)
                                      /\ a \in FirstAddr(Masked(x.pk[i].addr, x.pk[i].len))
                                               ..LastAddr(Masked(x.pk[i].addr, x.pk[i].len))
<1>1. x.class # "inetnum" /\ Family(x) # "none"
  BY DEF NetClasses, Family
<1>2. Extent(x) = UNION {IF IsNet(x.pk, i)
                         THEN FirstAddr(Masked(x.pk[i].addr, x.pk[i].len))..LastAddr(Masked(x.pk[i].addr, x.pk[i].len))
                         ELSE {} : i \in DOMAIN x.pk}
  BY <1>1 DEF Extent
<1>3. QED
  BY <1>2

\* Objects of other classes have no addresses.
LEMMA ExtentOfOther ==
  ASSUME NEW x, x.class # "inetnum", x.class \notin NetClasses
  PROVE  Extent(x) = {} /\ Family(x) = "none"
<1>1. Family(x) = "none"
  BY DEF NetClasses, Family
<1>2. QED
  BY <1>1 DEF Extent

\* An object is found once on the way to each of its addresses, and not on
\* the way to any other.
LEMMA OneBlock ==
  ASSUME NEW x \in Object, NEW a \in Address
  PROVE  /\ a \in Extent(x) => \E e \in 0..W : \A d \in 0..W : FiledAt(x, Masked(a, d)) <=> d = e
         /\ a \notin Extent(x) => \A d \in 0..W : ~FiledAt(x, Masked(a, d))
<1> DEFINE v == x.pk
<1>1. v \in Seq(Word)
  BY DEF Object, Value
<1>2. a \in Nat
  BY Pow2Steps, Pow2Positive DEF Address
<1>3. CASE x.class = "inetnum"
  <2>0. \A q : FiledAt(x, q) <=> RangeAt(v, q)
    BY <1>3 DEF FiledAt, NetClasses
  <2>1. CASE \E i, k \in DOMAIN v : IsRange(v, i, k)
    <3>1. PICK i \in DOMAIN v, k \in DOMAIN v : IsRange(v, i, k)
      BY <2>1
    <3>2. \A m, n \in DOMAIN v : IsRange(v, m, n) => m = i /\ n = k
      BY <1>1, <3>1, OneRange
    <3> DEFINE lo == v[i].addr
               hi == v[k].addr
    <3>3. lo \in Address /\ hi \in Address /\ lo \in Nat /\ hi \in Nat
      <4>1. v[i] \in Word /\ v[k] \in Word /\ v[i].form = "addr" /\ v[k].form = "addr"
        BY <1>1, <3>1 DEF IsRange
      <4>2. lo \in Address /\ hi \in Address
        BY <4>1, AddressWord
      <4>3. QED
        BY <4>2, Pow2Steps, Pow2Positive DEF Address
    <3>4. a \in Extent(x) <=> a \in lo..hi
      BY <1>3, <3>1, <3>2, ExtentOfRange
    <3>5. \A q : FiledAt(x, q) <=> q \in MaximalBlocks(lo, hi)
      BY <2>0, <3>1, <3>2 DEF RangeAt
    <3> HIDE DEF lo, hi, v
    <3>6. ASSUME a \in Extent(x) PROVE \E e \in 0..W : \A d \in 0..W : FiledAt(x, Masked(a, d)) <=> d = e
      <4>1. lo <= a /\ a <= hi
        BY <3>3, <3>4, <3>6
      <4>2. QED
        BY <3>3, <3>5, <4>1, MaximalHolder
    <3>7. ASSUME NEW d \in 0..W, FiledAt(x, Masked(a, d)) PROVE a \in Extent(x)
      <4>1. lo <= a /\ a <= hi
        BY <3>3, <3>5, <3>7, MaximalHoldsNone
      <4>2. QED
        BY <1>2, <3>3, <3>4, <4>1
    <3>8. QED
      BY <3>6, <3>7
  <2>2. CASE ~\E i, k \in DOMAIN v : IsRange(v, i, k)
    <3>1. a \notin Extent(x)
      BY <1>3, <2>2, ExtentOfRange
    <3>2. QED
      BY <2>0, <2>2, <3>1 DEF RangeAt
  <2>3. QED
    BY <2>1, <2>2
<1>4. CASE x.class \in NetClasses
  <2>0. \A q : FiledAt(x, q) <=> NetAt(v, q)
    BY <1>4 DEF FiledAt, NetClasses
  <2>1. CASE \E i \in DOMAIN v : IsNet(v, i)
    <3>1. PICK i \in DOMAIN v : IsNet(v, i)
      BY <2>1
    <3>2. \A j \in DOMAIN v : IsNet(v, j) => j = i
      BY <3>1, OneNet
    <3> DEFINE n == v[i].len
               p == Masked(v[i].addr, v[i].len)
    <3>3. p \in Prefix /\ p.len = n /\ n \in 0..W
      <4>1. v[i] \in Word /\ v[i].form = "prefix"
        BY <1>1, <3>1 DEF IsNet
      <4>2. v[i].addr \in Address /\ v[i].len \in 0..W
        BY <4>1, PrefixWord
      <4>3. QED
        BY <4>2, MaskedHolds
    <3>4. a \in Extent(x) <=> a \in FirstAddr(p)..LastAddr(p)
      BY <1>4, <3>1, <3>2, ExtentOfNet
    <3>5. \A q : FiledAt(x, q) <=> q = p
      BY <2>0, <3>1, <3>2 DEF NetAt
    <3> HIDE DEF p, n, v
    <3>6. a \in Extent(x) <=> Holds(p, a)
      <4>1. FirstAddr(p) \in Nat /\ LastAddr(p) \in Nat
        BY <3>3, PrefixEnds
      <4>2. QED
        BY <1>2, <3>4, <4>1 DEF Holds
    <3>7. ASSUME NEW d \in 0..W PROVE Masked(a, d).len = d /\ Holds(Masked(a, d), a)
      BY MaskedHolds
    <3>8. ASSUME Holds(p, a) PROVE p = Masked(a, n)
      BY <3>3, <3>8, HolderIsMasked
    <3>9. ASSUME Holds(p, a) PROVE \A d \in 0..W : Masked(a, d) = p <=> d = n
      BY <3>3, <3>7, <3>8, <3>9
    <3>10. QED
      BY <3>3, <3>5, <3>6, <3>7, <3>9
  <2>2. CASE ~\E i \in DOMAIN v : IsNet(v, i)
    <3>1. a \notin Extent(x)
      BY <1>4, <2>2, ExtentOfNet
    <3>2. QED
      BY <2>0, <2>2, <3>1 DEF NetAt
  <2>3. QED
    BY <2>1, <2>2
<1>5. CASE x.class # "inetnum" /\ x.class \notin NetClasses
  <2>1. \A q : ~FiledAt(x, q)
    BY <1>5 DEF FiledAt
  <2>2. Extent(x) = {}
    BY <1>5, ExtentOfOther
  <2>3. QED
    BY <2>1, <2>2
<1>6. QED
  BY <1>3, <1>4, <1>5

-----------------------------------------------------------------------------
(* The indexes of a store. *)

Multimap(map) == \A k \in DOMAIN map : map[k] \in Seq(Object)

\* What a map has for a key.
LEMMA AtTyped ==
  ASSUME NEW map, Multimap(map), NEW key PROVE At(map, key) \in Seq(Object)
BY EmptySeq DEF Multimap, At

\* Appending to a map adds one object to one key.
LEMMA AppendedCount ==
  ASSUME NEW map, Multimap(map), NEW key, NEW o \in Object, NEW u, u = Appended(map, key, o)
  PROVE  /\ Multimap(u)
         /\ \A k : \A x : Count(At(u, k), x) = Count(At(map, k), x) + (IF k = key /\ x = o THEN 1 ELSE 0)
<1>1. u = [k \in DOMAIN map \cup {key} |-> IF k = key THEN Append(At(map, k), o) ELSE map[k]]
  BY DEF Appended
<1>2. \A k : At(map, k) \in Seq(Object)
  BY AtTyped
<1>3. \A k : Append(At(map, k), o) \in Seq(Object)
  BY <1>2, AppendTyped
<1>4. Multimap(u)
  BY <1>1, <1>3 DEF Multimap
<1>5. ASSUME NEW k PROVE At(u, k) = IF k = key THEN Append(At(map, k), o) ELSE At(map, k)
  BY <1>1 DEF At
<1>6. ASSUME NEW k, NEW x
      PROVE  Count(At(u, k), x) = Count(At(map, k), x) + (IF k = key /\ x = o THEN 1 ELSE 0)
  <2>1. Count(At(map, k), x) \in Nat
    BY <1>2, CountType
  <2>2. Count(Append(At(map, k), o), x) = Count(At(map, k), x) + (IF o = x THEN 1 ELSE 0)
    BY <1>2, CountAppend
  <2>3. CASE k = key
    BY <1>5, <2>1, <2>2, <2>3
  <2>4. CASE k # key
    BY <1>5, <2>1, <2>4
  <2>5. QED
    BY <2>3, <2>4
<1>7. QED
  BY <1>4, <1>6

StoreFields == {"byKey", "byHandle", "byDomain", "inet4", "inet6", "counts", "countsBySource"}

\* Insert, index by index.
LEMMA InsertFields ==
  ASSUME NEW s, DOMAIN s = StoreFields, NEW o, NEW f, NEW u, u = Insert(s, o, f)
  PROVE  /\ DOMAIN u = StoreFields
         /\ u.byKey = Appended(s.byKey, keyOf(o.class, normalizeKey(o.class, o.pk)), o)
         /\ u.byHandle = IF o.class \in {"person", "role"} /\ o.nicHdl # <<>>
                         THEN Appended(s.byHandle, handleKey(o), o) ELSE s.byHandle
         /\ u.byDomain = IF o.class = "domain" THEN Appended(s.byDomain, ToLower(TrimDot(o.pk)), o) ELSE s.byDomain
         /\ u.inet4 = IF o.class = "inetnum" THEN insertRange(s.inet4, o.pk, o)
                      ELSE IF o.class = "route" THEN insertPrefix(s.inet4, o.pk, o) ELSE s.inet4
         /\ u.inet6 = IF o.class \in {"inet6num", "route6"} THEN insertPrefix(s.inet6, o.pk, o) ELSE s.inet6
BY DEF Insert, StoreFields

\* Which objects each index has at a key.
KeyIs(x, k) == k = keyOf(x.class, normalizeKey(x.class, x.pk))
HandleIs(x, k) == x.class \in {"person", "role"} /\ x.nicHdl # <<>> /\ k = handleKey(x)
DomainIs(x, k) == x.class = "domain" /\ k = ToLower(TrimDot(x.pk))
FourIs(x, q) == x.class \in {"inetnum", "route"} /\ FiledAt(x, q)
SixIs(x, q) == x.class \in {"inet6num", "route6"} /\ FiledAt(x, q)

\* A store has every emitted object, as often as it was emitted, in each of
\* its indexes exactly where it belongs.
Stored(em, x) == Cardinality(Places(em, x))
StoreHas(s, em) ==
  /\ DOMAIN s = StoreFields
  /\ Multimap(s.byKey) /\ Multimap(s.byHandle) /\ Multimap(s.byDomain) /\ Trie(s.inet4) /\ Trie(s.inet6)
  /\ \A x \in Object : IsFiniteSet(Places(em, x))
  /\ \A x \in Object : \A k : Count(At(s.byKey, k), x) = IF KeyIs(x, k) THEN Stored(em, x) ELSE 0
  /\ \A x \in Object : \A k : Count(At(s.byHandle, k), x) = IF HandleIs(x, k) THEN Stored(em, x) ELSE 0
  /\ \A x \in Object : \A k : Count(At(s.byDomain, k), x) = IF DomainIs(x, k) THEN Stored(em, x) ELSE 0
  /\ \A x \in Object : \A q : Count(ObjsAt(s.inet4, q), x) = IF FourIs(x, q) THEN Stored(em, x) ELSE 0
  /\ \A x \in Object : \A q : Count(ObjsAt(s.inet6, q), x) = IF SixIs(x, q) THEN Stored(em, x) ELSE 0

\* A new store has nothing.
LEMMA NewStoreHas ==
  ASSUME NEW em, \A f \in DOMAIN em : em[f] = <<>> PROVE StoreHas(NewStore, em)
<1>1. \A x : Places(em, x) = {}
  BY DEF Places
<1>2. \A x : IsFiniteSet(Places(em, x)) /\ Stored(em, x) = 0
  BY <1>1, FS_EmptySet DEF Stored
<1>3. /\ DOMAIN NewStore = StoreFields /\ NewStore.byKey = NoKeys /\ NewStore.byHandle = NoKeys
      /\ NewStore.byDomain = NoKeys /\ NewStore.inet4 = newNetTrie /\ NewStore.inet6 = newNetTrie
  BY DEF NewStore, StoreFields
<1>4. Multimap(NoKeys) /\ \A k : At(NoKeys, k) = <<>>
  BY DEF Multimap, NoKeys, At
<1>5. Trie(newNetTrie) /\ \A q : ObjsAt(newNetTrie, q) = <<>>
  <2>1. Root \in Prefix /\ Root.len = 0
    <3>1. 0 \in Address /\ 0 \in 0..W
      BY Pow2Steps, Pow2Positive DEF Address
    <3>2. QED
      BY <3>1, MaskedHolds DEF Root
  <2>2. Path(Root) = {Root}
    <3>1. Root.addr \in Address
      BY <2>1, PrefixParts
    <3>2. Path(Root) = {Masked(Root.addr, 0)}
      BY <2>1 DEF Path
    <3>3. Root \in Path(Root)
      BY <2>1, PathClosed
    <3>4. QED
      BY <3>2, <3>3
  <2>3. DOMAIN newNetTrie = {Root} /\ newNetTrie[Root] = <<>>
    BY DEF newNetTrie
  <2>4. QED
    BY <2>1, <2>2, <2>3, EmptySeq DEF Trie, ObjsAt
<1>6. QED
  BY <1>2, <1>3, <1>4, <1>5, CountEmpty DEF StoreHas

\* Insert keeps it.
LEMMA InsertHas ==
  ASSUME NEW F, NEW em, NEW f, NEW o, NEW em2, OneMore(F, em, f, o, em2), NEW s, StoreHas(s, em),
         NEW u, u = Insert(s, o, f)
  PROVE  StoreHas(u, em2)
<1>0. o \in Object
  BY DEF OneMore
<1>1. DOMAIN s = StoreFields
  BY DEF StoreHas
<1>2. /\ DOMAIN u = StoreFields
      /\ u.byKey = Appended(s.byKey, keyOf(o.class, normalizeKey(o.class, o.pk)), o)
      /\ u.byHandle = IF o.class \in {"person", "role"} /\ o.nicHdl # <<>>
                      THEN Appended(s.byHandle, handleKey(o), o) ELSE s.byHandle
      /\ u.byDomain = IF o.class = "domain" THEN Appended(s.byDomain, ToLower(TrimDot(o.pk)), o) ELSE s.byDomain
      /\ u.inet4 = IF o.class = "inetnum" THEN insertRange(s.inet4, o.pk, o)
                   ELSE IF o.class = "route" THEN insertPrefix(s.inet4, o.pk, o) ELSE s.inet4
      /\ u.inet6 = IF o.class \in {"inet6num", "route6"} THEN insertPrefix(s.inet6, o.pk, o) ELSE s.inet6
  BY <1>1, InsertFields
<1>3. ASSUME NEW x \in Object
      PROVE  /\ IsFiniteSet(Places(em2, x)) /\ Stored(em, x) \in Nat
             /\ Stored(em2, x) = Stored(em, x) + (IF x = o THEN 1 ELSE 0)
  <2>1. IsFiniteSet(Places(em, x))
    BY DEF StoreHas
  <2>2. Stored(em, x) \in Nat
    BY <2>1, FS_CardinalityType DEF Stored
  <2>3. /\ IsFiniteSet(Places(em2, x))
        /\ Cardinality(Places(em2, x)) = Cardinality(Places(em, x)) + (IF o = x THEN 1 ELSE 0)
    BY <2>1, OneMorePlace
  <2>4. QED
    BY <2>2, <2>3 DEF Stored
<1>4. o.pk \in Seq(Word)
  BY <1>0 DEF Object, Value
<1>5. Multimap(u.byKey) /\ \A x \in Object : \A k : Count(At(u.byKey, k), x) = IF KeyIs(x, k) THEN Stored(em2, x) ELSE 0
  <2>1. /\ Multimap(s.byKey)
        /\ \A x \in Object : \A k : Count(At(s.byKey, k), x) = IF KeyIs(x, k) THEN Stored(em, x) ELSE 0
    BY DEF StoreHas
  <2>2. /\ Multimap(u.byKey)
        /\ \A k : \A x : Count(At(u.byKey, k), x)
             = Count(At(s.byKey, k), x) + (IF k = keyOf(o.class, normalizeKey(o.class, o.pk)) /\ x = o THEN 1 ELSE 0)
    BY <1>0, <1>2, <2>1, AppendedCount
  <2>3. ASSUME NEW x \in Object, NEW k
        PROVE  Count(At(u.byKey, k), x) = IF KeyIs(x, k) THEN Stored(em2, x) ELSE 0
    <3>1. Count(At(u.byKey, k), x) = Count(At(s.byKey, k), x) + (IF KeyIs(o, k) /\ x = o THEN 1 ELSE 0)
      BY <2>2 DEF KeyIs
    <3>2. Count(At(s.byKey, k), x) = IF KeyIs(x, k) THEN Stored(em, x) ELSE 0
      BY <2>1
    <3>3. Stored(em, x) \in Nat /\ Stored(em2, x) = Stored(em, x) + (IF x = o THEN 1 ELSE 0)
      BY <1>3
    <3>4. QED
      BY <3>1, <3>2, <3>3
  <2>4. QED
    BY <2>2, <2>3
<1>6. /\ Multimap(u.byHandle)
      /\ \A x \in Object : \A k : Count(At(u.byHandle, k), x) = IF HandleIs(x, k) THEN Stored(em2, x) ELSE 0
  <2>1. /\ Multimap(s.byHandle)
        /\ \A x \in Object : \A k : Count(At(s.byHandle, k), x) = IF HandleIs(x, k) THEN Stored(em, x) ELSE 0
    BY DEF StoreHas
  <2>2. \A k : \A x : Count(At(s.byHandle, k), x) \in Nat
    BY <2>1, AtTyped, CountType
  <2>3. /\ Multimap(u.byHandle)
        /\ \A k : \A x \in Object : Count(At(u.byHandle, k), x)
             = Count(At(s.byHandle, k), x) + (IF HandleIs(o, k) /\ x = o THEN 1 ELSE 0)
    <3>1. CASE o.class \in {"person", "role"} /\ o.nicHdl # <<>>
      <4>1. u.byHandle = Appended(s.byHandle, handleKey(o), o)
        BY <1>2, <3>1
      <4>2. \A k : HandleIs(o, k) <=> k = handleKey(o)
        BY <3>1 DEF HandleIs
      <4>3. /\ Multimap(u.byHandle)
            /\ \A k : \A x : Count(At(u.byHandle, k), x)
                 = Count(At(s.byHandle, k), x) + (IF k = handleKey(o) /\ x = o THEN 1 ELSE 0)
        BY <1>0, <2>1, <4>1, AppendedCount
      <4>4. QED
        BY <4>2, <4>3
    <3>2. CASE ~(o.class \in {"person", "role"} /\ o.nicHdl # <<>>)
      <4>1. u.byHandle = s.byHandle
        BY <1>2, <3>2
      <4>2. \A k : ~HandleIs(o, k)
        BY <3>2 DEF HandleIs
      <4>3. QED
        BY <2>1, <2>2, <4>1, <4>2
    <3>3. QED
      BY <3>1, <3>2
  <2>4. ASSUME NEW x \in Object, NEW k
        PROVE  Count(At(u.byHandle, k), x) = IF HandleIs(x, k) THEN Stored(em2, x) ELSE 0
    <3>1. Count(At(u.byHandle, k), x) = Count(At(s.byHandle, k), x) + (IF HandleIs(o, k) /\ x = o THEN 1 ELSE 0)
      BY <2>3
    <3>2. Count(At(s.byHandle, k), x) = IF HandleIs(x, k) THEN Stored(em, x) ELSE 0
      BY <2>1
    <3>3. Stored(em, x) \in Nat /\ Stored(em2, x) = Stored(em, x) + (IF x = o THEN 1 ELSE 0)
      BY <1>3
    <3>4. QED
      BY <3>1, <3>2, <3>3
  <2>5. QED
    BY <2>3, <2>4
<1>7. /\ Multimap(u.byDomain)
      /\ \A x \in Object : \A k : Count(At(u.byDomain, k), x) = IF DomainIs(x, k) THEN Stored(em2, x) ELSE 0
  <2>1. /\ Multimap(s.byDomain)
        /\ \A x \in Object : \A k : Count(At(s.byDomain, k), x) = IF DomainIs(x, k) THEN Stored(em, x) ELSE 0
    BY DEF StoreHas
  <2>2. \A k : \A x : Count(At(s.byDomain, k), x) \in Nat
    BY <2>1, AtTyped, CountType
  <2>3. /\ Multimap(u.byDomain)
        /\ \A k : \A x \in Object : Count(At(u.byDomain, k), x)
             = Count(At(s.byDomain, k), x) + (IF DomainIs(o, k) /\ x = o THEN 1 ELSE 0)
    <3>1. CASE o.class = "domain"
      <4>1. u.byDomain = Appended(s.byDomain, ToLower(TrimDot(o.pk)), o)
        BY <1>2, <3>1
      <4>2. \A k : DomainIs(o, k) <=> k = ToLower(TrimDot(o.pk))
        BY <3>1 DEF DomainIs
      <4>3. /\ Multimap(u.byDomain)
            /\ \A k : \A x : Count(At(u.byDomain, k), x)
                 = Count(At(s.byDomain, k), x) + (IF k = ToLower(TrimDot(o.pk)) /\ x = o THEN 1 ELSE 0)
        BY <1>0, <2>1, <4>1, AppendedCount
      <4>4. QED
        BY <4>2, <4>3
    <3>2. CASE o.class # "domain"
      <4>1. u.byDomain = s.byDomain
        BY <1>2, <3>2
      <4>2. \A k : ~DomainIs(o, k)
        BY <3>2 DEF DomainIs
      <4>3. QED
        BY <2>1, <2>2, <4>1, <4>2
    <3>3. QED
      BY <3>1, <3>2
  <2>4. ASSUME NEW x \in Object, NEW k
        PROVE  Count(At(u.byDomain, k), x) = IF DomainIs(x, k) THEN Stored(em2, x) ELSE 0
    <3>1. Count(At(u.byDomain, k), x) = Count(At(s.byDomain, k), x) + (IF DomainIs(o, k) /\ x = o THEN 1 ELSE 0)
      BY <2>3
    <3>2. Count(At(s.byDomain, k), x) = IF DomainIs(x, k) THEN Stored(em, x) ELSE 0
      BY <2>1
    <3>3. Stored(em, x) \in Nat /\ Stored(em2, x) = Stored(em, x) + (IF x = o THEN 1 ELSE 0)
      BY <1>3
    <3>4. QED
      BY <3>1, <3>2, <3>3
  <2>5. QED
    BY <2>3, <2>4
<1>8. /\ Trie(u.inet4)
      /\ \A x \in Object : \A q : Count(ObjsAt(u.inet4, q), x) = IF FourIs(x, q) THEN Stored(em2, x) ELSE 0
  <2>1. /\ Trie(s.inet4)
        /\ \A x \in Object : \A q : Count(ObjsAt(s.inet4, q), x) = IF FourIs(x, q) THEN Stored(em, x) ELSE 0
    BY DEF StoreHas
  <2>2. \A q : \A x : Count(ObjsAt(s.inet4, q), x) \in Nat
    BY <2>1, NodeTyped, CountType
  <2>3. /\ Trie(u.inet4)
        /\ \A q : \A x \in Object : Count(ObjsAt(u.inet4, q), x)
             = Count(ObjsAt(s.inet4, q), x) + (IF FourIs(o, q) /\ x = o THEN 1 ELSE 0)
    <3>1. CASE o.class = "inetnum"
      <4>1. u.inet4 = insertRange(s.inet4, o.pk, o)
        BY <1>2, <3>1
      <4>2. \A q : FourIs(o, q) <=> RangeAt(o.pk, q)
        BY <3>1 DEF FourIs, FiledAt, NetClasses
      <4>3. /\ Trie(u.inet4)
            /\ \A q : \A x : Count(ObjsAt(u.inet4, q), x)
                 = Count(ObjsAt(s.inet4, q), x) + (IF RangeAt(o.pk, q) /\ x = o THEN 1 ELSE 0)
        BY <1>0, <1>4, <2>1, <4>1, RangeFiled
      <4>4. QED
        BY <4>2, <4>3
    <3>2. CASE o.class = "route"
      <4>1. u.inet4 = insertPrefix(s.inet4, o.pk, o)
        BY <1>2, <3>2
      <4>2. \A q : FourIs(o, q) <=> NetAt(o.pk, q)
        BY <3>2 DEF FourIs, FiledAt, NetClasses
      <4>3. /\ Trie(u.inet4)
            /\ \A q : \A x : Count(ObjsAt(u.inet4, q), x)
                 = Count(ObjsAt(s.inet4, q), x) + (IF NetAt(o.pk, q) /\ x = o THEN 1 ELSE 0)
        BY <1>0, <1>4, <2>1, <4>1, NetFiled
      <4>4. QED
        BY <4>2, <4>3
    <3>3. CASE o.class # "inetnum" /\ o.class # "route"
      <4>1. u.inet4 = s.inet4
        BY <1>2, <3>3
      <4>2. \A q : ~FourIs(o, q)
        BY <3>3 DEF FourIs
      <4>3. QED
        BY <2>1, <2>2, <4>1, <4>2
    <3>4. QED
      BY <3>1, <3>2, <3>3
  <2>4. ASSUME NEW x \in Object, NEW q
        PROVE  Count(ObjsAt(u.inet4, q), x) = IF FourIs(x, q) THEN Stored(em2, x) ELSE 0
    <3>1. Count(ObjsAt(u.inet4, q), x) = Count(ObjsAt(s.inet4, q), x) + (IF FourIs(o, q) /\ x = o THEN 1 ELSE 0)
      BY <2>3
    <3>2. Count(ObjsAt(s.inet4, q), x) = IF FourIs(x, q) THEN Stored(em, x) ELSE 0
      BY <2>1
    <3>3. Stored(em, x) \in Nat /\ Stored(em2, x) = Stored(em, x) + (IF x = o THEN 1 ELSE 0)
      BY <1>3
    <3>4. QED
      BY <3>1, <3>2, <3>3
  <2>5. QED
    BY <2>3, <2>4
<1>9. /\ Trie(u.inet6)
      /\ \A x \in Object : \A q : Count(ObjsAt(u.inet6, q), x) = IF SixIs(x, q) THEN Stored(em2, x) ELSE 0
  <2>1. /\ Trie(s.inet6)
        /\ \A x \in Object : \A q : Count(ObjsAt(s.inet6, q), x) = IF SixIs(x, q) THEN Stored(em, x) ELSE 0
    BY DEF StoreHas
  <2>2. \A q : \A x : Count(ObjsAt(s.inet6, q), x) \in Nat
    BY <2>1, NodeTyped, CountType
  <2>3. /\ Trie(u.inet6)
        /\ \A q : \A x \in Object : Count(ObjsAt(u.inet6, q), x)
             = Count(ObjsAt(s.inet6, q), x) + (IF SixIs(o, q) /\ x = o THEN 1 ELSE 0)
    <3>1. CASE o.class \in {"inet6num", "route6"}
      <4>1. u.inet6 = insertPrefix(s.inet6, o.pk, o)
        BY <1>2, <3>1
      <4>2. \A q : SixIs(o, q) <=> NetAt(o.pk, q)
        BY <3>1 DEF SixIs, FiledAt, NetClasses
      <4>3. /\ Trie(u.inet6)
            /\ \A q : \A x : Count(ObjsAt(u.inet6, q), x)
                 = Count(ObjsAt(s.inet6, q), x) + (IF NetAt(o.pk, q) /\ x = o THEN 1 ELSE 0)
        BY <1>0, <1>4, <2>1, <4>1, NetFiled
      <4>4. QED
        BY <4>2, <4>3
    <3>2. CASE o.class \notin {"inet6num", "route6"}
      <4>1. u.inet6 = s.inet6
        BY <1>2, <3>2
      <4>2. \A q : ~SixIs(o, q)
        BY <3>2 DEF SixIs
      <4>3. QED
        BY <2>1, <2>2, <4>1, <4>2
    <3>3. QED
      BY <3>1, <3>2
  <2>4. ASSUME NEW x \in Object, NEW q
        PROVE  Count(ObjsAt(u.inet6, q), x) = IF SixIs(x, q) THEN Stored(em2, x) ELSE 0
    <3>1. Count(ObjsAt(u.inet6, q), x) = Count(ObjsAt(s.inet6, q), x) + (IF SixIs(o, q) /\ x = o THEN 1 ELSE 0)
      BY <2>3
    <3>2. Count(ObjsAt(s.inet6, q), x) = IF SixIs(x, q) THEN Stored(em, x) ELSE 0
      BY <2>1
    <3>3. Stored(em, x) \in Nat /\ Stored(em2, x) = Stored(em, x) + (IF x = o THEN 1 ELSE 0)
      BY <1>3
    <3>4. QED
      BY <3>1, <3>2, <3>3
  <2>5. QED
    BY <2>3, <2>4
<1>10. QED
  BY <1>2, <1>3, <1>5, <1>6, <1>7, <1>8, <1>9 DEF StoreHas

-----------------------------------------------------------------------------
(* Names in upper and lower case. *)

\* The parts of a word.
LEMMA WordParts ==
  ASSUME NEW w \in Word
  PROVE  w = [form |-> w.form, id |-> w.id, case |-> w.case, addr |-> w.addr, len |-> w.len]
<1>1. CASE w \in {Dash, Break}
  BY <1>1 DEF Dash, Break, Named
<1>2. CASE w \notin {Dash, Break}
  BY <1>2 DEF Word
<1>3. QED
  BY <1>1, <1>2

Respelt(w, c) == IF w.case = "none" THEN w ELSE [w EXCEPT !.case = c]
SameButCase(w, u) ==
  w.form = u.form /\ w.id = u.id /\ w.addr = u.addr /\ w.len = u.len /\ (w.case = "none" <=> u.case = "none")

\* Words that are spelt alike differ in case only.
LEMMA RespeltSame ==
  ASSUME NEW w \in Word, NEW u \in Word, NEW c, c # "none"
  PROVE  Respelt(w, c) = Respelt(u, c) <=> SameButCase(w, u)
<1>1. /\ w = [form |-> w.form, id |-> w.id, case |-> w.case, addr |-> w.addr, len |-> w.len]
      /\ u = [form |-> u.form, id |-> u.id, case |-> u.case, addr |-> u.addr, len |-> u.len]
  BY WordParts
<1>2. /\ w.case # "none" => Respelt(w, c) = [form |-> w.form, id |-> w.id, case |-> c, addr |-> w.addr, len |-> w.len]
      /\ w.case = "none" => Respelt(w, c) = [form |-> w.form, id |-> w.id, case |-> "none", addr |-> w.addr, len |-> w.len]
  BY <1>1 DEF Respelt
<1>3. /\ u.case # "none" => Respelt(u, c) = [form |-> u.form, id |-> u.id, case |-> c, addr |-> u.addr, len |-> u.len]
      /\ u.case = "none" => Respelt(u, c) = [form |-> u.form, id |-> u.id, case |-> "none", addr |-> u.addr, len |-> u.len]
  BY <1>1 DEF Respelt
<1>4. CASE w.case = "none" /\ u.case = "none"
  BY <1>2, <1>3, <1>4 DEF SameButCase
<1>5. CASE w.case = "none" /\ u.case # "none"
  BY <1>2, <1>3, <1>5 DEF SameButCase
<1>6. CASE w.case # "none" /\ u.case = "none"
  BY <1>2, <1>3, <1>6 DEF SameButCase
<1>7. CASE w.case # "none" /\ u.case # "none"
  BY <1>2, <1>3, <1>7 DEF SameButCase
<1>8. QED
  BY <1>4, <1>5, <1>6, <1>7

SameButCases(a, b) == DOMAIN a = DOMAIN b /\ \A i \in DOMAIN a : SameButCase(a[i], b[i])

\* Names that are spelt alike.
LEMMA SpeltSame ==
  ASSUME NEW a \in Seq(Word), NEW b \in Seq(Word), NEW c, c # "none"
  PROVE  Spelt(a, c) = Spelt(b, c) <=> SameButCases(a, b)
<1>1. Spelt(a, c) = [i \in DOMAIN a |-> Respelt(a[i], c)] /\ Spelt(b, c) = [i \in DOMAIN b |-> Respelt(b[i], c)]
  BY DEF Spelt, Respelt
<1>2. \A i \in DOMAIN a : a[i] \in Word
  OBVIOUS
<1>3. \A i \in DOMAIN b : b[i] \in Word
  OBVIOUS
<1>4. ASSUME Spelt(a, c) = Spelt(b, c) PROVE SameButCases(a, b)
  <2>1. DOMAIN a = DOMAIN b
    BY <1>1, <1>4
  <2>2. ASSUME NEW i \in DOMAIN a PROVE SameButCase(a[i], b[i])
    <3>1. Respelt(a[i], c) = Respelt(b[i], c)
      BY <1>1, <1>4, <2>1
    <3>2. QED
      BY <1>2, <1>3, <2>1, <3>1, RespeltSame
  <2>3. QED
    BY <2>1, <2>2 DEF SameButCases
<1>5. ASSUME SameButCases(a, b) PROVE Spelt(a, c) = Spelt(b, c)
  <2>1. DOMAIN a = DOMAIN b
    BY <1>5 DEF SameButCases
  <2>2. \A i \in DOMAIN a : Respelt(a[i], c) = Respelt(b[i], c)
    BY <1>2, <1>3, <1>5, <2>1, RespeltSame DEF SameButCases
  <2>3. QED
    BY <1>1, <2>1, <2>2
<1>6. QED
  BY <1>4, <1>5

\* It makes no difference to which case names are folded.
LEMMA EitherCase ==
  ASSUME NEW a \in Seq(Word), NEW b \in Seq(Word)
  PROVE  ToUpper(a) = ToUpper(b) <=> ToLower(a) = ToLower(b)
<1>1. Spelt(a, "upper") = Spelt(b, "upper") <=> SameButCases(a, b)
  BY SpeltSame
<1>2. Spelt(a, "lower") = Spelt(b, "lower") <=> SameButCases(a, b)
  BY SpeltSame
<1>3. QED
  BY <1>1, <1>2 DEF ToUpper, ToLower

\* A name without its final dot is a name.
LEMMA TrimDotTyped ==
  ASSUME NEW v \in Seq(Word) PROVE TrimDot(v) \in Seq(Word)
<1>1. ASSUME NEW w \in Word, w.form = "fqdn" PROVE [w EXCEPT !.form = "domain"] \in Word
  <2>1. w \notin {Dash, Break}
    BY <1>1 DEF Dash, Break, Named
  <2>2. QED
    BY <1>1, <2>1 DEF Word
<1>2. DOMAIN v = 1..Len(v) /\ Len(v) \in Nat /\ \A i \in DOMAIN v : v[i] \in Word
  OBVIOUS
<1>3. TrimDot(v) \in [1..Len(v) -> Word]
  BY <1>1, <1>2 DEF TrimDot
<1>4. QED
  BY <1>2, <1>3

\* A name without white space around it.
LEMMA TrimmedAlready ==
  ASSUME NEW v \in Seq(Word), v # <<>>, v[1] # Break, v[Len(v)] # Break PROVE TrimSpace(v) = v
<1> DEFINE S == Solid(v)
<1>1. DOMAIN v = 1..Len(v) /\ Len(v) \in Nat /\ Len(v) >= 1
  OBVIOUS
<1>2. 1 \in S /\ Len(v) \in S /\ S \subseteq 1..Len(v)
  BY <1>1 DEF Solid
<1>3. /\ TrimSpace(v) = IF S = {} THEN <<>> ELSE SubSeq(v, Min(S), Max(S))
      /\ S # {} => Min(S) \in S /\ Max(S) \in S /\ \A y \in S : Min(S) <= y /\ y <= Max(S)
  BY TrimTyped
<1> HIDE DEF S
<1>4. S # {}
  BY <1>2
<1>5. Min(S) = 1 /\ Max(S) = Len(v)
  <2>1. Min(S) \in S /\ Max(S) \in S /\ \A y \in S : Min(S) <= y /\ y <= Max(S)
    BY <1>3, <1>4
  <2> DEFINE m == Min(S)
             n == Max(S)
             N == Len(v)
  <2>2. m \in 1..N /\ n \in 1..N /\ m <= 1 /\ N <= n /\ N \in Nat
    BY <1>1, <1>2, <2>1
  <2> HIDE DEF m, n, N
  <2>3. m = 1 /\ n = N
    BY <2>2
  <2>4. QED
    BY <2>3 DEF m, n, N
<1>6. TrimSpace(v) = SubSeq(v, 1, Len(v))
  BY <1>3, <1>4, <1>5
<1>7. QED
  BY <1>6, SubSeqFull

-----------------------------------------------------------------------------
(* What a store finds. *)

\* The emitted objects are those with a place.
LEMMA StoredIs ==
  ASSUME NEW F, NEW em \in [F -> Seq(Object)], NEW x, IsFiniteSet(Places(em, x))
  PROVE  Stored(em, x) \in Nat /\ (Stored(em, x) # 0 <=> \E f \in F : x \in ToSet(em[f]))
<1> DEFINE P == Places(em, x)
<1>1. DOMAIN em = F
  OBVIOUS
<1>2. P # {} <=> \E f \in F : x \in ToSet(em[f])
  <2>1. ASSUME NEW f \in F, NEW k \in DOMAIN em[f], em[f][k] = x PROVE <<f, k>> \in P
    BY <1>1, <2>1 DEF Places
  <2>2. ASSUME NEW e \in P PROVE \E f \in F : \E k \in DOMAIN em[f] : em[f][k] = x
    BY <1>1 DEF Places
  <2> HIDE DEF P
  <2>3. QED
    BY <2>1, <2>2 DEF ToSet
<1> HIDE DEF P
<1>3. Cardinality(P) \in Nat /\ (Cardinality(P) = 0 <=> P = {})
  BY FS_CardinalityType, FS_EmptySet DEF P
<1>4. QED
  BY <1>2, <1>3 DEF P, Stored

\* An address finds the objects of its family around it.
LEMMA AddressFound ==
  ASSUME NEW em, NEW s, StoreHas(s, em), NEW w \in Word, w.form \in {"addr", "prefix"}, NEW x \in Object
  PROVE  /\ lookupAddr(s, w) \in Seq(Object)
         /\ Count(lookupAddr(s, w), x) = IF Family(x) = w.id /\ w.addr \in Extent(x) THEN Stored(em, x) ELSE 0
<1> DEFINE t == IF w.id = "4" THEN s.inet4 ELSE s.inet6
           a == w.addr
           Is(q) == IF w.id = "4" THEN FourIs(x, q) ELSE SixIs(x, q)
<1>1. w.id \in {"4", "6"} /\ a \in Address
  <2>1. w \notin {Dash, Break}
    BY DEF Dash, Break, Named
  <2>2. QED
    BY <2>1 DEF Word
<1>2. lookupAddr(s, w) = lookup(t, a)
  BY DEF lookupAddr
<1>3. Trie(t) /\ \A q : Count(ObjsAt(t, q), x) = IF Is(q) THEN Stored(em, x) ELSE 0
  BY DEF StoreHas
<1>4. \A q : Is(q) <=> Family(x) = w.id /\ FiledAt(x, q)
  BY <1>1 DEF FourIs, SixIs, Family
<1> HIDE DEF t, a, Is
<1>5. /\ lookup(t, a) \in Seq(Object)
      /\ \A e \in 0..W :
           (\A d \in 0..W : d # e => Count(ObjsAt(t, Masked(a, d)), x) = 0)
             => Count(lookup(t, a), x) = Count(ObjsAt(t, Masked(a, e)), x)
  BY <1>1, <1>3, LookupTrie
<1>6. CASE Family(x) = w.id /\ a \in Extent(x)
  <2>1. PICK e \in 0..W : \A d \in 0..W : FiledAt(x, Masked(a, d)) <=> d = e
    BY <1>1, <1>6, OneBlock
  <2>2. Count(ObjsAt(t, Masked(a, e)), x) = Stored(em, x)
    BY <1>3, <1>4, <1>6, <2>1
  <2>3. \A d \in 0..W : d # e => Count(ObjsAt(t, Masked(a, d)), x) = 0
    BY <1>3, <1>4, <1>6, <2>1
  <2>4. QED
    BY <1>2, <1>5, <1>6, <2>2, <2>3 DEF a
<1>7. CASE ~(Family(x) = w.id /\ a \in Extent(x))
  <2>1. \A d \in 0..W : ~Is(Masked(a, d))
    BY <1>1, <1>4, <1>7, OneBlock
  <2>2. 0 \in 0..W
    BY Pow2Steps
  <2>3. \A d \in 0..W : Count(ObjsAt(t, Masked(a, d)), x) = 0
    BY <1>3, <2>1
  <2>4. QED
    BY <1>2, <1>5, <1>7, <2>2, <2>3 DEF a
<1>8. QED
  BY <1>6, <1>7

\* The classes that Lookup asks for by key.
LEMMA KeyClassIs ==
  ASSUME NEW k \in Asks, k > 4
  PROVE  \/ KeyClasses[k - 4] \in UpperClasses /\ KeyClasses[k - 4] \notin {"person", "role"}
         \/ KeyClasses[k - 4] \notin UpperClasses /\ KeyClasses[k - 4] \in {"person", "role"}
<1>1. k - 4 \in {1, 2, 3, 4, 5, 6, 7, 8, 9, 10, 11, 12}
  BY DEF Asks
<1>2. QED
  BY <1>1 DEF KeyClasses, UpperClasses

\* A name finds in each index the objects that answer to it there.
LEMMA NameFound ==
  ASSUME NEW em, NEW s, StoreHas(s, em), NEW q \in Seq(Word), q # <<>>, TrimSpace(q) = q, NEW k \in Asks,
         NEW x \in Object
  PROVE  /\ Candidate(s, q, k) \in Seq(Object)
         /\ Count(Candidate(s, q, k), x) = IF AnswersAs(x, q, k) THEN Stored(em, x) ELSE 0
<1> DEFINE key == normalizeKey(x.class, x.pk)
           c == Candidate(s, q, k)
<1>1. x.pk \in Seq(Word) /\ x.nicHdl \in Seq(Word)
  BY DEF Object, Value
<1>2. \A n : At(s.byKey, n) \in Seq(Object) /\ At(s.byHandle, n) \in Seq(Object) /\ At(s.byDomain, n) \in Seq(Object)
  BY AtTyped DEF StoreHas
<1>3. ASSUME NEW class, NEW pk
      PROVE  Count(At(s.byKey, keyOf(class, pk)), x) = IF class = x.class /\ pk = key THEN Stored(em, x) ELSE 0
  <2>1. keyOf(class, pk) = keyOf(x.class, key) <=> class = x.class /\ pk = key
    BY DEF keyOf
  <2>2. KeyIs(x, keyOf(class, pk)) <=> class = x.class /\ pk = key
    BY <2>1 DEF KeyIs
  <2>3. Count(At(s.byKey, keyOf(class, pk)), x) = IF KeyIs(x, keyOf(class, pk)) THEN Stored(em, x) ELSE 0
    BY DEF StoreHas
  <2> HIDE DEF key
  <2>4. QED
    BY <2>2, <2>3
<1>4. x.class \in UpperClasses => key = ToUpper(TrimSpace(x.pk))
  BY DEF normalizeKey, UpperClasses
<1>5. x.class \in {"person", "role"} => key = TrimSpace(x.pk)
  BY DEF normalizeKey, UpperClasses
<1> HIDE DEF key
<1>6. <<>> \in Seq(Object) /\ Count(<<>>, x) = 0
  BY EmptySeq, CountEmpty
<1>7. CASE k = 1
  <2>1. c = IF q[1].form = "as" THEN At(s.byKey, keyOf("aut-num", ToUpper(q))) ELSE <<>>
    BY <1>7 DEF Candidate
  <2>2. AnswersAs(x, q, k) <=> x.class = "aut-num" /\ ToUpper(TrimSpace(x.pk)) = ToUpper(q) /\ q[1].form = "as"
    BY <1>7 DEF AnswersAs, SameName
  <2>3. "aut-num" \in UpperClasses
    BY DEF UpperClasses
  <2> HIDE DEF c
  <2>4. c \in Seq(Object) /\ Count(c, x) = IF AnswersAs(x, q, k) THEN Stored(em, x) ELSE 0
    BY <1>2, <1>3, <1>4, <1>6, <2>1, <2>2, <2>3
  <2>5. QED
    BY <2>4 DEF c
<1>8. CASE k = 2
  <2>1. c = IF q[1].form = "as" THEN At(s.byKey, keyOf("as-block", ToUpper(q))) ELSE <<>>
    BY <1>8 DEF Candidate
  <2>2. AnswersAs(x, q, k) <=> x.class = "as-block" /\ ToUpper(TrimSpace(x.pk)) = ToUpper(q) /\ q[1].form = "as"
    BY <1>8 DEF AnswersAs, SameName
  <2>3. "as-block" \in UpperClasses
    BY DEF UpperClasses
  <2> HIDE DEF c
  <2>4. c \in Seq(Object) /\ Count(c, x) = IF AnswersAs(x, q, k) THEN Stored(em, x) ELSE 0
    BY <1>2, <1>3, <1>4, <1>6, <2>1, <2>2, <2>3
  <2>5. QED
    BY <2>4 DEF c
<1>9. CASE k = 3
  <2>1. c = IF isNicHandle(q) THEN At(s.byHandle, ToUpper(q)) ELSE <<>>
    BY <1>9 DEF Candidate
  <2>2. AnswersAs(x, q, k) <=> x.class \in {"person", "role"} /\ ToUpper(x.nicHdl) = ToUpper(q) /\ isNicHandle(q)
    BY <1>9 DEF AnswersAs, SameName
  <2>3. Count(At(s.byHandle, ToUpper(q)), x) = IF HandleIs(x, ToUpper(q)) THEN Stored(em, x) ELSE 0
    BY DEF StoreHas
  <2>4. ToUpper(x.nicHdl) = ToUpper(q) => x.nicHdl # <<>>
    <3>1. DOMAIN ToUpper(q) = DOMAIN q /\ DOMAIN ToUpper(x.nicHdl) = DOMAIN x.nicHdl
      BY DEF ToUpper, Spelt
    <3>2. DOMAIN q = 1..Len(q) /\ Len(q) >= 1 /\ Len(q) \in Nat
      OBVIOUS
    <3>3. 1 \in DOMAIN q
      BY <3>2
    <3>4. 1 \notin DOMAIN <<>>
      OBVIOUS
    <3>5. QED
      BY <3>1, <3>3, <3>4
  <2>5. HandleIs(x, ToUpper(q)) <=> x.class \in {"person", "role"} /\ ToUpper(x.nicHdl) = ToUpper(q)
    BY <2>4 DEF HandleIs, handleKey
  <2> HIDE DEF c
  <2>6. c \in Seq(Object) /\ Count(c, x) = IF AnswersAs(x, q, k) THEN Stored(em, x) ELSE 0
    BY <1>2, <1>6, <2>1, <2>2, <2>3, <2>5
  <2>7. QED
    BY <2>6 DEF c
<1>10. CASE k = 4
  <2>1. c = IF hasDot(q) THEN At(s.byDomain, ToLower(q)) ELSE <<>>
    BY <1>10 DEF Candidate
  <2>2. AnswersAs(x, q, k) <=> x.class = "domain" /\ ToUpper(TrimDot(x.pk)) = ToUpper(q) /\ hasDot(q)
    BY <1>10 DEF AnswersAs, SameName
  <2>3. Count(At(s.byDomain, ToLower(q)), x) = IF DomainIs(x, ToLower(q)) THEN Stored(em, x) ELSE 0
    BY DEF StoreHas
  <2>4. ToUpper(TrimDot(x.pk)) = ToUpper(q) <=> ToLower(TrimDot(x.pk)) = ToLower(q)
    BY <1>1, TrimDotTyped, EitherCase
  <2>5. DomainIs(x, ToLower(q)) <=> x.class = "domain" /\ ToLower(TrimDot(x.pk)) = ToLower(q)
    BY DEF DomainIs
  <2> HIDE DEF c
  <2>6. c \in Seq(Object) /\ Count(c, x) = IF AnswersAs(x, q, k) THEN Stored(em, x) ELSE 0
    BY <1>2, <1>6, <2>1, <2>2, <2>3, <2>4, <2>5
  <2>7. QED
    BY <2>6 DEF c
<1>11. CASE k > 4
  <2> DEFINE class == KeyClasses[k - 4]
  <2>0. k # 1 /\ k # 2 /\ k # 3 /\ k # 4
    BY <1>11 DEF Asks
  <2>1. c = At(s.byKey, keyOf(class, normalizeKey(class, q)))
    BY <2>0 DEF Candidate
  <2>2. AnswersAs(x, q, k)
          <=> /\ x.class = class
              /\ IF x.class \in {"person", "role"} THEN TrimSpace(x.pk) = q ELSE ToUpper(TrimSpace(x.pk)) = ToUpper(q)
    BY <2>0 DEF AnswersAs, SameName
  <2>3. \/ class \in UpperClasses /\ class \notin {"person", "role"}
        \/ class \notin UpperClasses /\ class \in {"person", "role"}
    BY <1>11, KeyClassIs
  <2> HIDE DEF class, c
  <2>4. CASE class \in UpperClasses /\ class \notin {"person", "role"}
    <3>1. normalizeKey(class, q) = ToUpper(q)
      BY <2>4 DEF normalizeKey, UpperClasses
    <3>2. Count(c, x) = IF class = x.class /\ ToUpper(q) = key THEN Stored(em, x) ELSE 0
      BY <1>3, <2>1, <3>1
    <3>3. AnswersAs(x, q, k) <=> class = x.class /\ ToUpper(q) = key
      BY <1>4, <2>2, <2>4
    <3>4. c \in Seq(Object) /\ Count(c, x) = IF AnswersAs(x, q, k) THEN Stored(em, x) ELSE 0
      BY <1>2, <2>1, <3>2, <3>3
    <3>5. QED
      BY <3>4 DEF c
  <2>5. CASE class \notin UpperClasses /\ class \in {"person", "role"}
    <3>1. normalizeKey(class, q) = q
      BY <2>5 DEF normalizeKey
    <3>2. Count(c, x) = IF class = x.class /\ q = key THEN Stored(em, x) ELSE 0
      BY <1>3, <2>1, <3>1
    <3>3. AnswersAs(x, q, k) <=> class = x.class /\ q = key
      BY <1>5, <2>2, <2>5
    <3>4. c \in Seq(Object) /\ Count(c, x) = IF AnswersAs(x, q, k) THEN Stored(em, x) ELSE 0
      BY <1>2, <2>1, <3>2, <3>3
    <3>5. QED
      BY <3>4 DEF c
  <2>6. QED
    BY <2>3, <2>4, <2>5
<1>12. k \in 1..16
  BY DEF Asks
<1>13. QED
  BY <1>7, <1>8, <1>9, <1>10, <1>11, <1>12

\* Lookup finds what it ought to find.
LEMMA LookupFound ==
  ASSUME emitted \in [Files -> Seq(Object)], NEW s, StoreHas(s, emitted),
         NEW q \in Seq(Word), q # <<>>, TrimSpace(q) = q
  PROVE  /\ Lookup(s, q) \in Seq(Object)
         /\ \A x \in Object : Count(Lookup(s, q), x) = IF x \in Wanted(q) THEN Times(x) ELSE 0
<1>1. \A x : Times(x) = Stored(emitted, x)
  <2>1. DOMAIN emitted = Files
    OBVIOUS
  <2>2. QED
    BY <2>1 DEF Times, Stored, Places
<1>2. \A x \in Object : Times(x) \in Nat /\ (Times(x) # 0 <=> x \in Indexed)
  <2>1. ASSUME NEW x \in Object PROVE Times(x) \in Nat /\ (Times(x) # 0 <=> \E f \in Files : x \in ToSet(emitted[f]))
    <3>1. IsFiniteSet(Places(emitted, x))
      BY DEF StoreHas
    <3>2. QED
      BY <1>1, <3>1, StoredIs
  <2>2. QED
    BY <2>1 DEF Indexed
<1>3. CASE isAddress(q)
  <2> DEFINE w == q[1]
  <2>1. w \in Word /\ w.form \in {"addr", "prefix"}
    BY <1>3 DEF isAddress
  <2>2. Lookup(s, q) = lookupAddr(s, w)
    BY <1>3 DEF Lookup
  <2>3. Wanted(q) = {x \in Indexed : Family(x) = w.id /\ w.addr \in Extent(x)}
    BY <1>3 DEF Wanted, Around
  <2> HIDE DEF w
  <2>4. ASSUME NEW x \in Object
        PROVE  /\ lookupAddr(s, w) \in Seq(Object)
               /\ Count(lookupAddr(s, w), x) = IF Family(x) = w.id /\ w.addr \in Extent(x) THEN Times(x) ELSE 0
    BY <1>1, <2>1, AddressFound
  <2>5. lookupAddr(s, w) \in Seq(Object)
    <3>1. lookupAddr(s, w) = lookup(IF w.id = "4" THEN s.inet4 ELSE s.inet6, w.addr)
      BY DEF lookupAddr
    <3>2. w.addr \in Address
      <4>1. w \notin {Dash, Break}
        BY <2>1 DEF Dash, Break, Named
      <4>2. QED
        BY <2>1, <4>1 DEF Word
    <3>3. Trie(s.inet4) /\ Trie(s.inet6)
      BY DEF StoreHas
    <3>4. QED
      BY <3>1, <3>2, <3>3, LookupTrie
  <2>6. QED
    BY <1>2, <2>2, <2>3, <2>4, <2>5
<1>4. CASE ~isAddress(q)
  <2> DEFINE c(k) == Candidate(s, q, k)
             named(k) == {x \in Indexed : AnswersAs(x, q, k)}
             hits == {k \in Asks : c(k) # <<>>}
             kinds == {k \in Asks : named(k) # {}}
  <2>1. Lookup(s, q) = IF hits = {} THEN <<>> ELSE c(Min(hits))
    BY <1>4 DEF Lookup
  <2>2. Wanted(q) = IF kinds = {} THEN {} ELSE named(Min(kinds))
    BY <1>4 DEF Wanted
  <2>3. \A k \in Asks : \A x \in Object :
          c(k) \in Seq(Object) /\ Count(c(k), x) = IF AnswersAs(x, q, k) THEN Times(x) ELSE 0
    BY <1>1, NameFound
  <2>4. Indexed \subseteq Object
    <3>1. \A f \in Files : emitted[f] \in Seq(Object)
      OBVIOUS
    <3>2. \A f \in Files : ToSet(emitted[f]) \subseteq Object
      BY <3>1 DEF ToSet
    <3>3. QED
      BY <3>2 DEF Indexed
  <2>5. \A k \in Asks : c(k) \in Seq(Object)
    <3>1. \A n : At(s.byKey, n) \in Seq(Object) /\ At(s.byHandle, n) \in Seq(Object) /\ At(s.byDomain, n) \in Seq(Object)
      BY AtTyped DEF StoreHas
    <3>2. <<>> \in Seq(Object)
      BY EmptySeq
    <3>3. QED
      BY <3>1, <3>2 DEF Candidate
  <2>6. \A k : \A x : x \in named(k) <=> x \in Indexed /\ AnswersAs(x, q, k)
    OBVIOUS
  <2> HIDE DEF c, named
  <2>7. ASSUME NEW k \in Asks PROVE c(k) # <<>> <=> named(k) # {}
    <3>1. ASSUME c(k) # <<>> PROVE \E x : x \in named(k)
      <4>1. 1 \in DOMAIN c(k) /\ c(k)[1] \in Object
        BY <2>5, <3>1
      <4>2. c(k)[1] \in ToSet(c(k))
        BY <4>1 DEF ToSet
      <4>3. Count(c(k), c(k)[1]) # 0
        BY <2>5, <4>2, CountType
      <4>4. c(k)[1] \in named(k)
        BY <1>2, <2>3, <2>6, <4>1, <4>3
      <4>5. QED
        BY <4>4
    <3>2. ASSUME NEW x \in named(k) PROVE c(k) # <<>>
      <4>1. x \in Object /\ x \in Indexed /\ AnswersAs(x, q, k)
        BY <2>4, <2>6
      <4>2. Count(c(k), x) # 0
        BY <1>2, <2>3, <4>1
      <4>3. QED
        BY <4>2, CountEmpty
    <3>3. QED
      BY <3>1, <3>2
  <2>8. hits = kinds
    BY <2>7
  <2>9. CASE hits = {}
    BY <2>1, <2>2, <2>8, <2>9, EmptySeq, CountEmpty
  <2>10. CASE hits # {}
    <3> DEFINE m == Min(hits)
    <3>1. hits \in SUBSET Nat /\ hits \subseteq Asks
      BY DEF Asks
    <3>2. m \in Asks
      <4>1. m \in hits
        <5> HIDE DEF hits
        <5>1. QED
          BY <2>10, <3>1, MinOfNat
      <4>2. QED
        BY <3>1, <4>1
    <3>3. Lookup(s, q) = c(m) /\ Wanted(q) = named(m)
      BY <2>1, <2>2, <2>8, <2>10
    <3> HIDE DEF m, hits, kinds
    <3>4. QED
      BY <1>2, <2>3, <2>5, <2>6, <3>2, <3>3
  <2>11. QED
    BY <2>9, <2>10
<1>5. QED
  BY <1>3, <1>4

\* The query of a line has no white space around it.
LEMMA QueryTyped ==
  ASSUME NEW line \in Seq(Token), NEW q, q = parseQuery(line).query, q # <<>>
  PROVE  q \in Seq(Word) /\ TrimSpace(q) = q
<1> DEFINE S == Word \ {Break}
           seqs == [i \in DOMAIN line |-> line[i].word]
<1>1. q = FlattenSeq(seqs)
  BY DEF parseQuery
<1>2. DOMAIN line = 1..Len(line) /\ Len(line) \in Nat /\ \A i \in 1..Len(line) : line[i] \in Token
  OBVIOUS
<1>3. ASSUME NEW t \in Token PROVE t.word \in Seq(S)
  <2>1. t.word \in Seq(Word) /\ \A i \in DOMAIN t.word : t.word[i] # Break
    BY DEF Token, Value
  <2>2. DOMAIN t.word = 1..Len(t.word) /\ Len(t.word) \in Nat
    BY <2>1
  <2>3. \A i \in 1..Len(t.word) : t.word[i] \in S
    BY <2>1, <2>2
  <2> HIDE DEF S
  <2>4. t.word \in [1..Len(t.word) -> S]
    BY <2>1, <2>2, <2>3
  <2>5. QED
    BY <2>2, <2>4
<1> HIDE DEF S
<1>4. seqs \in Seq(Seq(S))
  BY <1>2, <1>3
<1>5. q \in Seq(S)
  BY <1>1, <1>4, FlattenType
<1>6. q \in Seq(Word) /\ \A i \in DOMAIN q : q[i] # Break
  <2>1. \A i \in DOMAIN q : q[i] \in Word /\ q[i] # Break
    BY <1>5 DEF S
  <2>2. DOMAIN q = 1..Len(q) /\ Len(q) \in Nat /\ q \in [1..Len(q) -> S]
    BY <1>5
  <2>3. q \in [1..Len(q) -> Word]
    BY <2>1, <2>2
  <2>4. QED
    BY <2>1, <2>2, <2>3
<1>7. 1 \in DOMAIN q /\ Len(q) \in DOMAIN q
  BY <1>6
<1>8. QED
  BY <1>6, <1>7, TrimmedAlready

-----------------------------------------------------------------------------
(* The store during a reload. *)

\* The store being built has the objects emitted so far; the active one is
\* the store that was built, to which nothing is added any more.
StoreInv ==
  /\ ParseInv
  /\ StoreHas(store, emitted)
  /\ outcome = "swapped" => cur = store /\ \A f \in Files : pc[f] \in {"done", "failed"}

\* The initial state satisfies the invariant.
LEMMA StoreInit == Init => StoreInv
<1> SUFFICES ASSUME Init PROVE StoreInv
  OBVIOUS
<1>1. ParseInv
  BY ParseInit
<1>2. \A f \in DOMAIN emitted : emitted[f] = <<>>
  BY DEF Init
<1>3. StoreHas(store, emitted) /\ outcome # "swapped"
  BY <1>2, NewStoreHas DEF Init
<1>4. QED
  BY <1>1, <1>3 DEF StoreInv

\* flush: the object that is emitted is inserted.
LEMMA FlushStores ==
  ASSUME StoreInv, NEW f \in Files, NEW then, Flush(f, then)
  PROVE  StoreHas(store', emitted')
<1> DEFINE objs == flushed(parse[f])
<1>1. StoreHas(store, emitted)
  BY DEF StoreInv
<1>2. CASE UNCHANGED <<emitted, store>>
  BY <1>1, <1>2
<1>3. CASE objs # <<>> /\ emitted' = [emitted EXCEPT ![f] = @ \o objs] /\ store' = Insert(store, objs[1], f)
  <2>1. ScanFollows(parse[f]) /\ emitted \in [Files -> Seq(Object)]
    BY DEF StoreInv, ParseInv, LoaderTypes
  <2>2. objs = <<objs[1]>> /\ objs[1] \in Object
    BY <1>3, <2>1, FlushedReadable
  <2> DEFINE o == objs[1]
  <2>3. emitted' = [emitted EXCEPT ![f] = emitted[f] \o <<o>>]
    BY <1>3, <2>2
  <2>4. store' = Insert(store, o, f) /\ o \in Object
    BY <1>3, <2>2
  <2> HIDE DEF objs, o
  <2>5. OneMore(Files, emitted, f, o, emitted')
    BY <2>1, <2>3, <2>4 DEF OneMore
  <2>6. QED
    BY <1>1, <2>4, <2>5, InsertHas
<1>4. QED
  BY <1>2, <1>3 DEF Flush

\* Every step keeps the invariant.
LEMMA StoreStep ==
  ASSUME StoreInv, [Next]_vars PROVE StoreInv'
<1>1. ParseInv /\ ParseInv'
  BY ParseStep DEF StoreInv
<1>2. ASSUME NEW f \in Files, pc[f] \in {"wait", "parse"} PROVE outcome # "swapped"
  BY <1>2 DEF StoreInv
<1>3. ASSUME NEW f \in Files, Begin(f) PROVE StoreInv'
  BY <1>1, <1>2, <1>3 DEF Begin, StoreInv
<1>4. ASSUME NEW f \in Files, ReadLine(f) PROVE StoreInv'
  <2>1. outcome' # "swapped"
    BY <1>2, <1>4 DEF ReadLine
  <2>2. CASE UNCHANGED <<emitted, store>>
    BY <1>1, <2>1, <2>2 DEF StoreInv
  <2>3. CASE Flush(f, "parse")
    BY <1>1, <2>1, <2>3, FlushStores DEF StoreInv
  <2>4. QED
    BY <1>4, <2>2, <2>3 DEF ReadLine
<1>5. ASSUME NEW f \in Files, EndOfFile(f) PROVE StoreInv'
  <2>1. outcome' # "swapped" /\ Flush(f, "done")
    BY <1>2, <1>5 DEF EndOfFile
  <2>2. QED
    BY <1>1, <2>1, FlushStores DEF StoreInv
<1>6. ASSUME NEW f \in Files, ReadError(f) PROVE StoreInv'
  <2>1. outcome' # "swapped"
    BY <1>2, <1>6 DEF ReadError
  <2>2. CASE UNCHANGED <<emitted, store>>
    BY <1>1, <2>1, <2>2 DEF StoreInv
  <2>3. CASE Flush(f, "failed")
    BY <1>1, <2>1, <2>3, FlushStores DEF StoreInv
  <2>4. QED
    BY <1>6, <2>2, <2>3 DEF ReadError
<1>7. CASE Cancel
  BY <1>1, <1>7 DEF Cancel, StoreInv, Files
<1>8. CASE Finish
  BY <1>1, <1>8 DEF Finish, StoreInv, Files
<1>9. CASE UNCHANGED vars
  BY <1>1, <1>9 DEF vars, StoreInv, Files
<1>10. QED
  BY <1>3, <1>4, <1>5, <1>6, <1>7, <1>8, <1>9 DEF Next

\* The invariant holds throughout a reload.
LEMMA StoreInductive == Spec => []StoreInv
BY StoreInit, StoreStep, PTL DEF Spec

\* Whatever the dumps and in whatever order the goroutines insert, after the
\* swap Lookup returns for every query the objects that answer to it, each as
\* often as the dumps have it, and no others.
THEOREM LookupIsExact == Spec => []LookupExact
<1>1. StoreInv => LookupExact
  <2> SUFFICES ASSUME StoreInv, outcome = "swapped", NEW line \in QueryLines,
                      NEW q, q = parseQuery(line).query, q # <<>>,
                      NEW x \in Indexed \cup ToSet(Lookup(cur, q))
               PROVE  Count(Lookup(cur, q), x) = IF x \in Wanted(q) THEN Times(x) ELSE 0
    BY DEF LookupExact
  <2>1. emitted \in [Files -> Seq(Object)] /\ cur = store /\ StoreHas(cur, emitted)
    BY DEF StoreInv, ParseInv, LoaderTypes
  <2>2. line \in Seq(Token)
    BY LoaderAssumption
  <2>3. q \in Seq(Word) /\ TrimSpace(q) = q
    BY <2>2, QueryTyped
  <2>4. /\ Lookup(cur, q) \in Seq(Object)
        /\ \A y \in Object : Count(Lookup(cur, q), y) = IF y \in Wanted(q) THEN Times(y) ELSE 0
    BY <2>1, <2>3, LookupFound
  <2>5. x \in Object
    <3>1. \A f \in Files : emitted[f] \in Seq(Object)
      BY <2>1
    <3>2. \A f \in Files : ToSet(emitted[f]) \subseteq Object
      BY <3>1 DEF ToSet
    <3>3. ToSet(Lookup(cur, q)) \subseteq Object
      BY <2>4 DEF ToSet
    <3>4. QED
      BY <3>2, <3>3 DEF Indexed
  <2>6. QED
    BY <2>4, <2>5
<1>2. QED
  BY StoreInductive, <1>1, PTL

-----------------------------------------------------------------------------
(* The answer to an address. *)

\* The ends of an interval.
LEMMA IntervalEnds ==
  ASSUME NEW lo \in Nat, NEW hi \in Nat, lo <= hi PROVE Min(lo..hi) = lo /\ Max(lo..hi) = hi
<1> DEFINE T == lo..hi
<1>1. T \in SUBSET Nat /\ lo \in T /\ hi \in T /\ UpTo(T, hi) /\ \A y \in T : lo <= y /\ y <= hi
  BY DEF UpTo
<1> HIDE DEF T
<1>2. T # {}
  BY <1>1
<1>3. Min(T) \in T /\ \A y \in T : Min(T) <= y
  BY <1>1, <1>2, MinOfNat
<1>4. Max(T) \in T /\ Max(T) \in Nat /\ \A y \in T : Max(T) >= y
  BY <1>1, <1>2, MaxOfInterval
<1>5. Min(T) <= lo /\ lo <= Min(T) /\ Max(T) >= hi /\ Max(T) <= hi /\ Min(T) \in Nat
  BY <1>1, <1>3, <1>4
<1>6. Min(T) = lo /\ Max(T) = hi
  BY <1>4, <1>5
<1>7. QED
  BY <1>6 DEF T

\* A prefix ends inside the address space.
LEMMA PrefixFits ==
  ASSUME NEW p \in Prefix PROVE FirstAddr(p) \in Address /\ LastAddr(p) \in Address
<1>1. p.addr \in Address /\ p.len \in 0..W /\ p.addr \in Nat
  BY PrefixParts
<1>2. FirstAddr(p) = p.addr /\ LastAddr(p) \in Nat /\ FirstAddr(p) <= LastAddr(p)
  BY PrefixEnds
<1>3. W \in Nat /\ 0 \in 0..W /\ W \in 0..W /\ Pow2[W] \in Nat /\ Pow2[W] >= 1
  BY Pow2Steps, Pow2Positive
<1> DEFINE r == Masked(p.addr, 0)
<1>4. r \in Prefix /\ r.len = 0 /\ Holds(r, p.addr)
  BY <1>1, <1>3, MaskedHolds
<1>5. r = Root
  <2>1. Path(r) = {Masked(r.addr, 0)}
    BY <1>4 DEF Path
  <2>2. r \in Path(r) /\ Root \in Path(r)
    BY <1>4, PathClosed
  <2>3. QED
    BY <2>1, <2>2
<1> HIDE DEF r
<1>6. Root.addr = 0
  <2>1. Root.addr = 0 - (0 % Pow2[W - 0]) /\ W - 0 = W
    BY <1>3 DEF Root, Masked
  <2>2. 0 % Pow2[W] = 0
    BY <1>3
  <2>3. QED
    BY <2>1, <2>2
<1>7. Holds(p, p.addr)
  BY <1>1, <1>2 DEF Holds
<1>8. LastAddr(p) <= LastAddr(r)
  BY <1>1, <1>4, <1>7, PrefixesNest
<1>9. LastAddr(r) = 0 + Pow2[W - 0] - 1
  BY <1>4, <1>5, <1>6, PrefixEnds
<1>10. QED
  BY <1>1, <1>2, <1>3, <1>8, <1>9 DEF Address

\* Larger powers of two are larger.
LEMMA Pow2Grows ==
  ASSUME NEW n \in 0..W, NEW m \in 0..W, m < n PROVE Pow2[m] < Pow2[n]
<1>1. W \in Nat /\ n # 0 /\ n - 1 \in 0..W /\ m \in 0..(n - 1)
  BY Pow2Steps
<1>2. PICK c \in Nat : c >= 1 /\ Pow2[n - 1] = c * Pow2[m]
  BY <1>1, Pow2Divides
<1>3. Pow2[m] \in Nat /\ Pow2[m] >= 1 /\ Pow2[n - 1] \in Nat
  BY <1>1, Pow2Positive
<1>4. 1 * Pow2[m] <= c * Pow2[m]
  BY <1>2, <1>3, FactorLeq
<1>5. Pow2[m] <= Pow2[n - 1]
  BY <1>2, <1>3, <1>4
<1>6. Pow2[n] = 2 * Pow2[n - 1]
  BY <1>1, Pow2Steps
<1>7. QED
  BY <1>3, <1>5, <1>6

\* A prefix is the only maximal block of its own addresses.
LEMMA PrefixMaximal ==
  ASSUME NEW p \in Prefix PROVE p \in MaximalBlocks(FirstAddr(p), LastAddr(p))
<1>1. p \in Inside(FirstAddr(p), LastAddr(p))
  BY PrefixEnds DEF Inside
<1>2. ASSUME NEW q \in Inside(FirstAddr(p), LastAddr(p)), Holds(q, FirstAddr(p)) PROVE p.len <= q.len
  <2>1. q \in Prefix /\ FirstAddr(p) <= FirstAddr(q) /\ LastAddr(q) <= LastAddr(p)
    BY DEF Inside
  <2>2. /\ FirstAddr(p) \in Nat /\ LastAddr(p) \in Nat /\ FirstAddr(q) \in Nat /\ LastAddr(q) \in Nat
        /\ FirstAddr(q) <= LastAddr(q) /\ FirstAddr(p) <= LastAddr(p)
    BY <2>1, PrefixEnds
  <2>3. p.len \in 0..W /\ q.len \in 0..W /\ W \in Nat
    BY <2>1, PrefixParts, Pow2Steps
  <2>4. FirstAddr(q) = FirstAddr(p)
    BY <1>2, <2>1, <2>2 DEF Holds
  <2> DEFINE m == W - p.len
             n == W - q.len
  <2>5. m \in 0..W /\ n \in 0..W
    BY <2>3
  <2>6. Pow2[n] <= Pow2[m] /\ Pow2[n] \in Nat /\ Pow2[m] \in Nat
    <3>1. Pow2[n] \in Nat /\ Pow2[m] \in Nat
      BY <2>5, Pow2Positive
    <3>2. LastAddr(p) = FirstAddr(p) + Pow2[m] - 1 /\ LastAddr(q) = FirstAddr(q) + Pow2[n] - 1
      BY <2>1, PrefixEnds
    <3> HIDE DEF m, n
    <3>3. QED
      BY <2>1, <2>2, <2>4, <3>1, <3>2
  <2>7. CASE q.len < p.len
    <3>1. m < n /\ m + 1 <= n
      BY <2>3, <2>7
    <3>2. Pow2[m] < Pow2[n]
      BY <2>5, <3>1, Pow2Grows
    <3>3. QED
      <4> HIDE DEF m, n
      <4>1. QED
        BY <2>6, <3>2
  <2>8. QED
    BY <2>3, <2>7
<1>3. QED
  BY <1>1, <1>2, MaximalIs

\* The block of a range that an address is in.
LEMMA BlockLenIn ==
  ASSUME NEW x, NEW lo \in Address, NEW hi \in Address, Extent(x) = lo..hi, NEW a \in Address, NEW e \in 0..W,
         Masked(a, e) \in MaximalBlocks(lo, hi)
  PROVE  BlockLen(x, a) = e
<1> DEFINE MB == MaximalBlocks(lo, hi)
           p == Masked(a, e)
<1>1. lo \in Nat /\ hi \in Nat /\ a \in Nat
  BY Pow2Steps, Pow2Positive DEF Address
<1>2. lo <= a /\ a <= hi
  BY MaximalHoldsNone
<1>3. Min(Extent(x)) = lo /\ Max(Extent(x)) = hi
  BY <1>1, <1>2, IntervalEnds
<1>4. p \in MB /\ Holds(p, a) /\ p.len = e
  BY MaskedHolds
<1>5. ASSUME NEW q \in MB, Holds(q, a) PROVE q = p
  <2>1. q \in Prefix
    BY MaximalIs DEF Inside
  <2>2. q = Masked(a, q.len) /\ q.len \in 0..W
    BY <1>5, <2>1, HolderIsMasked, PrefixParts
  <2>3. PICK d \in 0..W : \A b \in 0..W : Masked(a, b) \in MB <=> b = d
    BY <1>2, MaximalHolder
  <2>4. q.len = d /\ e = d
    BY <1>4, <1>5, <2>2, <2>3
  <2>5. QED
    BY <2>2, <2>4
<1>6. BlockLen(x, a) = (CHOOSE q \in MB : Holds(q, a)).len
  BY <1>3 DEF BlockLen
<1> HIDE DEF MB, p
<1>7. (CHOOSE q \in MB : Holds(q, a)) = p
  BY <1>4, <1>5
<1>8. QED
  BY <1>4, <1>6, <1>7

\* The length of the block that an object is filed under at an address.
LEMMA BlockLenIs ==
  ASSUME NEW x \in Object, NEW a \in Address, NEW e \in 0..W, FiledAt(x, Masked(a, e))
  PROVE  BlockLen(x, a) = e
<1> DEFINE v == x.pk
<1>1. v \in Seq(Word)
  BY DEF Object, Value
<1>2. CASE x.class = "inetnum"
  <2>1. PICK i \in DOMAIN v, k \in DOMAIN v : IsRange(v, i, k) /\ Masked(a, e) \in MaximalBlocks(v[i].addr, v[k].addr)
    BY <1>2 DEF FiledAt, NetClasses, RangeAt
  <2> DEFINE lo == v[i].addr
             hi == v[k].addr
  <2>2. \A m, n \in DOMAIN v : IsRange(v, m, n) => m = i /\ n = k
    BY <1>1, <2>1, OneRange
  <2>3. lo \in Address /\ hi \in Address
    <3>1. v[i] \in Word /\ v[k] \in Word /\ v[i].form = "addr" /\ v[k].form = "addr"
      BY <1>1, <2>1 DEF IsRange
    <3>2. QED
      BY <3>1, AddressWord
  <2>4. Extent(x) = lo..hi
    <3>1. \A b : b \in Extent(x) <=> b \in lo..hi
      BY <1>2, <2>1, <2>2, ExtentOfRange
    <3>2. QED
      BY <3>1
  <2>5. Masked(a, e) \in MaximalBlocks(lo, hi)
    BY <2>1
  <2> HIDE DEF lo, hi
  <2>6. QED
    BY <2>3, <2>4, <2>5, BlockLenIn
<1>3. CASE x.class # "inetnum"
  <2>0. x.class \in NetClasses /\ NetAt(v, Masked(a, e))
    BY <1>3 DEF FiledAt
  <2>1. PICK i \in DOMAIN v : IsNet(v, i) /\ Masked(a, e) = Masked(v[i].addr, v[i].len)
    BY <2>0 DEF NetAt
  <2> DEFINE p == Masked(a, e)
  <2>2. \A j \in DOMAIN v : IsNet(v, j) => j = i
    BY <2>1, OneNet
  <2>3. p \in Prefix
    BY MaskedHolds
  <2>4. Extent(x) = FirstAddr(p)..LastAddr(p)
    <3>1. \A b : b \in Extent(x) <=> b \in FirstAddr(p)..LastAddr(p)
      BY <2>0, <2>1, <2>2, ExtentOfNet
    <3>2. QED
      BY <3>1
  <2>5. p \in MaximalBlocks(FirstAddr(p), LastAddr(p)) /\ FirstAddr(p) \in Address /\ LastAddr(p) \in Address
    BY <2>3, PrefixMaximal, PrefixFits
  <2>6. QED
    BY <2>4, <2>5, BlockLenIn
<1>4. QED
  BY <1>2, <1>3

\* The last object of a concatenation is that of its last sequence with any.
LEMMA FlattenLast ==
  ASSUME NEW S, NEW seqs \in Seq(Seq(S)), NEW k \in 1..Len(seqs), seqs[k] # <<>>,
         \A i \in (k + 1)..Len(seqs) : seqs[i] = <<>>, NEW u, u = FlattenSeq(seqs)
  PROVE  u \in Seq(S) /\ Len(u) \in Nat /\ Len(u) >= 1 /\ u[Len(u)] = seqs[k][Len(seqs[k])]
<1> DEFINE N == Len(seqs)
           g == Flat(seqs)
           Closes(h) == h \in Seq(S) /\ Len(h) >= 1 /\ h[Len(h)] = seqs[k][Len(seqs[k])]
           Bad == {i \in k..N : ~Closes(g[i])}
<1>1. N \in Nat /\ k \in 1..N /\ \A i \in 1..N : seqs[i] \in Seq(S)
  OBVIOUS
<1>2. FlattenSeq(seqs) = (IF N = 0 THEN seqs ELSE g[N]) /\ Flattens(seqs, g)
  BY <1>1, FlattenIs
<1>3. \A i \in 1..N : g[i] = IF i = 1 THEN seqs[i] ELSE g[i - 1] \o seqs[i]
  <2> HIDE DEF g
  <2>1. QED
    BY <1>2 DEF Flattens
<1>4. \A i \in 1..N : g[i] \in Seq(S)
  BY <1>1, FlattenParts
<1> HIDE DEF g, N
<1>5. Closes(g[k])
  <2> DEFINE t == seqs[k]
  <2>1. t \in Seq(S) /\ t # <<>>
    BY <1>1
  <2> HIDE DEF t
  <2>2. Len(t) \in Nat /\ Len(t) >= 1
    BY <2>1
  <2>3. CASE k = 1
    <3>1. g[k] = t
      BY <1>1, <1>3, <2>3 DEF t
    <3>2. QED
      BY <2>1, <2>2, <3>1 DEF t
  <2>4. CASE k # 1
    <3>0. k - 1 \in 1..N
      BY <1>1, <2>4
    <3>a. g[k] = g[k - 1] \o seqs[k]
      BY <1>1, <1>3, <2>4
    <3>1. g[k] = g[k - 1] \o t /\ k - 1 \in 1..N
      BY <3>0, <3>a DEF t
    <3> DEFINE b == g[k - 1]
    <3>2. b \in Seq(S)
      BY <1>4, <3>1
    <3> HIDE DEF b
    <3>3. b \o t \in Seq(S) /\ Len(b \o t) = Len(b) + Len(t) /\ Len(b) \in Nat
      BY <2>1, <3>2
    <3>4. (b \o t)[Len(b) + Len(t)] = t[Len(t)]
      BY <2>1, <2>2, <3>2
    <3>5. g[k] = b \o t
      BY <3>1 DEF b
    <3>6. Len(b) + Len(t) >= 1
      BY <2>2, <3>3
    <3>7. Closes(b \o t)
      BY <3>3, <3>4, <3>6 DEF t
    <3>8. QED
      BY <3>5, <3>7
  <2>5. QED
    BY <2>3, <2>4
<1>6. ASSUME NEW m \in Bad, \A i \in Bad : m <= i PROVE FALSE
  <2>1. m \in k..N /\ m # k /\ ~Closes(g[m])
    BY <1>5, <1>6
  <2>2. m \in (k + 1)..N /\ m - 1 \in k..N /\ ~(m <= m - 1) /\ m \in 1..N /\ m # 1 /\ m - 1 \in 1..N
    BY <1>1, <2>1
  <2> HIDE DEF Closes
  <2>3. Closes(g[m - 1])
    BY <1>6, <2>2
  <2>4. g[m] = g[m - 1] \o <<>>
    BY <1>3, <2>2 DEF N
  <2>5. g[m - 1] \in Seq(S)
    BY <1>4, <2>2
  <2>6. g[m] = g[m - 1]
    BY <2>4, <2>5
  <2>7. QED
    BY <2>1, <2>3, <2>6
<1>7. Bad = {}
  <2>1. Bad \in SUBSET Nat
    BY <1>1
  <2> HIDE DEF Bad
  <2>2. QED
    BY <1>6, <2>1, LeastNat
<1>8. N \in k..N /\ N # 0
  BY <1>1
<1> HIDE DEF Closes
<1>9. Closes(g[N]) /\ FlattenSeq(seqs) = g[N]
  BY <1>2, <1>7, <1>8
<1>10. QED
  BY <1>9 DEF Closes

\* The last object that lookup finds is at the deepest node with any.
LEMMA DeepestLast ==
  ASSUME NEW t, Trie(t), NEW a \in Address, NEW e \in 0..W, ObjsAt(t, Masked(a, e)) # <<>>, NEW u, u = lookup(t, a)
  PROVE  /\ u \in Seq(Object) /\ Len(u) >= 1
         /\ \E d \in 0..W : e <= d /\ u[Len(u)] \in ToSet(ObjsAt(t, Masked(a, d)))
<1>1. W \in Nat
  BY Pow2Steps
<1>2. PICK seqs : Walk(t, a, seqs)
  BY LookupWalks
<1> DEFINE N == Len(seqs)
           K == {i \in 1..N : seqs[i] # <<>>}
<1>3. seqs \in Seq(Seq(Object)) /\ N \in 1..(W + 1) /\ u = FlattenSeq(seqs) /\ N \in Nat
  BY <1>1, <1>2 DEF Walk
<1>4. \A d \in 1..N : seqs[d] = ObjsAt(t, Masked(a, d - 1))
  BY <1>2 DEF Walk
<1>5. \A d \in 0..W : d >= N => ObjsAt(t, Masked(a, d)) = <<>>
  BY <1>2 DEF Walk
<1>6. e + 1 \in K
  <2>1. e < N
    BY <1>3, <1>5
  <2>2. e + 1 \in 1..N /\ (e + 1) - 1 = e
    BY <1>3, <2>1
  <2>3. QED
    BY <1>4, <2>2
<1> DEFINE k == Max(K)
<1>7. k \in 1..N /\ seqs[k] # <<>> /\ \A i \in 1..N : seqs[i] # <<>> => i <= k
  <2>1. UpTo(K, N) /\ K # {}
    <3> HIDE DEF N
    <3>1. K \subseteq 0..N /\ N \in Nat
      BY <1>3
    <3> HIDE DEF K
    <3>2. QED
      BY <1>6, <3>1 DEF UpTo
  <2>2. k \in K /\ \A y \in K : k >= y
    <3> HIDE DEF K
    <3>1. QED
      BY <2>1, MaxOfInterval
  <2>3. k \in 1..N /\ seqs[k] # <<>>
    BY <2>2
  <2>4. QED
    BY <1>3, <2>2, <2>3
<1>8. e + 1 <= k
  BY <1>6, <1>7
<1> HIDE DEF k, K
<1>9. \A i \in (k + 1)..N : seqs[i] = <<>>
  BY <1>3, <1>7
<1>10. u \in Seq(Object) /\ Len(u) >= 1 /\ u[Len(u)] = seqs[k][Len(seqs[k])]
  <2>1. seqs \in Seq(Seq(Object)) /\ k \in 1..Len(seqs) /\ seqs[k] # <<>> /\ u = FlattenSeq(seqs)
    BY <1>3, <1>7
  <2>2. \A i \in (k + 1)..Len(seqs) : seqs[i] = <<>>
    BY <1>9
  <2>3. u \in Seq(Object) /\ Len(u) \in Nat /\ Len(u) >= 1 /\ u[Len(u)] = seqs[k][Len(seqs[k])]
    BY <2>1, <2>2, FlattenLast
  <2>4. QED
    BY <2>3
<1>11. u[Len(u)] \in ToSet(seqs[k])
  <2>1. seqs[k] \in Seq(Object) /\ seqs[k] # <<>>
    BY <1>3, <1>7
  <2>2. Len(seqs[k]) \in DOMAIN seqs[k]
    BY <2>1
  <2>3. QED
    BY <1>10, <2>2 DEF ToSet
<1>12. k - 1 \in 0..W /\ e <= k - 1
  BY <1>1, <1>3, <1>7, <1>8
<1>13. QED
  BY <1>4, <1>7, <1>10, <1>11, <1>12

\* The answer to an address has the longest block: the last object that
\* Lookup finds was filed at least as deep as any other.
LEMMA LastIsLongest ==
  ASSUME NEW em, NEW s, StoreHas(s, em), NEW w \in Word, w.form \in {"addr", "prefix"},
         NEW o \in Object, Family(o) = w.id, w.addr \in Extent(o), Stored(em, o) # 0,
         NEW u, u = lookupAddr(s, w)
  PROVE  u \in Seq(Object) /\ Len(u) >= 1 /\ BlockLen(u[Len(u)], w.addr) >= BlockLen(o, w.addr)
<1> DEFINE t == IF w.id = "4" THEN s.inet4 ELSE s.inet6
           a == w.addr
           Is(x, q) == IF w.id = "4" THEN FourIs(x, q) ELSE SixIs(x, q)
<1>1. w.id \in {"4", "6"} /\ a \in Address
  <2>1. w \notin {Dash, Break}
    BY DEF Dash, Break, Named
  <2>2. QED
    BY <2>1 DEF Word
<1>2. u = lookup(t, a)
  BY DEF lookupAddr
<1>3. Trie(t) /\ \A x \in Object : \A q : Count(ObjsAt(t, q), x) = IF Is(x, q) THEN Stored(em, x) ELSE 0
  BY DEF StoreHas
<1>4. \A x : \A q : Is(x, q) => FiledAt(x, q)
  BY <1>1 DEF FourIs, SixIs
<1>5. \A q : Is(o, q) <=> FiledAt(o, q)
  BY <1>1 DEF FourIs, SixIs, Family
<1> HIDE DEF t, Is
<1>6. PICK e \in 0..W : \A d \in 0..W : FiledAt(o, Masked(a, d)) <=> d = e
  BY <1>1, OneBlock
<1>7. BlockLen(o, a) = e
  BY <1>1, <1>6, BlockLenIs
<1>8. Count(ObjsAt(t, Masked(a, e)), o) # 0
  BY <1>3, <1>5, <1>6
<1>9. ObjsAt(t, Masked(a, e)) # <<>>
  BY <1>8, CountEmpty
<1>10. /\ u \in Seq(Object) /\ Len(u) >= 1
       /\ \E d \in 0..W : e <= d /\ u[Len(u)] \in ToSet(ObjsAt(t, Masked(a, d)))
  BY <1>1, <1>2, <1>3, <1>9, DeepestLast
<1>11. PICK d \in 0..W : e <= d /\ u[Len(u)] \in ToSet(ObjsAt(t, Masked(a, d)))
  BY <1>10
<1> DEFINE y == u[Len(u)]
<1>12. y \in Object
  <2>1. Len(u) \in DOMAIN u
    BY <1>10
  <2>2. QED
    BY <1>10, <2>1
<1>13. Count(ObjsAt(t, Masked(a, d)), y) # 0
  <2>1. ObjsAt(t, Masked(a, d)) \in Seq(Object)
    BY <1>3, NodeTyped
  <2>2. QED
    BY <1>11, <2>1, CountType
<1>14. BlockLen(y, a) = d
  <2>1. FiledAt(y, Masked(a, d))
    BY <1>3, <1>4, <1>12, <1>13
  <2>2. QED
    BY <1>1, <1>12, <2>1, BlockLenIs
<1>15. d \in Nat /\ e \in Nat
  BY Pow2Steps
<1>16. QED
  BY <1>7, <1>10, <1>11, <1>14, <1>15

-----------------------------------------------------------------------------
(* Contacts. *)

\* The elements of two sequences one after the other.
LEMMA ConcatSet ==
  ASSUME NEW S, NEW s \in Seq(S), NEW t \in Seq(S), NEW x
  PROVE  x \in ToSet(s \o t) <=> x \in ToSet(s) \/ x \in ToSet(t)
<1> DEFINE m == Len(s)
           n == Len(t)
           u == s \o t
<1>1. m \in Nat /\ n \in Nat /\ DOMAIN s = 1..m /\ DOMAIN t = 1..n /\ DOMAIN u = 1..(m + n)
  OBVIOUS
<1>2. \A i \in 1..(m + n) : u[i] = IF i <= m THEN s[i] ELSE t[i - m]
  OBVIOUS
<1> HIDE DEF m, n, u
<1>3. ASSUME x \in ToSet(u) PROVE x \in ToSet(s) \/ x \in ToSet(t)
  <2>1. PICK i \in 1..(m + n) : u[i] = x
    BY <1>1, <1>3 DEF ToSet
  <2>2. CASE i <= m
    <3>1. i \in 1..m /\ s[i] = x
      BY <1>1, <1>2, <2>1, <2>2
    <3>2. QED
      BY <1>1, <3>1 DEF ToSet
  <2>3. CASE ~(i <= m)
    <3>1. i - m \in 1..n /\ t[i - m] = x
      BY <1>1, <1>2, <2>1, <2>3
    <3>2. QED
      BY <1>1, <3>1 DEF ToSet
  <2>4. QED
    BY <2>2, <2>3
<1>4. ASSUME x \in ToSet(s) PROVE x \in ToSet(u)
  <2>1. PICK i \in 1..m : s[i] = x
    BY <1>1, <1>4 DEF ToSet
  <2>2. i \in 1..(m + n) /\ u[i] = x
    BY <1>1, <1>2, <2>1
  <2>3. QED
    BY <1>1, <2>2 DEF ToSet
<1>5. ASSUME x \in ToSet(t) PROVE x \in ToSet(u)
  <2>1. PICK i \in 1..n : t[i] = x
    BY <1>1, <1>5 DEF ToSet
  <2>2. m + i \in 1..(m + n) /\ ~(m + i <= m) /\ (m + i) - m = i
    BY <1>1
  <2>3. u[m + i] = x
    BY <1>2, <2>1, <2>2
  <2>4. QED
    BY <1>1, <2>2, <2>3 DEF ToSet
<1>6. QED
  BY <1>3, <1>4, <1>5 DEF u

\* The elements of a concatenation.
LEMMA FlattenMembers ==
  ASSUME NEW S, NEW seqs \in Seq(Seq(S)), NEW x
  PROVE  x \in ToSet(FlattenSeq(seqs)) <=> \E i \in 1..Len(seqs) : x \in ToSet(seqs[i])
<1> DEFINE N == Len(seqs)
           g == Flat(seqs)
           In(i) == x \in ToSet(seqs[i])
           Has(i) == x \in ToSet(g[i]) <=> \E j \in 1..i : In(j)
           Bad == {i \in 1..N : ~Has(i)}
<1>1. N \in Nat /\ \A i \in 1..N : seqs[i] \in Seq(S)
  OBVIOUS
<1>2. FlattenSeq(seqs) = (IF N = 0 THEN seqs ELSE g[N]) /\ Flattens(seqs, g)
  BY <1>1, FlattenIs
<1>3. \A i \in 1..N : g[i] = IF i = 1 THEN seqs[i] ELSE g[i - 1] \o seqs[i]
  <2> HIDE DEF g
  <2>1. QED
    BY <1>2 DEF Flattens
<1>4. \A i \in 1..N : g[i] \in Seq(S)
  BY <1>1, FlattenParts
<1> HIDE DEF g, N
<1>5. ASSUME NEW m \in Bad, \A i \in Bad : m <= i PROVE FALSE
  <2>1. CASE m = 1
    <3>1. 1 \in 1..N /\ g[1] = seqs[1]
      BY <1>1, <1>3, <2>1
    <3> HIDE DEF In
    <3>2. (\E j \in 1..1 : In(j)) <=> In(1)
      <4>1. \A j : j \in 1..1 <=> j = 1
        OBVIOUS
      <4>2. QED
        BY <4>1
    <3>3. QED
      BY <2>1, <3>1, <3>2 DEF In
  <2>2. CASE m # 1
    <3>1. m \in 1..N /\ m - 1 \in 1..N /\ ~(m <= m - 1)
      BY <1>1, <2>2
    <3>2. Has(m - 1)
      <4> HIDE DEF Has
      <4>1. QED
        BY <1>5, <3>1
    <3>3. g[m] = g[m - 1] \o seqs[m]
      BY <1>3, <2>2, <3>1
    <3>4. x \in ToSet(g[m]) <=> x \in ToSet(g[m - 1]) \/ In(m)
      BY <1>1, <1>4, <3>1, <3>3, ConcatSet
    <3>5. (\E j \in 1..m : In(j)) <=> (\E j \in 1..(m - 1) : In(j)) \/ In(m)
      <4> HIDE DEF In
      <4>1. \A j : j \in 1..m <=> j \in 1..(m - 1) \/ j = m
        BY <1>1, <3>1
      <4>2. QED
        BY <4>1
    <3>6. ~Has(m)
      OBVIOUS
    <3>7. QED
      BY <3>2, <3>4, <3>5, <3>6
  <2>3. QED
    BY <2>1, <2>2
<1>6. Bad = {}
  <2>1. Bad \in SUBSET Nat
    BY <1>1
  <2> HIDE DEF Bad
  <2>2. QED
    BY <1>5, <2>1, LeastNat
<1>7. CASE N = 0
  <2>1. seqs = <<>> /\ DOMAIN seqs = 1..0
    BY <1>7 DEF N
  <2>2. x \notin ToSet(seqs)
    BY <2>1 DEF ToSet
  <2>3. QED
    BY <1>2, <1>7, <2>2 DEF N
<1>8. CASE N # 0
  <2>1. N \in 1..N
    BY <1>1, <1>8
  <2>2. Has(N)
    <3> HIDE DEF Has
    <3>1. QED
      BY <1>6, <2>1
  <2>3. QED
    BY <1>2, <1>8, <2>2 DEF N
<1>9. QED
  BY <1>7, <1>8

\* A handle in upper case without white space around it.
LEMMA ContactKeyTyped ==
  ASSUME NEW v \in Seq(Word), NEW q, q = contactKey(v)
  PROVE  q \in Seq(Word) /\ (q # <<>> => TrimSpace(q) = q)
<1> DEFINE t == TrimSpace(v)
<1>1. t \in Seq(Word)
  BY TrimTyped
<1>2. q = [i \in DOMAIN t |-> Respelt(t[i], "upper")]
  BY DEF contactKey, ToUpper, Spelt, Respelt
<1>3. ASSUME NEW w \in Word PROVE Respelt(w, "upper") \in Word /\ (w # Break => Respelt(w, "upper") # Break)
  <2>1. CASE w \in {Dash, Break}
    <3>1. w.case = "none"
      BY <2>1 DEF Dash, Break, Named
    <3>2. QED
      BY <3>1 DEF Respelt
  <2>2. CASE w \notin {Dash, Break}
    <3>1. w.form # "punct" /\ Break.form = "punct"
      BY <2>2 DEF Word, Break, Named
    <3>2. [w EXCEPT !.case = "upper"] \in Word /\ [w EXCEPT !.case = "upper"].form = w.form
      BY <2>2 DEF Word
    <3>3. QED
      BY <3>1, <3>2 DEF Respelt
  <2>3. QED
    BY <2>1, <2>2
<1>4. t # <<>> => t[1] # Break /\ t[Len(t)] # Break
  <2> SUFFICES ASSUME t # <<>> PROVE t[1] # Break /\ t[Len(t)] # Break
    OBVIOUS
  <2> DEFINE S == Solid(v)
             a == Min(S)
             b == Max(S)
  <2>1. t = SubSeq(v, a, b) /\ a \in S /\ b \in S /\ a <= b
    BY TrimTyped
  <2>2. a \in 1..Len(v) /\ b \in 1..Len(v) /\ v[a] # Break /\ v[b] # Break /\ Len(v) \in Nat
    BY <2>1 DEF Solid
  <2> HIDE DEF t, a, b
  <2>3. Len(t) = b - a + 1 /\ t[1] = v[a] /\ t[b - a + 1] = v[b]
    <3>1. b - a + 1 \in 1..(b - a + 1) /\ 1 \in 1..(b - a + 1) /\ a + 1 - 1 = a /\ a + (b - a + 1) - 1 = b
      BY <2>1, <2>2
    <3>2. Len(t) = b - a + 1 /\ \A i \in 1..(b - a + 1) : t[i] = v[a + i - 1]
      BY <2>1, <2>2, SubSeqProperties
    <3>3. QED
      BY <3>1, <3>2
  <2>4. QED
    BY <2>2, <2>3
<1> HIDE DEF t
<1>5. DOMAIN t = 1..Len(t) /\ Len(t) \in Nat /\ \A i \in 1..Len(t) : t[i] \in Word
  BY <1>1
<1>6. q \in Seq(Word) /\ Len(q) = Len(t)
  <2>1. q \in [1..Len(t) -> Word]
    BY <1>2, <1>3, <1>5
  <2>2. QED
    BY <1>5, <2>1
<1>7. ASSUME q # <<>> PROVE TrimSpace(q) = q
  <2>1. Len(t) >= 1 /\ t # <<>>
    BY <1>5, <1>6, <1>7
  <2>2. 1 \in 1..Len(t) /\ Len(t) \in 1..Len(t)
    BY <1>5, <2>1
  <2>3. q[1] = Respelt(t[1], "upper") /\ q[Len(t)] = Respelt(t[Len(t)], "upper")
    BY <1>2, <1>5, <2>2
  <2>4. q[1] # Break /\ q[Len(q)] # Break
    BY <1>3, <1>4, <1>5, <1>6, <2>1, <2>2, <2>3
  <2>5. QED
    BY <1>6, <1>7, <2>4, TrimmedAlready
<1>8. QED
  BY <1>6, <1>7

\* A function on 1..n is a sequence.
LEMMA SeqOfLen ==
  ASSUME NEW S, NEW n \in Nat, NEW f \in [1..n -> S] PROVE f \in Seq(S) /\ Len(f) = n
OBVIOUS

\* The handles an object names are values, four sequences of them.
LEMMA HandlesOf ==
  ASSUME NEW o \in Object, NEW v, v = FlattenSeq(o.handles)
  PROVE  /\ v \in Seq(Value)
         /\ \A x : x \in ToSet(v) <=> \E k \in 1..4 : x \in ToSet(o.handles[k])
<1> DEFINE hs == o.handles
<1>1. hs \in [1..4 -> Seq(Value)]
  BY DEF Object, Handles
<1> HIDE DEF hs
<1>2. hs \in Seq(Seq(Value)) /\ Len(hs) = 4
  BY <1>1, SeqOfLen
<1>3. v \in Seq(Value)
  BY <1>2, FlattenType DEF hs
<1>4. ASSUME NEW x PROVE x \in ToSet(v) <=> \E k \in 1..4 : x \in ToSet(hs[k])
  <2>1. x \in ToSet(FlattenSeq(hs)) <=> \E k \in 1..Len(hs) : x \in ToSet(hs[k])
    BY <1>2, FlattenMembers
  <2>2. QED
    BY <1>2, <2>1 DEF hs
<1>5. QED
  BY <1>3, <1>4 DEF hs

\* contacts has the handles that the objects name, in upper case.
LEMMA ContactsAre ==
  ASSUME NEW objs \in Seq(Object), NEW h, h = contacts(objs)
  PROVE  /\ h \in Seq(Seq(Word))
         /\ \A i \in 1..Len(h) : h[i] # <<>> => TrimSpace(h[i]) = h[i]
         /\ \A y : y \in NamedHandles(objs) <=> y # <<>> /\ y \in ToSet(h)
<1> DEFINE seqs == [i \in DOMAIN objs |-> FlattenSeq(objs[i].handles)]
           v == FlattenSeq(seqs)
           F(i, k) == ToSet(objs[i].handles[k])
<1>1. DOMAIN objs = 1..Len(objs) /\ Len(objs) \in Nat /\ \A i \in 1..Len(objs) : objs[i] \in Object
  OBVIOUS
<1>2. \A i \in 1..Len(objs) : /\ seqs[i] \in Seq(Value)
                              /\ \A x : x \in ToSet(seqs[i]) <=> \E k \in 1..4 : x \in F(i, k)
  BY <1>1, HandlesOf
<1>3. h = [i \in DOMAIN v |-> contactKey(v[i])]
  BY DEF contacts
<1>4. seqs \in Seq(Seq(Value)) /\ Len(seqs) = Len(objs)
  <2>1. DOMAIN seqs = 1..Len(objs)
    BY <1>1
  <2>2. seqs = [i \in 1..Len(objs) |-> seqs[i]]
    BY <2>1
  <2> HIDE DEF seqs
  <2>3. seqs \in [1..Len(objs) -> Seq(Value)]
    BY <1>2, <2>2
  <2>4. QED
    BY <1>1, <2>3
<1>5. \A y : y \in NamedHandles(objs) <=>
               y # <<>> /\ \E i \in 1..Len(objs) : \E k \in 1..4 : \E x \in F(i, k) : y = contactKey(x)
  <2>1. NamedHandles(objs) = {contactKey(x) : x \in UNION {F(i, k) : i \in DOMAIN objs, k \in 1..4}} \ {<<>>}
    BY DEF NamedHandles, contactKey
  <2> HIDE DEF F
  <2>2. QED
    BY <1>1, <2>1
<1> HIDE DEF seqs, F
<1>6. v \in Seq(Value) /\ \A x : x \in ToSet(v) <=> \E i \in 1..Len(objs) : x \in ToSet(seqs[i])
  <2>1. v \in Seq(Value)
    BY <1>4, FlattenType
  <2>2. \A x : x \in ToSet(v) <=> \E i \in 1..Len(seqs) : x \in ToSet(seqs[i])
    BY <1>4, FlattenMembers
  <2>3. QED
    BY <1>4, <2>1, <2>2
<1> HIDE DEF v
<1>7. DOMAIN v = 1..Len(v) /\ Len(v) \in Nat /\ \A i \in 1..Len(v) : v[i] \in Seq(Word)
  BY <1>6 DEF Value
<1>8. \A i \in 1..Len(v) : /\ contactKey(v[i]) \in Seq(Word)
                           /\ contactKey(v[i]) # <<>> => TrimSpace(contactKey(v[i])) = contactKey(v[i])
  BY <1>7, ContactKeyTyped
<1>9. \A i \in 1..Len(v) : h[i] = contactKey(v[i])
  BY <1>3, <1>7
<1>10. h \in Seq(Seq(Word)) /\ Len(h) = Len(v)
  <2>1. h \in [1..Len(v) -> Seq(Word)]
    BY <1>3, <1>7, <1>8
  <2>2. QED
    BY <1>7, <2>1
<1>11. \A i \in 1..Len(h) : h[i] # <<>> => TrimSpace(h[i]) = h[i]
  BY <1>8, <1>9, <1>10
<1>12. \A y : y \in ToSet(h) <=> \E x \in ToSet(v) : y = contactKey(x)
  <2>1. DOMAIN h = 1..Len(v)
    BY <1>3, <1>7
  <2>2. QED
    BY <1>7, <1>9, <2>1 DEF ToSet
<1>13. \A y : y \in NamedHandles(objs) <=> y # <<>> /\ y \in ToSet(h)
  BY <1>2, <1>5, <1>6, <1>12
<1>14. QED
  BY <1>10, <1>11, <1>13

\* writeRelated appends what every handle stands for, once for each handle.
LEMMA RelatedCount ==
  ASSUME emitted \in [Files -> Seq(Object)], NEW s, StoreHas(s, emitted),
         NEW objs \in Seq(Object), NEW r, r = writeRelated(s, objs)
  PROVE  /\ r \in Seq(Object)
         /\ \A x \in Object : Count(r, x) = Times(x) * Cardinality({y \in NamedHandles(objs) : x \in Wanted(y)})
<1> DEFINE h == contacts(objs)
           N == Len(h)
           Upto(i) == {h[j] : j \in 1..i}
           Skip(i) == h[i] = <<>> \/ h[i] \in Upto(i - 1)
           seqs == [i \in DOMAIN h |-> IF Skip(i) THEN <<>> ELSE Lookup(s, h[i])]
<1>1. /\ h \in Seq(Seq(Word)) /\ \A i \in 1..N : h[i] # <<>> => TrimSpace(h[i]) = h[i]
      /\ \A y : y \in NamedHandles(objs) <=> y # <<>> /\ y \in ToSet(h)
  BY ContactsAre
<1>2. N \in Nat /\ DOMAIN h = 1..N /\ \A i \in 1..N : h[i] \in Seq(Word)
  BY <1>1
<1>3. r = FlattenSeq(seqs)
  <2>1. ASSUME NEW i \in 1..N PROVE ToSet(SubSeq(h, 1, i - 1)) = Upto(i - 1)
    <3>1. i - 1 \in 0..N /\ i - 1 \in Nat
      BY <1>2
    <3> DEFINE t == SubSeq(h, 1, i - 1)
    <3>2. DOMAIN t = 1..(i - 1) /\ \A j \in 1..(i - 1) : t[j] = h[j]
      BY <1>1, <1>2, <3>1
    <3> HIDE DEF t, h
    <3>3. ToSet(t) = Upto(i - 1)
      BY <3>2 DEF ToSet
    <3>4. QED
      BY <3>3 DEF t
  <2>2. seqs = [i \in DOMAIN h |-> IF h[i] = <<>> \/ h[i] \in ToSet(SubSeq(h, 1, i - 1)) THEN <<>> ELSE Lookup(s, h[i])]
    <3> HIDE DEF h, N, Upto
    <3>1. QED
      BY <1>2, <2>1
  <2>3. QED
    BY <2>2 DEF writeRelated
<1> HIDE DEF h
<1>4. ASSUME NEW i \in 1..N, h[i] # <<>>
      PROVE  /\ Lookup(s, h[i]) \in Seq(Object)
             /\ \A x \in Object : Count(Lookup(s, h[i]), x) = IF x \in Wanted(h[i]) THEN Times(x) ELSE 0
  BY <1>1, <1>2, <1>4, LookupFound
<1>5. seqs \in Seq(Seq(Object)) /\ Len(seqs) = N /\ \A i \in 1..N : seqs[i] = IF Skip(i) THEN <<>> ELSE Lookup(s, h[i])
  <2> HIDE DEF N, Upto
  <2>1. \A i \in 1..N : (IF Skip(i) THEN <<>> ELSE Lookup(s, h[i])) \in Seq(Object)
    BY <1>4, EmptySeq
  <2>2. seqs \in [1..N -> Seq(Object)] /\ \A i \in 1..N : seqs[i] = IF Skip(i) THEN <<>> ELSE Lookup(s, h[i])
    <3> HIDE DEF Skip
    <3>1. QED
      BY <1>2, <2>1
  <2> HIDE DEF seqs
  <2>3. seqs \in Seq(Seq(Object)) /\ Len(seqs) = N
    BY <1>2, <2>2, SeqOfLen
  <2>4. QED
    BY <2>2, <2>3
<1>6. r \in Seq(Object)
  BY <1>3, <1>5, FlattenType
<1> HIDE DEF seqs, N
<1>7. ASSUME NEW x \in Object
      PROVE  Count(r, x) = Times(x) * Cardinality({y \in NamedHandles(objs) : x \in Wanted(y)})
  <2> DEFINE In(i) == {y \in Upto(i) : y # <<>> /\ x \in Wanted(y)}
             n == Times(x)
             c == [i \in 0..N |-> n * Cardinality(In(i))]
             Bad == {i \in 0..N : ~IsFiniteSet(In(i))}
  <2>1. n \in Nat
    <3>1. DOMAIN emitted = Files /\ IsFiniteSet(Places(emitted, x))
      BY DEF StoreHas
    <3>2. n = Stored(emitted, x)
      BY <3>1 DEF Times, Stored, Places
    <3>3. QED
      BY <3>1, <3>2, StoredIs
  <2>2. In(0) = {}
    OBVIOUS
  <2>3. ASSUME NEW i \in 1..N
        PROVE  In(i) = IF h[i] # <<>> /\ x \in Wanted(h[i]) THEN In(i - 1) \cup {h[i]} ELSE In(i - 1)
    <3>1. Upto(i) = Upto(i - 1) \cup {h[i]}
      <4>1. \A j : j \in 1..i <=> j \in 1..(i - 1) \/ j = i
        BY <1>2
      <4>2. QED
        BY <4>1
    <3> HIDE DEF Upto
    <3>2. QED
      BY <3>1
  <2> HIDE DEF n
  <2>4. Bad = {}
    <3>1. ASSUME NEW m \in Bad, \A i \in Bad : m <= i PROVE FALSE
      <4>1. m # 0
        BY <2>2, FS_EmptySet
      <4>2. m \in 1..N /\ m - 1 \in 0..N /\ ~(m <= m - 1)
        BY <1>2, <3>1, <4>1
      <4> HIDE DEF In
      <4>3. IsFiniteSet(In(m - 1))
        BY <3>1, <4>2
      <4>4. IsFiniteSet(In(m - 1) \cup {h[m]})
        BY <4>3, FS_AddElement
      <4>5. QED
        BY <2>3, <4>2, <4>3, <4>4
    <3>2. Bad \in SUBSET Nat
      BY <1>2
    <3> HIDE DEF Bad
    <3>3. QED
      BY <3>1, <3>2, LeastNat
  <2>5. \A i \in 0..N : IsFiniteSet(In(i)) /\ Cardinality(In(i)) \in Nat
    <3> HIDE DEF In
    <3>1. QED
      BY <2>4, FS_CardinalityType
  <2>6. \A i \in 1..N : h[i] \in In(i - 1) <=> h[i] # <<>> /\ x \in Wanted(h[i]) /\ Skip(i)
    <3> HIDE DEF Upto
    <3>1. QED
      OBVIOUS
  <2>7. c[0] = 0
    <3>1. 0 \in 0..N
      BY <1>2
    <3>2. Cardinality(In(0)) = 0
      BY <2>2, FS_EmptySet
    <3> HIDE DEF In
    <3>3. QED
      BY <2>1, <3>1, <3>2
  <2>8. ASSUME NEW i \in 1..N PROVE c[i] = c[i - 1] + Count(seqs[i], x)
    <3> DEFINE A == In(i - 1)
               a == Cardinality(A)
               b == Cardinality(In(i))
    <3>1. i - 1 \in 0..N /\ i \in 0..N
      BY <1>2
    <3>2. c[i] = n * b /\ c[i - 1] = n * a
      <4> HIDE DEF In
      <4>1. QED
        BY <3>1
    <3>3. IsFiniteSet(A) /\ a \in Nat /\ b \in Nat
      <4> HIDE DEF In
      <4>1. QED
        BY <2>5, <3>1
    <3> HIDE DEF c
    <3>4. CASE h[i] # <<>> /\ x \in Wanted(h[i]) /\ ~Skip(i)
      <4>1. h[i] \notin A
        BY <2>6, <3>4
      <4>2. In(i) = A \cup {h[i]}
        BY <2>3, <3>4
      <4> HIDE DEF In, A
      <4>3. Cardinality(A \cup {h[i]}) = IF h[i] \in A THEN Cardinality(A) ELSE Cardinality(A) + 1
        BY <3>3, FS_AddElement
      <4>4. b = a + 1
        BY <4>1, <4>2, <4>3
      <4>5. seqs[i] = Lookup(s, h[i])
        BY <1>5, <3>4
      <4>6. Count(seqs[i], x) = n
        BY <1>4, <3>4, <4>5 DEF n
      <4> HIDE DEF a, b
      <4>7. n * (a + 1) = n * a + n
        BY <2>1, <3>3
      <4>8. QED
        BY <3>2, <4>4, <4>6, <4>7
    <3>5. CASE ~(h[i] # <<>> /\ x \in Wanted(h[i]) /\ ~Skip(i))
      <4>1. In(i) = A
        <5>1. CASE h[i] # <<>> /\ x \in Wanted(h[i])
          <6>1. h[i] \in A
            BY <2>6, <3>5, <5>1
          <6>2. In(i) = A \cup {h[i]}
            BY <2>3, <5>1
          <6> HIDE DEF In, A
          <6>3. QED
            BY <6>1, <6>2
        <5>2. CASE ~(h[i] # <<>> /\ x \in Wanted(h[i]))
          <6> HIDE DEF In
          <6>1. QED
            BY <2>3, <5>2
        <5>3. QED
          BY <5>1, <5>2
      <4>2. Count(seqs[i], x) = 0
        <5>1. CASE Skip(i)
          <6>1. seqs[i] = <<>>
            BY <1>5, <5>1
          <6>2. QED
            BY <6>1, CountEmpty
        <5>2. CASE ~Skip(i)
          <6>1. h[i] # <<>> /\ x \notin Wanted(h[i])
            BY <3>5, <5>2
          <6>2. seqs[i] = Lookup(s, h[i])
            BY <1>5, <5>2
          <6>3. QED
            BY <1>4, <6>1, <6>2
        <5>3. QED
          BY <5>1, <5>2
      <4>3. a = b
        BY <4>1
      <4> HIDE DEF a, b
      <4>4. n * a \in Nat
        BY <2>1, <3>3
      <4>5. QED
        BY <3>2, <4>2, <4>3, <4>4
    <3>6. QED
      BY <3>4, <3>5
  <2>9. Count(r, x) = c[N]
    <3> HIDE DEF c
    <3>1. c[0] = 0 /\ \A i \in 1..Len(seqs) : c[i] = c[i - 1] + Count(seqs[i], x)
      BY <1>5, <2>7, <2>8
    <3>2. Count(FlattenSeq(seqs), x) = c[Len(seqs)]
      BY <1>5, <3>1, FlattenCount
    <3>3. QED
      BY <1>3, <1>5, <3>2
  <2>10. c[N] = n * Cardinality(In(N))
    <3>1. N \in 0..N
      BY <1>2
    <3> HIDE DEF In
    <3>2. QED
      BY <3>1
  <2>11. In(N) = {y \in NamedHandles(objs) : x \in Wanted(y)}
    <3>1. ToSet(h) = Upto(N)
      BY <1>2 DEF ToSet
    <3> HIDE DEF Upto
    <3>2. QED
      BY <1>1, <3>1
  <2>12. QED
    BY <2>9, <2>10, <2>11 DEF n
<1>8. QED
  BY <1>6, <1>7

\* A part of length one.
LEMMA OneOf ==
  ASSUME NEW S, NEW u \in Seq(S), Len(u) >= 1 PROVE SubSeq(u, Len(u), Len(u)) = <<u[Len(u)]>>
<1> DEFINE n == Len(u)
           t == SubSeq(u, n, n)
<1>1. n \in Nat /\ n \in DOMAIN u /\ n - n + 1 = 1 /\ n + 1 - 1 = n /\ u[n] \in S
  OBVIOUS
<1>2. t \in Seq(S) /\ Len(t) = 1 /\ t[1] = u[n]
  <2>1. \A i \in n..n : u[i] \in S
    BY <1>1
  <2> HIDE DEF n
  <2>2. t \in Seq(S) /\ Len(t) = n - n + 1 /\ \A i \in 1..(n - n + 1) : t[i] = u[n + i - 1]
    BY <1>1, <2>1, SubSeqProperties
  <2> HIDE DEF t
  <2>3. 1 \in 1..(n - n + 1) /\ n - n + 1 = 1 /\ n + 1 - 1 = n
    BY <1>1
  <2>4. Len(t) = 1 /\ t[1] = u[n + 1 - 1]
    BY <2>2, <2>3
  <2>5. QED
    BY <2>2, <2>3, <2>4
<1> HIDE DEF n, t
<1>3. <<u[n]>> \in Seq(S) /\ Len(<<u[n]>>) = 1 /\ <<u[n]>>[1] = u[n]
  BY <1>1
<1>4. t = <<u[n]>>
  <2>1. \A i \in 1..Len(t) : t[i] = <<u[n]>>[i]
    BY <1>2, <1>3
  <2>2. QED
    BY <1>2, <1>3, <2>1, SeqEqual
<1>5. QED
  BY <1>4 DEF n, t

\* For dumps and addresses of any size, an address query without -m, -l and -x is
\* answered with an object than which no other covering object has a longer
\* block.
THEOREM AnswersHaveLongestBlock == Spec => []LongestBlockAnswer
<1>1. StoreInv => LongestBlockAnswer
  <2> SUFFICES ASSUME StoreInv, outcome = "swapped", NEW line \in AddressQueries,
                      NEW o \in Around(Asked(line)), Plain(line)
               PROVE  BlockLen(Answered(line), Asked(line).addr) >= BlockLen(o, Asked(line).addr)
    BY DEF LongestBlockAnswer
  <2> DEFINE q == parseQuery(line).query
             w == q[1]
             u == lookupAddr(cur, w)
  <2>1. emitted \in [Files -> Seq(Object)] /\ StoreHas(cur, emitted)
    BY DEF StoreInv, ParseInv, LoaderTypes
  <2>2. line \in Seq(Token) /\ isAddress(q)
    BY LoaderAssumption DEF AddressQueries
  <2>3. q # <<>>
    <3>1. Len(<<>>) # 1
      OBVIOUS
    <3>2. QED
      BY <2>2, <3>1 DEF isAddress
  <2>4. q \in Seq(Word) /\ TrimSpace(q) = q
    BY <2>2, <2>3, QueryTyped
  <2>5. w \in Word /\ w.form \in {"addr", "prefix"}
    <3> HIDE DEF q
    <3>1. Len(q) = 1 /\ q[1].form \in {"addr", "prefix"}
      BY <2>2 DEF isAddress
    <3>2. 1 \in DOMAIN q
      BY <2>4, <3>1
    <3>3. QED
      BY <2>4, <3>1, <3>2
  <2>6. Lookup(cur, q) = u
    <3> HIDE DEF q
    <3>1. QED
      BY <2>2, <2>3, <2>4 DEF Lookup
  <2>7. o \in Indexed /\ Family(o) = w.id /\ w.addr \in Extent(o)
    BY DEF Around, Asked
  <2>8. PICK f \in Files : o \in ToSet(emitted[f])
    BY <2>7 DEF Indexed
  <2>9. o \in Object
    <3>1. emitted[f] \in Seq(Object)
      BY <2>1
    <3>2. QED
      BY <2>8, <3>1 DEF ToSet
  <2>10. Stored(emitted, o) # 0
    <3>1. IsFiniteSet(Places(emitted, o))
      BY <2>1, <2>9 DEF StoreHas
    <3>2. QED
      BY <2>1, <2>8, <3>1, StoredIs
  <2> HIDE DEF u, w, q
  <2>11. u \in Seq(Object) /\ Len(u) >= 1 /\ BlockLen(u[Len(u)], w.addr) >= BlockLen(o, w.addr)
    BY <2>1, <2>5, <2>7, <2>9, <2>10, LastIsLongest DEF u
  <2>12. Answered(line) = u[Len(u)]
    <3> DEFINE p == parseQuery(line)
               rest == IF p.primaryOnly THEN <<>> ELSE writeRelated(cur, pick(p, u))
    <3>1. ~p.moreSpecific /\ ~p.lessSpecific /\ isAddress(p.query) /\ p.query = q
      BY <2>2 DEF Plain, q
    <3>2. u # <<>>
      BY <2>11
    <3>3. pick(p, u) = SubSeq(u, Len(u), Len(u))
      BY <3>1, <3>2 DEF pick
    <3>4. SubSeq(u, Len(u), Len(u)) = <<u[Len(u)]>>
      BY <2>11, OneOf
    <3>5. answer(cur, line) = <<u[Len(u)]>> \o rest
      BY <2>6, <3>1, <3>3, <3>4 DEF answer
    <3>6. (<<u[Len(u)]>> \o rest)[1] = u[Len(u)]
      <4> DEFINE one == <<u[Len(u)]>>
      <4>1. u[Len(u)] \in Object
        BY <2>11
      <4>2. one \in Seq(Object) /\ Len(one) = 1 /\ one[1] = u[Len(u)] /\ pick(p, u) = one
        BY <3>3, <3>4, <4>1
      <4> HIDE DEF one
      <4>3. rest \in Seq(Object)
        BY <2>1, <4>2, RelatedCount, EmptySeq
      <4> HIDE DEF rest
      <4>4. (one \o rest)[1] = one[1]
        <5>1. 1 \in 1..(Len(one) + Len(rest)) /\ 1 <= Len(one)
          BY <4>2, <4>3
        <5>2. QED
          BY <4>2, <4>3, <5>1, ConcatProperties
      <4>5. QED
        BY <4>2, <4>4 DEF one
    <3>7. QED
      BY <3>5, <3>6 DEF Answered
  <2>13. QED
    BY <2>11, <2>12 DEF Asked, w, q
<1>2. QED
  BY StoreInductive, <1>1, PTL

\* What pick returns are objects.
LEMMA PickTyped ==
  ASSUME NEW p, NEW u \in Seq(Object) PROVE pick(p, u) \in Seq(Object)
<1>1. CASE u = <<>>
  BY <1>1 DEF pick
<1>2. CASE u # <<>>
  <2>1. Len(u) \in Nat /\ Len(u) >= 1 /\ 1 \in 1..Len(u) /\ Len(u) \in 1..Len(u)
    BY <1>2
  <2>2. SubSeq(u, 1, 1) \in Seq(Object) /\ SubSeq(u, Len(u), Len(u)) \in Seq(Object)
    BY <2>1
  <2>3. QED
    BY <2>2 DEF pick
<1>3. QED
  BY <1>1, <1>2

\* What comes after the first sequence of two.
LEMMA ConcatTail ==
  ASSUME NEW S, NEW s \in Seq(S), NEW t \in Seq(S), NEW u, u = SubSeq(s \o t, Len(s) + 1, Len(s \o t))
  PROVE  u = t
<1> DEFINE m == Len(s)
           n == Len(t)
           c == s \o t
<1>1. m \in Nat /\ n \in Nat /\ c \in Seq(S) /\ Len(c) = m + n /\ t \in Seq(S)
  OBVIOUS
<1>2. \A i \in 1..n : c[m + i] = t[i]
  OBVIOUS
<1> HIDE DEF m, n, c
<1>3. u = SubSeq(c, m + 1, m + n)
  BY <1>1 DEF c, m
<1>4. u \in Seq(S) /\ Len(u) = n /\ \A i \in 1..n : u[i] = c[m + i]
  <2>1. CASE n = 0
    BY <1>1, <1>3, <2>1
  <2>2. CASE n # 0
    <3>1. m + 1 \in 1..Len(c) /\ m + n \in 1..Len(c) /\ m + 1 <= m + n /\ (m + n) - (m + 1) + 1 = n
      BY <1>1, <2>2
    <3>a. \A i \in (m + 1)..(m + n) : i \in DOMAIN c /\ c[i] \in S
      BY <1>1
    <3>b. m + 1 \in Int /\ m + n \in Int
      BY <1>1
    <3>c. /\ SubSeq(c, m + 1, m + n) \in Seq(S)
          /\ Len(SubSeq(c, m + 1, m + n)) = (IF m + 1 <= m + n THEN (m + n) - (m + 1) + 1 ELSE 0)
          /\ \A i \in 1..((m + n) - (m + 1) + 1) : SubSeq(c, m + 1, m + n)[i] = c[(m + 1) + i - 1]
      BY <3>a, <3>b, SubSeqProperties
    <3>2. u \in Seq(S) /\ Len(u) = (m + n) - (m + 1) + 1 /\ \A i \in 1..((m + n) - (m + 1) + 1) : u[i] = c[(m + 1) + i - 1]
      BY <1>3, <3>1, <3>c
    <3>3. \A i \in 1..n : (m + 1) + i - 1 = m + i
      BY <1>1
    <3>4. QED
      BY <3>1, <3>2, <3>3
  <2>3. QED
    BY <2>1, <2>2
<1>5. Len(t) = n /\ t \in Seq(S)
  BY DEF n
<1>6. \A i \in 1..n : u[i] = t[i]
  BY <1>2, <1>4
<1>7. QED
  BY <1>4, <1>5, <1>6, SeqEqual

\* Whatever the dumps and the query, a reply has after the picked objects
\* what each handle they name stands for, once for every handle.
THEOREM ContactsAppendedOnce == Spec => []ContactsOnce
<1>1. StoreInv => ContactsOnce
  <2> SUFFICES ASSUME StoreInv, outcome = "swapped", NEW line \in QueryLines
               PROVE  LET p == parseQuery(line)
                          picked == pick(p, Lookup(cur, p.query))
                          reply == answer(cur, line)
                          related == SubSeq(reply, Len(picked) + 1, Len(reply))
                          wanted == IF p.primaryOnly THEN {} ELSE NamedHandles(picked)
                      IN  \A o \in Indexed \cup ToSet(related) :
                            Count(related, o) = Times(o) * Cardinality({h \in wanted : o \in Wanted(h)})
    BY DEF ContactsOnce
  <2> DEFINE p == parseQuery(line)
             q == p.query
             found == Lookup(cur, q)
             picked == pick(p, found)
             reply == answer(cur, line)
             related == SubSeq(reply, Len(picked) + 1, Len(reply))
             wanted == IF p.primaryOnly THEN {} ELSE NamedHandles(picked)
  <2> SUFFICES ASSUME NEW x \in Indexed \cup ToSet(related)
               PROVE  Count(related, x) = Times(x) * Cardinality({h \in wanted : x \in Wanted(h)})
    OBVIOUS
  <2> DEFINE rest == IF p.primaryOnly THEN <<>> ELSE writeRelated(cur, picked)
  <2>1. emitted \in [Files -> Seq(Object)] /\ StoreHas(cur, emitted)
    BY DEF StoreInv, ParseInv, LoaderTypes
  <2>2. line \in Seq(Token)
    BY LoaderAssumption
  <2>3. found \in Seq(Object)
    <3>1. CASE q = <<>>
      <4>1. TrimSpace(<<>>) = <<>>
        <5>1. <<>> \in Seq(Word) /\ Solid(<<>>) = {}
          BY EmptySeq DEF Solid
        <5>2. QED
          BY <5>1, TrimTyped
      <4>2. found = <<>>
        BY <3>1, <4>1 DEF Lookup
      <4>3. QED
        BY <4>2, EmptySeq
    <3>2. CASE q # <<>>
      <4>1. q \in Seq(Word) /\ TrimSpace(q) = q
        BY <2>2, <3>2, QueryTyped
      <4> HIDE DEF q
      <4>2. QED
        BY <2>1, <3>2, <4>1, LookupFound
    <3>3. QED
      BY <3>1, <3>2
  <2>4. picked \in Seq(Object)
    BY <2>3, PickTyped
  <2>5. rest \in Seq(Object)
    <3> HIDE DEF picked
    <3>1. QED
      BY <2>1, <2>4, RelatedCount, EmptySeq
  <2>6. answer(cur, line) = picked \o rest
    BY DEF answer
  <2>7. related = rest
    <3> HIDE DEF rest, picked
    <3>1. related = SubSeq(picked \o rest, Len(picked) + 1, Len(picked \o rest))
      BY <2>6
    <3>2. QED
      BY <2>4, <2>5, <3>1, ConcatTail
  <2>8. x \in Object
    <3>1. \A f \in Files : emitted[f] \in Seq(Object)
      BY <2>1
    <3>2. \A f \in Files : ToSet(emitted[f]) \subseteq Object
      BY <3>1 DEF ToSet
    <3>3. ToSet(related) \subseteq Object
      <4>1. related \in Seq(Object)
        BY <2>5, <2>7
      <4> HIDE DEF related
      <4>2. QED
        BY <4>1 DEF ToSet
    <3>4. QED
      BY <3>2, <3>3 DEF Indexed
  <2>9. CASE p.primaryOnly
    <3>1. related = <<>> /\ wanted = {}
      BY <2>7, <2>9
    <3>2. Count(related, x) = 0
      BY <3>1, CountEmpty
    <3>3. {h \in wanted : x \in Wanted(h)} = {}
      BY <3>1
    <3>4. Cardinality({h \in wanted : x \in Wanted(h)}) = 0
      BY <3>3, FS_EmptySet
    <3>5. Times(x) \in Nat
      <4>1. DOMAIN emitted = Files /\ IsFiniteSet(Places(emitted, x))
        BY <2>1, <2>8 DEF StoreHas
      <4>2. Times(x) = Stored(emitted, x)
        BY <4>1 DEF Times, Stored, Places
      <4>3. QED
        BY <2>1, <4>1, <4>2, StoredIs
    <3>6. Times(x) * 0 = 0
      BY <3>5
    <3>7. QED
      BY <3>2, <3>4, <3>6
  <2>10. CASE ~p.primaryOnly
    <3>1. related = writeRelated(cur, picked) /\ wanted = NamedHandles(picked)
      BY <2>7, <2>10
    <3> HIDE DEF related, wanted, picked
    <3>2. \A y \in Object : Count(related, y) = Times(y) * Cardinality({h \in NamedHandles(picked) : y \in Wanted(h)})
      BY <2>1, <2>4, <3>1, RelatedCount
    <3>3. QED
      BY <2>8, <3>1, <3>2
  <2>11. QED
    BY <2>9, <2>10
<1>2. QED
  BY StoreInductive, <1>1, PTL

-----------------------------------------------------------------------------
(* What lines contribute, in order. *)

InOrderStep(lines, of, g, i) ==
  IF i = 0 THEN <<>> ELSE IF i \in lines THEN g[i - 1] \o of[i] ELSE g[i - 1]
InOrders(n, lines, of, g) == g = [i \in 0..n |-> InOrderStep(lines, of, g, i)]
First(n, lines, of) == CHOOSE g : InOrders(n, lines, of, g)

\* InOrder is this recursion, which is well founded.
LEMMA InOrderIs ==
  ASSUME NEW n \in Nat, NEW lines, NEW of
  PROVE  /\ InOrder(n, lines, of) = First(n, lines, of)[n]
         /\ InOrders(n, lines, of, First(n, lines, of))
<1> DEFINE Step(i, g) == InOrderStep(lines, of, g, i)
           Part(m, g) == g = [i \in 0..m |-> Step(i, g)]
           Bad == {m \in Nat : ~\E g : Part(m, g)}
<1>1. InOrder(n, lines, of) = First(n, lines, of)[n]
  BY DEF InOrder, First, InOrders, InOrderStep
<1>2. ASSUME NEW m \in Bad, \A k \in Bad : m <= k PROVE FALSE
  <2>1. CASE m = 0
    <3> DEFINE h == [i \in 0..0 |-> <<>>]
    <3>1. Part(0, h)
      BY DEF InOrderStep
    <3>2. QED
      BY <1>2, <2>1, <3>1
  <2>2. CASE m # 0
    <3>1. m - 1 \in Nat /\ m \in Nat /\ ~(m <= m - 1)
      BY <2>2
    <3>2. PICK g : Part(m - 1, g)
      BY <1>2, <3>1
    <3> DEFINE h == [i \in 0..m |-> Step(i, g)]
    <3>3. \A i \in 0..(m - 1) : h[i] = g[i]
      <4>1. \A i \in 0..(m - 1) : i \in 0..m
        BY <3>1
      <4> HIDE DEF Step
      <4>2. QED
        BY <3>2, <4>1
    <3>4. \A i \in 0..m : i # 0 => i - 1 \in 0..(m - 1)
      BY <3>1
    <3>a. \A i \in 0..m : Step(i, g) = Step(i, h)
      <4> HIDE DEF h
      <4>1. QED
        BY <3>3, <3>4 DEF InOrderStep
    <3> HIDE DEF Step
    <3>5. Part(m, h)
      BY <3>a
    <3>6. QED
      BY <1>2, <3>5
  <2>3. QED
    BY <2>1, <2>2
<1>3. Bad = {}
  <2>1. Bad \in SUBSET Nat
    OBVIOUS
  <2> HIDE DEF Bad
  <2>2. QED
    BY <1>2, <2>1, LeastNat
<1>4. PICK g : Part(n, g)
  BY <1>3
<1>5. InOrders(n, lines, of, g)
  BY <1>4 DEF InOrders
<1>6. QED
  BY <1>1, <1>5 DEF First

\* The recursion, with the type of what is collected.
LEMMA FirstSteps ==
  ASSUME NEW n \in Nat, NEW lines, NEW X, NEW of, \A i \in 1..n : of[i] \in Seq(X),
         NEW g, g = First(n, lines, of)
  PROVE  /\ InOrder(n, lines, of) = g[n] /\ g[0] = <<>>
         /\ \A i \in 1..n : g[i] = IF i \in lines THEN g[i - 1] \o of[i] ELSE g[i - 1]
         /\ \A i \in 0..n : g[i] \in Seq(X)
<1>1. InOrder(n, lines, of) = g[n] /\ InOrders(n, lines, of, g)
  BY InOrderIs
<1>2. \A i \in 0..n : g[i] = InOrderStep(lines, of, g, i)
  BY <1>1 DEF InOrders
<1>3. g[0] = <<>>
  BY <1>2 DEF InOrderStep
<1>4. \A i \in 1..n : g[i] = IF i \in lines THEN g[i - 1] \o of[i] ELSE g[i - 1]
  BY <1>2 DEF InOrderStep
<1> DEFINE Bad == {i \in 0..n : g[i] \notin Seq(X)}
<1>5. ASSUME NEW m \in Bad, \A i \in Bad : m <= i PROVE FALSE
  <2>1. m # 0
    BY <1>3, EmptySeq
  <2>2. m \in 1..n /\ m - 1 \in 0..n /\ ~(m <= m - 1)
    BY <2>1
  <2>3. g[m - 1] \in Seq(X) /\ of[m] \in Seq(X)
    BY <1>5, <2>2
  <2>4. g[m - 1] \o of[m] \in Seq(X)
    BY <2>3, ConcatProperties
  <2>5. QED
    BY <1>4, <2>2, <2>3, <2>4
<1>6. Bad = {}
  <2>1. Bad \in SUBSET Nat
    OBVIOUS
  <2> HIDE DEF Bad
  <2>2. QED
    BY <1>5, <2>1, LeastNat
<1>7. QED
  BY <1>1, <1>3, <1>4, <1>6

\* The type of what is collected, and nothing from no lines.
LEMMA InOrderType ==
  ASSUME NEW n \in Nat, NEW lines, NEW X, NEW of, \A i \in 1..n : of[i] \in Seq(X)
  PROVE  InOrder(n, lines, of) \in Seq(X) /\ (lines = {} => InOrder(n, lines, of) = <<>>)
<1> DEFINE g == First(n, lines, of)
           Bad == {i \in 0..n : g[i] # <<>>}
<1>1. /\ InOrder(n, lines, of) = g[n] /\ g[0] = <<>>
      /\ \A i \in 1..n : g[i] = IF i \in lines THEN g[i - 1] \o of[i] ELSE g[i - 1]
      /\ \A i \in 0..n : g[i] \in Seq(X)
  BY FirstSteps
<1> HIDE DEF g
<1>2. InOrder(n, lines, of) \in Seq(X)
  BY <1>1
<1>3. ASSUME lines = {} PROVE g[n] = <<>>
  <2>1. ASSUME NEW m \in Bad, \A i \in Bad : m <= i PROVE FALSE
    <3>1. m # 0
      BY <1>1
    <3>2. m \in 1..n /\ m - 1 \in 0..n /\ ~(m <= m - 1)
      BY <3>1
    <3>3. g[m - 1] = <<>> /\ g[m] = g[m - 1] /\ g[m] # <<>>
      BY <1>1, <1>3, <2>1, <3>2
    <3>4. QED
      BY <3>3
  <2>2. Bad \in SUBSET Nat /\ n \in 0..n
    OBVIOUS
  <2>3. Bad = {}
    <3> HIDE DEF Bad
    <3>1. QED
      BY <2>1, <2>2, LeastNat
  <2>4. QED
    BY <2>2, <2>3
<1>4. QED
  BY <1>1, <1>2, <1>3

\* r is a and then b.
Joined(r, a, b) == r = a \o b

\* Three sequences, joined from the left, are joined from the right.
LEMMA JoinThree ==
  ASSUME NEW S, NEW s \in Seq(S), NEW t \in Seq(S), NEW u \in Seq(S),
         NEW a, Joined(a, s, t), NEW b, Joined(b, a, u), NEW c, Joined(c, t, u)
  PROVE  Joined(b, s, c)
<1> DEFINE k == Len(s)
           m == Len(t)
           n == Len(u)
<1>1. k \in Nat /\ m \in Nat /\ n \in Nat
  OBVIOUS
<1>2. /\ a \in Seq(S) /\ Len(a) = k + m
      /\ \A i \in 1..(k + m) : a[i] = IF i <= k THEN s[i] ELSE t[i - k]
  BY ConcatProperties DEF Joined
<1>3. /\ c \in Seq(S) /\ Len(c) = m + n
      /\ \A i \in 1..(m + n) : c[i] = IF i <= m THEN t[i] ELSE u[i - m]
  BY ConcatProperties DEF Joined
<1>4. /\ b \in Seq(S) /\ Len(b) = (k + m) + n
      /\ \A i \in 1..((k + m) + n) : b[i] = IF i <= k + m THEN a[i] ELSE u[i - (k + m)]
  BY <1>2, ConcatProperties DEF Joined
<1> DEFINE d == s \o c
<1>5. /\ d \in Seq(S) /\ Len(d) = k + (m + n)
      /\ \A i \in 1..(k + (m + n)) : d[i] = IF i <= k THEN s[i] ELSE c[i - k]
  <2>1. c \in Seq(S)
    BY <1>3
  <2>2. d \in Seq(S) /\ Len(d) = k + Len(c) /\ \A i \in 1..(k + Len(c)) : d[i] = IF i <= k THEN s[i] ELSE c[i - k]
    BY <2>1, ConcatProperties
  <2>3. Len(c) = m + n
    BY <1>3
  <2> HIDE DEF d, k, m, n
  <2>4. QED
    BY <2>2, <2>3
<1> HIDE DEF d, k, m, n
<1>6. ASSUME NEW i \in 1..((k + m) + n) PROVE b[i] = d[i]
  <2>1. i \in 1..(k + (m + n)) /\ i \in Nat
    BY <1>1
  <2>2. CASE i <= k
    <3>1. i \in 1..(k + m) /\ i <= k + m
      BY <1>1, <2>1, <2>2
    <3>2. QED
      BY <1>2, <1>4, <1>5, <2>1, <2>2, <3>1
  <2>3. CASE ~(i <= k) /\ i <= k + m
    <3>1. i \in 1..(k + m) /\ i - k \in 1..(m + n) /\ i - k <= m
      BY <1>1, <2>1, <2>3
    <3>2. b[i] = t[i - k] /\ d[i] = t[i - k]
      BY <1>2, <1>3, <1>4, <1>5, <2>1, <2>3, <3>1
    <3>3. QED
      BY <3>2
  <2>4. CASE ~(i <= k + m)
    <3>1. i - k \in 1..(m + n) /\ ~(i - k <= m) /\ ~(i <= k) /\ (i - k) - m = i - (k + m)
      BY <1>1, <2>1, <2>4
    <3>2. b[i] = u[i - (k + m)] /\ d[i] = c[i - k] /\ c[i - k] = u[(i - k) - m]
      BY <1>3, <1>4, <1>5, <2>1, <2>4, <3>1
    <3>3. QED
      BY <3>1, <3>2
  <2>5. QED
    BY <1>1, <2>2, <2>3, <2>4
<1>7. Len(b) = Len(d) /\ \A i \in 1..Len(b) : b[i] = d[i]
  BY <1>1, <1>4, <1>5, <1>6
<1>8. b = d
  BY <1>4, <1>5, <1>7, SeqEqual
<1>9. QED
  BY <1>8 DEF d, Joined

\* A line after all others contributes at the end.
LEMMA InOrderAdd ==
  ASSUME NEW n \in Nat, NEW lines, NEW X, NEW of, \A i \in 1..n : of[i] \in Seq(X),
         NEW l \in 1..n, \A i \in lines : i \in Nat /\ i < l
  PROVE  Joined(InOrder(n, lines \cup {l}, of), InOrder(n, lines, of), of[l])
<1> DEFINE more == lines \cup {l}
           g == First(n, lines, of)
           h == First(n, more, of)
           Ok(i) == h[i] = IF i >= l THEN g[i] \o of[l] ELSE g[i]
           Bad == {i \in 0..n : ~Ok(i)}
<1>1. /\ InOrder(n, lines, of) = g[n] /\ g[0] = <<>>
      /\ \A i \in 1..n : g[i] = IF i \in lines THEN g[i - 1] \o of[i] ELSE g[i - 1]
      /\ \A i \in 0..n : g[i] \in Seq(X)
  BY FirstSteps
<1>2. /\ InOrder(n, more, of) = h[n] /\ h[0] = <<>>
      /\ \A i \in 1..n : h[i] = IF i \in more THEN h[i - 1] \o of[i] ELSE h[i - 1]
      /\ \A i \in 0..n : h[i] \in Seq(X)
  BY FirstSteps
<1>3. l \in Nat /\ l >= 1 /\ l \in more /\ l \notin lines /\ \A i \in Nat : i # l => (i \in more <=> i \in lines)
  OBVIOUS
<1>4. \A i \in lines : i \in Nat /\ i < l
  OBVIOUS
<1> HIDE DEF g, h, more
<1>5. ASSUME NEW m \in Bad, \A i \in Bad : m <= i PROVE FALSE
  <2>1. CASE m = 0
    BY <1>1, <1>2, <1>3, <2>1
  <2>2. CASE m # 0
    <3>1. m \in 1..n /\ m - 1 \in 0..n /\ ~(m <= m - 1) /\ m \in Nat
      BY <2>2
    <3>2. Ok(m - 1) /\ ~Ok(m)
      <4> HIDE DEF Ok
      <4>1. QED
        BY <1>5, <3>1
    <3>3. /\ h[m] = IF m \in more THEN h[m - 1] \o of[m] ELSE h[m - 1]
          /\ g[m] = IF m \in lines THEN g[m - 1] \o of[m] ELSE g[m - 1]
      BY <1>1, <1>2, <3>1
    <3>4. CASE m < l
      <4>1. h[m - 1] = g[m - 1] /\ (m \in more <=> m \in lines)
        BY <1>3, <3>1, <3>2, <3>4
      <4>2. ~(m >= l)
        BY <1>3, <3>1, <3>4
      <4>3. QED
        BY <3>2, <3>3, <4>1, <4>2
    <3>5. CASE m = l
      <4>1. h[m - 1] = g[m - 1] /\ m \in more /\ m \notin lines
        BY <1>3, <3>1, <3>2, <3>5
      <4>2. m >= l
        BY <1>3, <3>5
      <4>3. QED
        BY <3>2, <3>3, <3>5, <4>1, <4>2
    <3>6. CASE m > l
      <4>1. m \notin lines /\ m \notin more
        BY <1>3, <1>4, <3>1, <3>6
      <4>2. m >= l /\ m - 1 >= l
        BY <1>3, <3>1, <3>6
      <4>3. QED
        BY <3>2, <3>3, <4>1, <4>2
    <3>7. QED
      BY <1>3, <3>1, <3>4, <3>5, <3>6
  <2>3. QED
    BY <2>1, <2>2
<1>6. Bad = {}
  <2>1. Bad \in SUBSET Nat
    OBVIOUS
  <2> HIDE DEF Bad
  <2>2. QED
    BY <1>5, <2>1, LeastNat
<1>7. Ok(n)
  <2>1. n \in 0..n
    OBVIOUS
  <2> HIDE DEF Ok
  <2>2. QED
    BY <1>6, <2>1
<1>8. n >= l
  OBVIOUS
<1>9. QED
  BY <1>1, <1>2, <1>7, <1>8 DEF more, Joined

-----------------------------------------------------------------------------
(* The value of an attribute, line after line. *)

\* The parts of a line.
LEMMA LineParts ==
  ASSUME NEW T \in Seq(Line), NEW i \in 1..Len(T)
  PROVE  /\ T[i] \in Line /\ T[i].words \in Value /\ T[i].kind \in LineKinds /\ T[i].name \in Name
         /\ T[i].kind = "attribute" => T[i].name # NoName
<1>1. T[i] \in Line
  OBVIOUS
<1>2. QED
  BY <1>1 DEF Line, Name

\* What the lines before n make of the attribute on line i, and where it ends.
ValueTo(T, i, n) ==
  T[i].words \o InOrder(Len(T), {j \in 1..(n - 1) : Continues(T, i, j)}, Continuations(T))
Stops(T, n) == n = Len(T) + 1 \/ T[n].kind \in {"attribute", "blank"}

\* The words a continuation adds.
LEMMA ContinuationsTyped ==
  ASSUME NEW T \in Seq(Line)
  PROVE  \A j \in 1..Len(T) : Continuations(T)[j] \in Seq(Word) /\ Continuations(T)[j] = <<Break>> \o T[j].words
<1>1. DOMAIN T = 1..Len(T)
  OBVIOUS
<1>2. ASSUME NEW j \in 1..Len(T) PROVE <<Break>> \o T[j].words \in Seq(Word)
  <2>1. T[j].words \in Seq(Word)
    BY LineParts DEF Value
  <2>2. <<Break>> \in Seq(Word)
    BY DEF Word
  <2>3. QED
    BY <2>1, <2>2, ConcatProperties
<1>3. QED
  BY <1>1, <1>2 DEF Continuations

\* Values are sequences of words.
LEMMA ValuesTyped ==
  ASSUME NEW T \in Seq(Line), NEW i \in 1..Len(T), NEW n
  PROVE  ValueAt(T, i) \in Value /\ ValueTo(T, i, n) \in Value
<1>1. T[i].words \in Seq(Word) /\ Len(T) \in Nat
  BY LineParts DEF Value
<1>2. \A s : InOrder(Len(T), s, Continuations(T)) \in Seq(Word)
  BY <1>1, ContinuationsTyped, InOrderType
<1>3. \A s : T[i].words \o InOrder(Len(T), s, Continuations(T)) \in Seq(Word)
  BY <1>1, <1>2, ConcatProperties
<1>4. QED
  BY <1>3 DEF ValueAt, ValueTo, Value

\* The value starts with the words of its line.
LEMMA ValueStarts ==
  ASSUME NEW T \in Seq(Line), NEW i \in 1..Len(T) PROVE ValueTo(T, i, i + 1) = T[i].words
<1> DEFINE S == {j \in 1..((i + 1) - 1) : Continues(T, i, j)}
<1>1. S = {}
  BY DEF Continues
<1>2. T[i].words \in Seq(Word) /\ Len(T) \in Nat
  BY LineParts DEF Value
<1>3. InOrder(Len(T), S, Continuations(T)) = <<>>
  <2> HIDE DEF S
  <2>1. QED
    BY <1>1, <1>2, ContinuationsTyped, InOrderType
<1>4. T[i].words \o <<>> = T[i].words
  BY <1>2, ConcatEmptySeq
<1>5. QED
  BY <1>3, <1>4 DEF ValueTo

\* A line that continues it adds a line break and its words.
LEMMA ValueGrows ==
  ASSUME NEW T \in Seq(Line), NEW i \in 1..Len(T), NEW n \in 1..Len(T), i < n
  PROVE  ValueTo(T, i, n + 1) = IF Continues(T, i, n) THEN ValueTo(T, i, n) \o <<Break>> \o T[n].words
                                ELSE ValueTo(T, i, n)
<1> DEFINE S(m) == {j \in 1..(m - 1) : Continues(T, i, j)}
           v == T[i].words
           a == InOrder(Len(T), S(n), Continuations(T))
           w == T[n].words
<1>1. \A j : j \in 1..((n + 1) - 1) <=> j \in 1..(n - 1) \/ j = n
  OBVIOUS
<1>2. S(n + 1) = IF Continues(T, i, n) THEN S(n) \cup {n} ELSE S(n)
  <2> HIDE DEF Continues
  <2>1. QED
    BY <1>1
<1>3. v \in Seq(Word) /\ Len(T) \in Nat /\ w \in Seq(Word) /\ <<Break>> \in Seq(Word)
  BY LineParts DEF Value, Word
<1>4. a \in Seq(Word)
  BY <1>3, ContinuationsTyped, InOrderType
<1>5. ASSUME Continues(T, i, n) PROVE ValueTo(T, i, n + 1) = ValueTo(T, i, n) \o <<Break>> \o T[n].words
  <2>1. \A j \in S(n) : j \in Nat /\ j < n
    OBVIOUS
  <2>2. InOrder(Len(T), S(n) \cup {n}, Continuations(T)) = a \o Continuations(T)[n]
    <3> DEFINE N == Len(T)
               of == Continuations(T)
               s == S(n)
    <3>1. N \in Nat /\ n \in 1..N /\ \A j \in s : j \in Nat /\ j < n
      BY <1>3, <2>1
    <3>2. \A j \in 1..N : of[j] \in Seq(Word)
      BY ContinuationsTyped
    <3> HIDE DEF N, of, s
    <3>3. Joined(InOrder(N, s \cup {n}, of), InOrder(N, s, of), of[n])
      BY <3>1, <3>2, InOrderAdd
    <3>4. QED
      BY <3>3 DEF N, of, s, Joined
  <2>3. Continuations(T)[n] = <<Break>> \o w
    BY ContinuationsTyped
  <2>4. ValueTo(T, i, n + 1) = v \o (a \o (<<Break>> \o w)) /\ ValueTo(T, i, n) = v \o a
    BY <1>2, <1>5, <2>2, <2>3 DEF ValueTo
  <2> HIDE DEF v, a, w
  <2> DEFINE b == <<Break>>
             c == b \o w
             u == v \o a
             z == u \o b
  <2>5. b \in Seq(Word) /\ c \in Seq(Word) /\ u \in Seq(Word)
    BY <1>3, <1>4, ConcatProperties
  <2>6. v \o (a \o c) = z \o w
    <3>1. Joined(a \o c, a, c) /\ Joined(u, v, a) /\ Joined(u \o c, u, c) /\ Joined(z, u, b) /\ Joined(c, b, w)
      BY DEF Joined
    <3>a. Joined(z \o w, z, w)
      BY DEF Joined
    <3> HIDE DEF b, c, u, z
    <3>2. Joined(u \o c, v, a \o c)
      BY <1>3, <1>4, <2>5, <3>1, JoinThree
    <3>3. Joined(z \o w, u, c)
      BY <1>3, <2>5, <3>1, <3>a, JoinThree
    <3>4. QED
      BY <3>2, <3>3, Zenon DEF Joined
  <2>7. QED
    BY <2>4, <2>5, <2>6 DEF w
<1>6. ASSUME ~Continues(T, i, n) PROVE ValueTo(T, i, n + 1) = ValueTo(T, i, n)
  BY <1>2, <1>6 DEF ValueTo
<1>7. QED
  BY <1>5, <1>6

\* Nothing is added after the attribute ends.
LEMMA ValueEnds ==
  ASSUME NEW T \in Seq(Line), NEW i \in 1..Len(T), NEW n \in 1..(Len(T) + 1), i < n, Stops(T, n)
  PROVE  ValueTo(T, i, n) = ValueAt(T, i)
<1>1. DOMAIN T = 1..Len(T) /\ Len(T) \in Nat
  OBVIOUS
<1>2. ASSUME NEW j \in 1..Len(T), Continues(T, i, j) PROVE j \in 1..(n - 1)
  <2>1. CASE j < n
    BY <1>1, <2>1
  <2>2. CASE ~(j < n)
    <3>1. n \in (i + 1)..j /\ n # Len(T) + 1
      BY <1>1, <2>2
    <3>2. QED
      BY <1>2, <3>1 DEF Continues, Stops
  <2>3. QED
    BY <2>1, <2>2
<1>3. \A j \in 1..(n - 1) : j \in 1..Len(T)
  BY <1>1
<1>4. {j \in 1..(n - 1) : Continues(T, i, j)} = {j \in DOMAIN T : Continues(T, i, j)}
  <2> HIDE DEF Continues
  <2>1. QED
    BY <1>1, <1>2, <1>3
<1>5. QED
  BY <1>4 DEF ValueTo, ValueAt

-----------------------------------------------------------------------------
(* The stanza, line after line. *)

\* A blank line starts a new stanza, any other line belongs to the one before.
LEMMA StanzaNext ==
  ASSUME NEW T \in Seq(Line), NEW n \in 1..Len(T)
  PROVE  /\ Stanza(T, n + 1) = IF T[n].kind = "blank" THEN {} ELSE Stanza(T, n) \cup {n}
         /\ Attributes(T, n + 1) = IF T[n].kind = "blank" THEN {}
                                   ELSE IF T[n].kind = "attribute" THEN Attributes(T, n) \cup {n}
                                   ELSE Attributes(T, n)
<1> DEFINE K(k) == T[k].kind # "blank"
<1>1. n \in Nat /\ (n + 1) - 1 = n /\ \A i : i \in 1..n <=> i \in 1..(n - 1) \/ i = n
  OBVIOUS
<1>2. ASSUME NEW i \in 1..n
      PROVE  (\A k \in i..n : K(k)) <=> (\A k \in i..(n - 1) : K(k)) /\ K(n)
  <2>1. \A k : k \in i..n <=> k \in i..(n - 1) \/ k = n
    BY <1>1
  <2> HIDE DEF K
  <2>2. QED
    BY <2>1
<1>3. \A k \in n..(n - 1) : K(k)
  OBVIOUS
<1>4. Stanza(T, n + 1) = {i \in 1..n : \A k \in i..n : K(k)}
  BY <1>1 DEF Stanza
<1>5. Stanza(T, n) = {i \in 1..(n - 1) : \A k \in i..(n - 1) : K(k)}
  BY DEF Stanza
<1>6. Stanza(T, n + 1) = IF K(n) THEN Stanza(T, n) \cup {n} ELSE {}
  <2> HIDE DEF K
  <2>1. QED
    BY <1>1, <1>2, <1>3, <1>4, <1>5
<1>7. Attributes(T, n + 1) = {i \in Stanza(T, n + 1) : T[i].kind = "attribute"}
  BY DEF Attributes
<1>8. QED
  BY <1>6, <1>7 DEF Attributes

\* A stanza has the lines before its end.
LEMMA StanzaLines ==
  ASSUME NEW T \in Seq(Line), NEW n \in 1..(Len(T) + 1)
  PROVE  /\ \A i \in Stanza(T, n) : i \in 1..Len(T) /\ i \in Nat /\ i < n
         /\ \A i \in Attributes(T, n) : i \in 1..Len(T) /\ i \in Nat /\ i < n /\ T[i].kind = "attribute"
<1>1. \A i \in Stanza(T, n) : i \in 1..Len(T) /\ i \in Nat /\ i < n
  BY DEF Stanza
<1>2. QED
  BY <1>1 DEF Attributes

\* A continuation line continues the last attribute of its stanza.
LEMMA LastContinues ==
  ASSUME NEW T \in Seq(Line), NEW n \in 1..Len(T), NEW l \in Attributes(T, n),
         \A i \in Attributes(T, n) : i <= l, T[n].kind = "continuation"
  PROVE  Continues(T, l, n)
<1>1. l \in 1..(n - 1) /\ \A k \in l..(n - 1) : T[k].kind # "blank"
  BY DEF Attributes, Stanza
<1>2. ASSUME NEW k \in (l + 1)..n PROVE T[k].kind \notin {"attribute", "blank"}
  <2>1. CASE k = n
    BY <2>1
  <2>2. CASE k # n
    <3>1. k \in 1..(n - 1) /\ k \in l..(n - 1) /\ ~(k <= l)
      BY <1>1, <2>2
    <3>2. \A j \in k..(n - 1) : j \in l..(n - 1)
      BY <1>1, <3>1
    <3>3. k \in Stanza(T, n) /\ T[k].kind # "blank"
      BY <1>1, <3>1, <3>2 DEF Stanza
    <3>4. T[k].kind # "attribute"
      BY <3>1, <3>3 DEF Attributes
    <3>5. QED
      BY <3>3, <3>4
  <2>3. QED
    BY <2>1, <2>2
<1>3. l < n
  BY <1>1
<1>4. QED
  BY <1>2, <1>3 DEF Continues

\* One element after all others.
LEMMA AppendIsJoin ==
  ASSUME NEW S, NEW s \in Seq(S), NEW e \in S, NEW r, Joined(r, s, <<e>>) PROVE r = Append(s, e)
BY DEF Joined

\* The raw text gets every line but the ones that are dropped.
LEMMA RawNext ==
  ASSUME NEW T \in Seq(Line), NEW n \in 1..Len(T), T[n].kind # "blank"
  PROVE  /\ RawOf(T, n) \in Seq(Line)
         /\ RawOf(T, n + 1) = IF T[n].kind = "junk" THEN RawOf(T, n) ELSE Append(RawOf(T, n), T[n])
<1> DEFINE S(m) == {i \in Stanza(T, m) : T[i].kind # "junk"}
           N == Len(T)
           of == [i \in DOMAIN T |-> <<T[i]>>]
           s == S(n)
<1>1. N \in Nat /\ n \in 1..N /\ n \in 1..(N + 1) /\ T[n] \in Line
  OBVIOUS
<1>2. \A i \in 1..N : of[i] \in Seq(Line)
  OBVIOUS
<1>3. of[n] = <<T[n]>>
  OBVIOUS
<1>4. S(n + 1) = IF T[n].kind = "junk" THEN s ELSE s \cup {n}
  <2>1. Stanza(T, n + 1) = Stanza(T, n) \cup {n}
    BY StanzaNext
  <2>2. QED
    BY <2>1
<1>5. \A i \in s : i \in Nat /\ i < n
  BY <1>1, StanzaLines
<1>6. RawOf(T, n) = InOrder(N, s, of) /\ RawOf(T, n + 1) = InOrder(N, S(n + 1), of)
  BY DEF RawOf
<1> HIDE DEF N, of, s, S
<1>7. RawOf(T, n) \in Seq(Line)
  BY <1>1, <1>2, <1>6, InOrderType
<1>8. Joined(InOrder(N, s \cup {n}, of), InOrder(N, s, of), of[n])
  BY <1>1, <1>2, <1>5, InOrderAdd
<1>9. InOrder(N, s \cup {n}, of) = Append(RawOf(T, n), T[n])
  BY <1>1, <1>3, <1>6, <1>7, <1>8, AppendIsJoin
<1>10. QED
  BY <1>4, <1>6, <1>7, <1>9

\* An attribute after all others is the last of those with its name.
LEMMA ValuesAdd ==
  ASSUME NEW T \in Seq(Line), NEW C, NEW l \in 1..Len(T), \A i \in C : i \in Nat /\ i < l, NEW name
  PROVE  /\ ValuesOf(T, C, name) \in Seq(Value)
         /\ ValuesOf(T, C \cup {l}, name) = IF T[l].name = name THEN Append(ValuesOf(T, C, name), ValueAt(T, l))
                                            ELSE ValuesOf(T, C, name)
<1> DEFINE S(c) == {i \in c : T[i].name = name}
           N == Len(T)
           of == [i \in DOMAIN T |-> <<ValueAt(T, i)>>]
           s == S(C)
<1>1. N \in Nat /\ l \in 1..N /\ DOMAIN T = 1..N
  OBVIOUS
<1>2. \A i \in 1..N : of[i] \in Seq(Value) /\ of[i] = <<ValueAt(T, i)>>
  BY <1>1, ValuesTyped
<1>3. ValueAt(T, l) \in Value
  BY ValuesTyped
<1>4. S(C \cup {l}) = IF T[l].name = name THEN s \cup {l} ELSE s
  OBVIOUS
<1>5. \A i \in s : i \in Nat /\ i < l
  OBVIOUS
<1>6. ValuesOf(T, C, name) = InOrder(N, s, of) /\ ValuesOf(T, C \cup {l}, name) = InOrder(N, S(C \cup {l}), of)
  BY DEF ValuesOf
<1> HIDE DEF N, of, s, S
<1>7. ValuesOf(T, C, name) \in Seq(Value)
  BY <1>1, <1>2, <1>6, InOrderType
<1>8. Joined(InOrder(N, s \cup {l}, of), InOrder(N, s, of), of[l])
  BY <1>1, <1>2, <1>5, InOrderAdd
<1>9. InOrder(N, s \cup {l}, of) = Append(ValuesOf(T, C, name), ValueAt(T, l))
  BY <1>1, <1>2, <1>3, <1>6, <1>7, <1>8, AppendIsJoin
<1>10. QED
  BY <1>4, <1>6, <1>7, <1>9

\* The least element stays the least when a larger one is added.
LEMMA MinAdd ==
  ASSUME NEW S \in SUBSET Nat, NEW l \in Nat, \A i \in S : i < l
  PROVE  Min(S \cup {l}) = IF S = {} THEN l ELSE Min(S)
<1> DEFINE U == S \cup {l}
<1>1. Min(U) \in U /\ Min(U) \in Nat /\ \A y \in U : Min(U) <= y
  <2>1. U \in SUBSET Nat /\ U # {}
    OBVIOUS
  <2> HIDE DEF U
  <2>2. QED
    BY <2>1, MinOfNat
<1>2. CASE S = {}
  BY <1>1, <1>2
<1>3. CASE S # {}
  <2>1. Min(S) \in S /\ Min(S) \in Nat /\ \A y \in S : Min(S) <= y
    BY <1>3, MinOfNat
  <2> DEFINE a == Min(S)
             b == Min(U)
  <2>2. a \in Nat /\ b \in Nat /\ b <= a /\ a < l /\ (b = l \/ a <= b)
    BY <1>1, <2>1
  <2> HIDE DEF a, b
  <2>3. a = b
    BY <2>2
  <2>4. QED
    BY <1>3, <2>3 DEF a, b
<1>4. QED
  BY <1>2, <1>3

\* The first nic-hdl that is not empty is kept.
LEMMA NicHdlAdd ==
  ASSUME NEW T \in Seq(Line), NEW C, NEW l \in 1..Len(T), \A i \in C : i \in Nat /\ i < l
  PROVE  NicHdlOf(T, C \cup {l}) = IF T[l].name = "nic-hdl" /\ NicHdlOf(T, C) = <<>> THEN ValueAt(T, l)
                                   ELSE NicHdlOf(T, C)
<1> DEFINE S(c) == {i \in c : T[i].name = "nic-hdl" /\ ValueAt(T, i) # <<>>}
           s == S(C)
           named == T[l].name = "nic-hdl" /\ ValueAt(T, l) # <<>>
<1>1. /\ NicHdlOf(T, C) = IF s = {} THEN <<>> ELSE ValueAt(T, Min(s))
      /\ NicHdlOf(T, C \cup {l}) = IF S(C \cup {l}) = {} THEN <<>> ELSE ValueAt(T, Min(S(C \cup {l})))
  BY DEF NicHdlOf
<1>2. S(C \cup {l}) = IF named THEN s \cup {l} ELSE s
  OBVIOUS
<1>3. s \in SUBSET Nat /\ l \in Nat /\ \A i \in s : i < l /\ ValueAt(T, i) # <<>>
  OBVIOUS
<1> HIDE DEF s, S
<1>4. s # {} => ValueAt(T, Min(s)) # <<>>
  BY <1>3, MinOfNat
<1>5. Min(s \cup {l}) = IF s = {} THEN l ELSE Min(s)
  BY <1>3, MinAdd
<1>6. CASE named
  <2>1. s \cup {l} # {}
    OBVIOUS
  <2>2. QED
    BY <1>1, <1>2, <1>4, <1>5, <1>6, <2>1
<1>7. CASE ~named
  BY <1>1, <1>2, <1>4, <1>7
<1>8. QED
  BY <1>6, <1>7

-----------------------------------------------------------------------------
(* The parser follows the text. *)

\* o has the class, key, nic-hdl and handles of the attributes on lines C.
Committed(T, C, o) ==
  /\ \A k \in 1..4 : o.handles[k] = ValuesOf(T, C, HandleAttrs[k])
  /\ o.nicHdl = NicHdlOf(T, C)
  /\ \A m \in C : (\A i \in C : m <= i) => o.class = T[m].name /\ o.pk = ValueAt(T, m)

\* Before line n the attribute on line l is under construction, those on the
\* lines C are finished.
Open(T, n, C, l, p) ==
  /\ Attributes(T, n) = C \cup {l}
  /\ \A i \in C : i \in Nat /\ i < l
  /\ p.curName = T[l].name /\ p.curVal = ValueTo(T, l, n)
  /\ p.hadAttr <=> C # {}
  /\ Committed(T, C, p.obj)

\* Before line n no attribute of its stanza has been read.
Empty(T, n, p) ==
  /\ Attributes(T, n) = {} /\ p.curName = NoName /\ ~p.hadAttr
  /\ Committed(T, {}, p.obj)

Follows(T, n, p) ==
  /\ p.obj.raw = RawOf(T, n)
  /\ Empty(T, n, p) \/ \E C, l : Open(T, n, C, l, p)

\* The attribute under construction is the last one, and named.
LEMMA OpenLine ==
  ASSUME NEW T \in Seq(Line), NEW n \in 1..(Len(T) + 1), NEW p, NEW C, NEW l, Open(T, n, C, l, p)
  PROVE  /\ l \in 1..Len(T) /\ l \in Nat /\ l < n /\ T[l].name # NoName /\ p.curName # NoName
         /\ l \in Attributes(T, n) /\ \A i \in Attributes(T, n) : i \in Nat /\ i <= l
<1>1. l \in Attributes(T, n) /\ p.curName = T[l].name /\ \A i \in Attributes(T, n) : i \in C \/ i = l
  BY DEF Open
<1>2. l \in 1..Len(T) /\ l \in Nat /\ l < n /\ T[l].kind = "attribute"
  BY <1>1, StanzaLines
<1>3. T[l].name # NoName
  BY <1>2, LineParts
<1>4. \A i \in C : i \in Nat /\ i < l
  BY DEF Open
<1>5. \A i \in Attributes(T, n) : i \in Nat /\ i <= l
  BY <1>1, <1>2, <1>4
<1>6. QED
  BY <1>1, <1>2, <1>3, <1>5

\* Where an attribute ends, commit finishes the last one.
LEMMA CommitCommits ==
  ASSUME NEW T \in Seq(Line), NEW n \in 1..(Len(T) + 1), Stops(T, n),
         NEW p \in ParserState, NEW C, NEW l, Open(T, n, C, l, p), NEW q, q = commit(p)
  PROVE  Committed(T, Attributes(T, n), q.obj)
<1>1. l \in 1..Len(T) /\ l \in Nat /\ l < n /\ p.curName # NoName
  BY OpenLine
<1>2. /\ q.obj.class = IF p.hadAttr THEN p.obj.class ELSE p.curName
      /\ q.obj.pk = IF p.hadAttr THEN p.obj.pk ELSE p.curVal
      /\ q.obj.nicHdl = IF p.curName = "nic-hdl" /\ p.obj.nicHdl = <<>> THEN p.curVal ELSE p.obj.nicHdl
      /\ \A i \in 1..4 : q.obj.handles[i] = HandlesSoFar(p, i)
  BY <1>1, CommitFields
<1>3. p.curVal = ValueAt(T, l)
  BY <1>1, ValueEnds DEF Open
<1>4. /\ Attributes(T, n) = C \cup {l} /\ \A i \in C : i \in Nat /\ i < l
      /\ p.curName = T[l].name /\ (p.hadAttr <=> C # {})
  BY DEF Open
<1>5. /\ \A k \in 1..4 : p.obj.handles[k] = ValuesOf(T, C, HandleAttrs[k])
      /\ p.obj.nicHdl = NicHdlOf(T, C)
      /\ \A m \in C : (\A i \in C : m <= i) => p.obj.class = T[m].name /\ p.obj.pk = ValueAt(T, m)
  BY DEF Open, Committed
<1>6. ASSUME NEW k \in 1..4 PROVE q.obj.handles[k] = ValuesOf(T, C \cup {l}, HandleAttrs[k])
  <2>1. ValuesOf(T, C \cup {l}, HandleAttrs[k]) =
          IF T[l].name = HandleAttrs[k] THEN Append(ValuesOf(T, C, HandleAttrs[k]), ValueAt(T, l))
          ELSE ValuesOf(T, C, HandleAttrs[k])
    <3>1. l \in 1..Len(T) /\ \A i \in C : i \in Nat /\ i < l
      BY <1>1, <1>4
    <3>2. \A a : ValuesOf(T, C \cup {l}, a) = IF T[l].name = a THEN Append(ValuesOf(T, C, a), ValueAt(T, l))
                                             ELSE ValuesOf(T, C, a)
      BY <3>1, ValuesAdd
    <3>3. QED
      BY <3>2
  <2>2. q.obj.handles[k] = IF p.curName = HandleAttrs[k] THEN Append(p.obj.handles[k], p.curVal) ELSE p.obj.handles[k]
    BY <1>2 DEF HandlesSoFar
  <2>3. QED
    BY <1>3, <1>4, <1>5, <2>1, <2>2
<1>7. q.obj.nicHdl = NicHdlOf(T, C \cup {l})
  <2>1. NicHdlOf(T, C \cup {l}) = IF T[l].name = "nic-hdl" /\ NicHdlOf(T, C) = <<>> THEN ValueAt(T, l)
                                  ELSE NicHdlOf(T, C)
    BY <1>1, <1>4, NicHdlAdd
  <2>2. QED
    BY <1>2, <1>3, <1>4, <1>5, <2>1
<1>8. ASSUME NEW m \in C \cup {l}, \A i \in C \cup {l} : m <= i
      PROVE  q.obj.class = T[m].name /\ q.obj.pk = ValueAt(T, m)
  <2>1. CASE C = {}
    BY <1>2, <1>3, <1>4, <2>1
  <2>2. CASE C # {}
    <3>1. m \in C
      BY <1>1, <1>4, <1>8, <2>2
    <3>2. QED
      BY <1>2, <1>4, <1>5, <1>8, <2>2, <3>1
  <2>3. QED
    BY <2>1, <2>2
<1>9. QED
  BY <1>4, <1>6, <1>7, <1>8 DEF Committed

\* At the end of a stanza flush emits its object.
LEMMA FlushedIsStanza ==
  ASSUME NEW T \in Seq(Line), NEW n \in 1..(Len(T) + 1), Ends(T, n),
         NEW p \in ParserState, Follows(T, n, p)
  PROVE  flushed(p) = StanzaAt(T, n)
<1> DEFINE A == Attributes(T, n)
<1>1. CASE Empty(T, n, p)
  <2>1. commit(p) = p /\ ~p.hadAttr /\ A = {}
    BY <1>1 DEF Empty, commit
  <2>2. QED
    BY <2>1 DEF flushed, StanzaAt
<1>2. ASSUME NEW C, NEW l, Open(T, n, C, l, p) PROVE flushed(p) = StanzaAt(T, n)
  <2> DEFINE q == commit(p)
             o == q.obj
             m == Min(A)
             hs == [k \in 1..4 |-> ValuesOf(T, A, HandleAttrs[k])]
  <2>1. Stops(T, n)
    BY DEF Ends, Stops
  <2>2. p.curName # NoName /\ l \in A /\ A \in SUBSET Nat
    BY <1>2, OpenLine
  <2>3. q \in ParserState /\ q.hadAttr /\ o.raw = RawOf(T, n)
    BY <2>2, CommitFields DEF Follows
  <2>4. Committed(T, A, o)
    BY <1>2, <2>1, CommitCommits
  <2>5. m \in A /\ \A i \in A : m <= i
    <3> HIDE DEF A
    <3>1. QED
      BY <2>2, MinOfNat
  <2>6. o \in Object
    BY <2>3 DEF ParserState
  <2> HIDE DEF A, q
  <2>7. o.class = T[m].name /\ o.pk = ValueAt(T, m) /\ o.nicHdl = NicHdlOf(T, A)
    BY <2>4, <2>5 DEF Committed
  <2>8. o.handles = hs
    <3>1. o.handles \in [1..4 -> Seq(Value)]
      BY <2>6 DEF Object, Handles
    <3>2. \A k \in 1..4 : o.handles[k] = ValuesOf(T, A, HandleAttrs[k])
      BY <2>4 DEF Committed
    <3> HIDE DEF o
    <3>3. QED
      BY <3>1, <3>2
  <2>9. StanzaAt(T, n) = <<[class |-> T[m].name, pk |-> ValueAt(T, m), nicHdl |-> NicHdlOf(T, A),
                            handles |-> hs, raw |-> RawOf(T, n)]>>
    BY <2>2 DEF StanzaAt, A
  <2>10. flushed(p) = <<o>>
    BY <2>3 DEF flushed, q
  <2> HIDE DEF o, hs, m
  <2>11. o = [class |-> o.class, pk |-> o.pk, nicHdl |-> o.nicHdl, handles |-> o.handles, raw |-> o.raw]
    BY <2>6 DEF Object
  <2>12. o = [class |-> T[m].name, pk |-> ValueAt(T, m), nicHdl |-> NicHdlOf(T, A),
              handles |-> hs, raw |-> RawOf(T, n)]
    BY <2>3, <2>7, <2>8, <2>11 DEF o
  <2>13. QED
    BY <2>9, <2>10, <2>12
<1>3. QED
  BY <1>1, <1>2 DEF Follows

\* The text is empty before its first line and after a blank line.
LEMMA FreshStanza ==
  ASSUME NEW T \in Seq(Line), NEW n \in Nat \ {0}, Stanza(T, n) = {} PROVE Follows(T, n, Fresh)
<1> DEFINE N == Len(T)
           lines == [i \in DOMAIN T |-> <<T[i]>>]
           vals == [i \in DOMAIN T |-> <<ValueAt(T, i)>>]
<1>1. N \in Nat /\ DOMAIN T = 1..N /\ \A i \in 1..N : lines[i] \in Seq(Line)
  OBVIOUS
<1>2. \A i \in 1..N : vals[i] \in Seq(Value)
  BY <1>1, ValuesTyped
<1>3. /\ RawOf(T, n) = InOrder(N, {i \in {} : T[i].kind # "junk"}, lines)
      /\ \A k \in 1..4 : ValuesOf(T, {}, HandleAttrs[k]) = InOrder(N, {i \in {} : T[i].name = HandleAttrs[k]}, vals)
  BY DEF RawOf, ValuesOf
<1>4. RawOf(T, n) = InOrder(N, {}, lines) /\ \A k \in 1..4 : ValuesOf(T, {}, HandleAttrs[k]) = InOrder(N, {}, vals)
  <2>1. {i \in {} : T[i].kind # "junk"} = {} /\ \A k \in 1..4 : {i \in {} : T[i].name = HandleAttrs[k]} = {}
    OBVIOUS
  <2>2. QED
    BY <1>3, <2>1
<1>5. Attributes(T, n) = {} /\ NicHdlOf(T, {}) = <<>>
  BY DEF Attributes, NicHdlOf
<1> HIDE DEF N, lines, vals
<1>6. InOrder(N, {}, lines) = <<>>
  BY <1>1, InOrderType
<1>7. InOrder(N, {}, vals) = <<>>
  BY <1>1, <1>2, InOrderType
<1>8. Fresh.obj.nicHdl = <<>>
  BY DEF Fresh, NoObject
<1> HIDE DEF Fresh
<1>9. Committed(T, {}, Fresh.obj)
  BY <1>4, <1>5, <1>7, <1>8, FreshFields DEF Committed
<1>10. QED
  BY <1>4, <1>5, <1>6, <1>9, FreshFields DEF Follows, Empty

\* A line that is neither blank nor an attribute leaves the attributes alone.
LEMMA FollowsOther ==
  ASSUME NEW p \in ParserState, NEW line \in Line, line.kind \in {"comment", "continuation", "junk"},
         NEW q, q = consumed(p, line)
  PROVE  \A T \in Seq(Line) : \A n \in 1..Len(T) : line = T[n] /\ Follows(T, n, p) => Follows(T, n + 1, q)
<1>2. /\ q.obj.raw = IF line.kind = "junk" THEN p.obj.raw ELSE Append(p.obj.raw, line)
      /\ q.obj.class = p.obj.class /\ q.obj.pk = p.obj.pk /\ q.obj.handles = p.obj.handles
      /\ q.obj.nicHdl = p.obj.nicHdl /\ q.hadAttr = p.hadAttr /\ q.curName = p.curName
      /\ q.curVal = IF line.kind = "continuation" /\ p.curName # NoName THEN p.curVal \o <<Break>> \o line.words
                    ELSE p.curVal
  <2>1. CASE line.kind = "junk"
    <3>1. q = p
      BY <2>1 DEF consumed
    <3>2. QED
      BY <2>1, <3>1
  <2>2. CASE line.kind \in {"comment", "continuation"}
    <3>1. /\ q.obj.raw = Append(p.obj.raw, line)
          /\ q.obj.class = p.obj.class /\ q.obj.pk = p.obj.pk /\ q.obj.handles = p.obj.handles
          /\ q.obj.nicHdl = p.obj.nicHdl
          /\ q.hadAttr = p.hadAttr /\ q.curName = p.curName
          /\ q.curVal = IF line.kind = "comment" \/ p.curName = NoName THEN p.curVal
                        ELSE p.curVal \o <<Break>> \o line.words
      BY <2>2, ConsumedSame
    <3>2. QED
      BY <2>2, <3>1
  <2>3. QED
    BY <2>1, <2>2
<1> SUFFICES ASSUME NEW T \in Seq(Line), NEW n \in 1..Len(T), line = T[n], Follows(T, n, p)
             PROVE  Follows(T, n + 1, q)
  OBVIOUS
<1>1. T[n] \in Line /\ n \in 1..(Len(T) + 1) /\ Len(T) \in Nat
  OBVIOUS
<1>3. q.obj.raw = RawOf(T, n + 1)
  <2>1. p.obj.raw = RawOf(T, n) /\ T[n].kind # "blank"
    BY DEF Follows
  <2>2. QED
    BY <1>2, <2>1, RawNext
<1>4. Attributes(T, n + 1) = Attributes(T, n)
  BY StanzaNext
<1>5. CASE Empty(T, n, p)
  <2>1. Empty(T, n + 1, q)
    BY <1>2, <1>4, <1>5 DEF Empty, Committed
  <2>2. QED
    BY <1>3, <2>1 DEF Follows
<1>6. ASSUME NEW C, NEW l, Open(T, n, C, l, p) PROVE Open(T, n + 1, C, l, q)
  <2>1. /\ l \in 1..Len(T) /\ l < n /\ p.curName # NoName
        /\ l \in Attributes(T, n) /\ \A i \in Attributes(T, n) : i <= l
    BY <1>1, <1>6, OpenLine
  <2>2. ValueTo(T, l, n + 1) = IF Continues(T, l, n) THEN ValueTo(T, l, n) \o <<Break>> \o T[n].words
                               ELSE ValueTo(T, l, n)
    BY <2>1, ValueGrows
  <2>3. Continues(T, l, n) <=> T[n].kind = "continuation"
    <3>1. T[n].kind = "continuation" => Continues(T, l, n)
      BY <2>1, LastContinues
    <3>2. QED
      BY <3>1 DEF Continues
  <2>4. p.curVal = ValueTo(T, l, n)
    BY <1>6 DEF Open
  <2>5. q.curVal = ValueTo(T, l, n + 1)
    BY <1>2, <2>1, <2>2, <2>3, <2>4
  <2>6. Committed(T, C, q.obj)
    BY <1>2, <1>6 DEF Open, Committed
  <2>7. QED
    BY <1>2, <1>4, <1>6, <2>5, <2>6 DEF Open
<1>7. QED
  BY <1>3, <1>5, <1>6 DEF Follows

\* An attribute line finishes the attribute before it.
LEMMA FollowsNextAttribute ==
  ASSUME NEW p \in ParserState, NEW line \in Line, line.kind = "attribute", NEW q, q = consumed(p, line)
  PROVE  \A T \in Seq(Line) : \A n \in 1..Len(T) : line = T[n] /\ Follows(T, n, p) => Follows(T, n + 1, q)
<1> DEFINE c == commit(p)
<1>2. /\ q.obj.raw = Append(p.obj.raw, line)
      /\ q.obj.class = IF p.hadAttr \/ p.curName = NoName THEN p.obj.class ELSE p.curName
      /\ q.obj.pk = IF p.hadAttr \/ p.curName = NoName THEN p.obj.pk ELSE p.curVal
      /\ \A i \in 1..4 : q.obj.handles[i] = HandlesSoFar(p, i)
      /\ q.hadAttr <=> p.hadAttr \/ p.curName # NoName
      /\ q.obj.nicHdl = c.obj.nicHdl
      /\ q.curName = line.name /\ q.curVal = line.words
  BY ConsumedAttribute
<1> SUFFICES ASSUME NEW T \in Seq(Line), NEW n \in 1..Len(T), line = T[n], Follows(T, n, p)
             PROVE  Follows(T, n + 1, q)
  OBVIOUS
<1> DEFINE A == Attributes(T, n)
<1>1. T[n] \in Line /\ n \in 1..(Len(T) + 1) /\ Len(T) \in Nat /\ n \in Nat
  OBVIOUS
<1>3. q.obj.raw = RawOf(T, n + 1)
  BY <1>2, RawNext DEF Follows
<1>4. Attributes(T, n + 1) = A \cup {n}
  BY StanzaNext
<1>5. \A i \in A : i \in Nat /\ i < n
  BY <1>1, StanzaLines
<1>6. q.curVal = ValueTo(T, n, n + 1)
  BY <1>2, ValueStarts
<1>7. (q.hadAttr <=> A # {}) /\ Committed(T, A, q.obj)
  <2>1. CASE Empty(T, n, p)
    <3>1. c = p /\ A = {} /\ p.curName = NoName /\ ~p.hadAttr /\ Committed(T, {}, p.obj)
      BY <2>1 DEF Empty, commit
    <3>2. \A i \in 1..4 : HandlesSoFar(p, i) = p.obj.handles[i]
      BY <3>1, HandleAttrsNamed DEF HandlesSoFar
    <3> HIDE DEF A, c
    <3>3. Committed(T, {}, q.obj)
      BY <1>2, <3>1, <3>2 DEF Committed
    <3>4. QED
      BY <1>2, <3>1, <3>3
  <2>2. ASSUME NEW C, NEW l, Open(T, n, C, l, p) PROVE (q.hadAttr <=> A # {}) /\ Committed(T, A, q.obj)
    <3>1. p.curName # NoName /\ l \in A
      BY <1>1, <2>2, OpenLine
    <3>2. Committed(T, A, c.obj)
      <4>1. Stops(T, n)
        BY DEF Stops
      <4>2. QED
        BY <1>1, <2>2, <4>1, CommitCommits
    <3>3. /\ c.obj.class = IF p.hadAttr THEN p.obj.class ELSE p.curName
          /\ c.obj.pk = IF p.hadAttr THEN p.obj.pk ELSE p.curVal
          /\ \A i \in 1..4 : c.obj.handles[i] = HandlesSoFar(p, i)
      BY <3>1, CommitFields
    <3> HIDE DEF A, c
    <3>4. Committed(T, A, q.obj)
      BY <1>2, <3>1, <3>2, <3>3 DEF Committed
    <3>5. QED
      BY <1>2, <3>1, <3>4
  <2>3. QED
    BY <2>1, <2>2 DEF Follows
<1> HIDE DEF A
<1>8. Open(T, n + 1, A, n, q)
  BY <1>2, <1>4, <1>5, <1>6, <1>7 DEF Open
<1>9. QED
  BY <1>3, <1>8 DEF Follows

\* Every line that is not blank keeps the parser in step with the text.
LEMMA FollowsLine ==
  ASSUME NEW T \in Seq(Line), NEW n \in 1..Len(T), T[n].kind # "blank",
         NEW p \in ParserState, Follows(T, n, p)
  PROVE  Follows(T, n + 1, consumed(p, T[n]))
<1>1. T[n].kind \in LineKinds /\ T[n] \in Line
  BY LineParts
<1>2. CASE T[n].kind = "attribute"
  BY <1>1, <1>2, FollowsNextAttribute
<1>3. CASE T[n].kind \in {"comment", "continuation", "junk"}
  BY <1>1, <1>3, FollowsOther
<1>4. QED
  BY <1>1, <1>2, <1>3 DEF LineKinds

-----------------------------------------------------------------------------
(* The objects, stanza after stanza. *)

\* A sequence is a prefix of what it is the beginning of, and of itself.
LEMMA PrefixOf ==
  ASSUME NEW S, NEW s \in Seq(S), NEW t \in Seq(S), NEW r, Joined(r, s, t) PROVE IsPrefix(s, r)
<1> DEFINE n == Len(s)
<1>1. r = s \o t
  BY DEF Joined
<1>2. n \in Nat /\ r \in Seq(S) /\ Len(r) = n + Len(t) /\ Len(t) \in Nat /\ \A i \in 1..n : r[i] = s[i]
  BY <1>1, ConcatProperties
<1>3. SubSeq(s, 1, n) = SubSeq(r, 1, n)
  BY <1>2
<1>4. QED
  BY <1>2, <1>3 DEF IsPrefix

\* The objects of all stanzas of a text.
StanzaObjects(T) == {StanzaAt(T, b)[1] : b \in 1..(Len(T) + 1)}

\* A stanza has one of them or none.
LEMMA StanzaTyped ==
  ASSUME NEW T, NEW b \in 1..(Len(T) + 1) PROVE StanzaAt(T, b) \in Seq(StanzaObjects(T))
<1> DEFINE x == StanzaAt(T, b)[1]
           X == StanzaObjects(T)
<1>1. StanzaAt(T, b) = <<>> \/ StanzaAt(T, b) = <<x>>
  BY DEF StanzaAt
<1>2. x \in X
  BY DEF StanzaObjects
<1> HIDE DEF x, X
<1>3. <<>> \in Seq(X) /\ <<x>> \in Seq(X)
  BY <1>2, EmptySeq
<1>4. QED
  BY <1>1, <1>3 DEF X

\* The end of a stanza adds its object, every other line nothing.
LEMMA ObjectsNext ==
  ASSUME NEW T \in Seq(Line), NEW n \in 1..(Len(T) + 1)
  PROVE  /\ Ends(T, n) => Joined(ObjectsBefore(T, n + 1), ObjectsBefore(T, n), StanzaAt(T, n))
         /\ ~Ends(T, n) => ObjectsBefore(T, n + 1) = ObjectsBefore(T, n)
<1> DEFINE N == Len(T) + 1
           X == StanzaObjects(T)
           of == [b \in 1..N |-> StanzaAt(T, b)]
           S(m) == {b \in 1..(m - 1) : Ends(T, b)}
           s == S(n)
<1>1. N \in Nat /\ n \in 1..N /\ n \in Nat /\ of[n] = StanzaAt(T, n)
  OBVIOUS
<1>2. \A b \in 1..N : of[b] \in Seq(X)
  BY StanzaTyped
<1>3. S(n + 1) = IF Ends(T, n) THEN s \cup {n} ELSE s
  <2>1. \A b : b \in 1..((n + 1) - 1) <=> b \in 1..(n - 1) \/ b = n
    BY <1>1
  <2> HIDE DEF Ends
  <2>2. QED
    BY <2>1
<1>4. \A b \in s : b \in Nat /\ b < n
  BY <1>1
<1>5. ObjectsBefore(T, n) = InOrder(N, s, of) /\ ObjectsBefore(T, n + 1) = InOrder(N, S(n + 1), of)
  BY DEF ObjectsBefore
<1> HIDE DEF N, X, of, s, S
<1>6. Joined(InOrder(N, s \cup {n}, of), InOrder(N, s, of), of[n])
  BY <1>1, <1>2, <1>4, InOrderAdd
<1>7. QED
  BY <1>1, <1>3, <1>5, <1>6

\* They are a sequence.
LEMMA ObjectsTyped ==
  ASSUME NEW T \in Seq(Line), NEW n \in Nat \ {0} PROVE Len(ObjectsBefore(T, n)) \in Nat
<1> DEFINE N == Len(T) + 1
           X == StanzaObjects(T)
           of == [b \in 1..N |-> StanzaAt(T, b)]
           s == {b \in 1..(n - 1) : Ends(T, b)}
<1>1. N \in Nat /\ ObjectsBefore(T, n) = InOrder(N, s, of)
  BY DEF ObjectsBefore
<1>2. \A b \in 1..N : of[b] \in Seq(X)
  BY StanzaTyped
<1> HIDE DEF N, X, of, s
<1>3. ObjectsBefore(T, n) \in Seq(X)
  BY <1>1, <1>2, InOrderType
<1>4. QED
  BY <1>3

\* There are none before the first line.
LEMMA NoObjects ==
  ASSUME NEW T \in Seq(Line) PROVE ObjectsBefore(T, 1) = <<>>
<1> DEFINE N == Len(T) + 1
           X == StanzaObjects(T)
           of == [b \in 1..N |-> StanzaAt(T, b)]
           s == {b \in 1..(1 - 1) : Ends(T, b)}
<1>1. N \in Nat /\ s = {} /\ ObjectsBefore(T, 1) = InOrder(N, s, of)
  BY DEF ObjectsBefore
<1>2. \A b \in 1..N : of[b] \in Seq(X)
  BY StanzaTyped
<1> HIDE DEF N, X, of, s
<1>3. QED
  BY <1>1, <1>2, InOrderType

-----------------------------------------------------------------------------
(* The goroutines of a reload are in step with their texts. *)

\* The parser has read the lines before n, of whatever text they begin.
FollowsLines(T, n, p) ==
  \A U \in Seq(Line) : n <= Len(U) + 1 /\ (\A i \in 1..(n - 1) : U[i] = T[i]) => Follows(U, n, p)

InStep(T, at, n, p, e) ==
  /\ at \in {"wait", "parse"} => n <= Len(T) + 1 /\ FollowsLines(T, n, p)
  /\ at = "done" => n = Len(T) + 2
  /\ IF at = "failed"
     THEN IsPrefix(e, ObjectsBefore(T, n)) \/ e = ObjectsBefore(T, n) \o HalfRead(T, n)
     ELSE e = ObjectsBefore(T, n)

StanzaInv ==
  /\ ParseInv
  /\ \A f \in Files : InStep(text[f], pc[f], pos[f], parse[f], emitted[f])
  /\ outcome = "swapped" => \A f \in Files : pc[f] = "done"

\* A parser that has read the lines of its text follows it.
LEMMA FollowsItsText ==
  ASSUME NEW T \in Seq(Line), NEW n \in Nat, n <= Len(T) + 1, NEW p, FollowsLines(T, n, p)
  PROVE  Follows(T, n, p)
BY DEF FollowsLines

\* After the end of a stanza the parser starts afresh.
LEMMA FreshAfterBlank ==
  ASSUME NEW T \in Seq(Line), NEW n \in 1..Len(T), T[n].kind = "blank"
  PROVE  FollowsLines(T, n + 1, Fresh)
<1> SUFFICES ASSUME NEW U \in Seq(Line), n + 1 <= Len(U) + 1, \A i \in 1..((n + 1) - 1) : U[i] = T[i]
             PROVE  Follows(U, n + 1, Fresh)
  BY DEF FollowsLines
<1>1. n \in 1..Len(U) /\ n + 1 \in Nat \ {0} /\ U[n].kind = "blank"
  OBVIOUS
<1>2. Stanza(U, n + 1) = {}
  BY <1>1, StanzaNext
<1>3. QED
  BY <1>1, <1>2, FreshStanza

\* A line that is not blank keeps the parser in step.
LEMMA LineFollows ==
  ASSUME NEW T \in Seq(Line), NEW n \in 1..Len(T), T[n].kind # "blank",
         NEW p \in ParserState, FollowsLines(T, n, p)
  PROVE  FollowsLines(T, n + 1, consumed(p, T[n]))
<1> SUFFICES ASSUME NEW U \in Seq(Line), n + 1 <= Len(U) + 1, \A i \in 1..((n + 1) - 1) : U[i] = T[i]
             PROVE  Follows(U, n + 1, consumed(p, T[n]))
  BY DEF FollowsLines
<1>1. n \in 1..Len(U) /\ n <= Len(U) + 1 /\ U[n] = T[n] /\ \A i \in 1..(n - 1) : U[i] = T[i]
  OBVIOUS
<1>2. Follows(U, n, p)
  BY <1>1 DEF FollowsLines
<1>3. QED
  BY <1>1, <1>2, FollowsLine

\* What flush makes of a stanza that is cut before line n.
LEMMA CutStanza ==
  ASSUME NEW T \in Seq(Line), NEW n \in 1..(Len(T) + 1), NEW p \in ParserState, FollowsLines(T, n, p)
  PROVE  flushed(p) = StanzaAt(SubSeq(T, 1, n - 1), n)
<1> DEFINE U == SubSeq(T, 1, n - 1)
<1>1. U \in Seq(Line) /\ Len(U) = n - 1 /\ \A i \in 1..(n - 1) : U[i] = T[i]
  OBVIOUS
<1> HIDE DEF U
<1>2. n \in 1..(Len(U) + 1) /\ n <= Len(U) + 1 /\ n = Len(U) + 1
  BY <1>1
<1>3. Follows(U, n, p)
  BY <1>1, <1>2 DEF FollowsLines
<1>4. Ends(U, n)
  BY <1>2 DEF Ends
<1>5. flushed(p) = StanzaAt(U, n)
  BY <1>1, <1>2, <1>3, <1>4, FlushedIsStanza
<1>6. QED
  BY <1>5 DEF U

\* What flush emits at the end of a stanza completes the objects so far.
LEMMA FlushInStep ==
  ASSUME NEW T \in Seq(Line), NEW n \in 1..(Len(T) + 1), Ends(T, n),
         NEW p \in ParserState, ScanFollows(p), NEW e \in Seq(Object), InStep(T, "parse", n, p, e)
  PROVE  /\ Joined(ObjectsBefore(T, n + 1), e, flushed(p))
         /\ IsPrefix(e, ObjectsBefore(T, n + 1))
         /\ n <= Len(T) => FollowsLines(T, n + 1, Fresh)
<1>1. Follows(T, n, p) /\ e = ObjectsBefore(T, n)
  BY FollowsItsText DEF InStep
<1>2. flushed(p) = StanzaAt(T, n)
  BY <1>1, FlushedIsStanza
<1>3. Joined(ObjectsBefore(T, n + 1), e, flushed(p))
  BY <1>1, <1>2, ObjectsNext
<1>4. flushed(p) \in Seq(Object)
  <2>1. CASE flushed(p) = <<>>
    BY <2>1, EmptySeq
  <2>2. CASE flushed(p) # <<>>
    <3> DEFINE o == flushed(p)[1]
    <3>1. flushed(p) = <<o>> /\ o \in Object
      BY <2>2, FlushedReadable
    <3> HIDE DEF o
    <3>2. <<o>> \in Seq(Object)
      BY <3>1
    <3>3. QED
      BY <3>1, <3>2
  <2>3. QED
    BY <2>1, <2>2
<1>5. IsPrefix(e, ObjectsBefore(T, n + 1))
  <2> DEFINE r == ObjectsBefore(T, n + 1)
             t == flushed(p)
  <2>1. Joined(r, e, t) /\ t \in Seq(Object)
    BY <1>3, <1>4
  <2> HIDE DEF r, t
  <2>2. IsPrefix(e, r)
    BY <2>1, PrefixOf
  <2>3. QED
    BY <2>2 DEF r
<1>6. ASSUME n <= Len(T) PROVE FollowsLines(T, n + 1, Fresh)
  <2>1. Len(T) \in Nat /\ n \in 1..Len(T)
    BY <1>6
  <2>2. T[n].kind = "blank"
    BY <2>1 DEF Ends
  <2>3. QED
    BY <2>1, <2>2, FreshAfterBlank
<1>7. QED
  BY <1>3, <1>5, <1>6

\* A reload starts before the first line of every file.
LEMMA StanzaInit == Init => StanzaInv
<1> SUFFICES ASSUME Init PROVE StanzaInv
  OBVIOUS
<1>1. ParseInv
  BY ParseInit
<1>2. ASSUME NEW f \in Files PROVE InStep(text[f], pc[f], pos[f], parse[f], emitted[f])
  <2> DEFINE T == text[f]
  <2>1. T \in Seq(Line)
    BY LoaderAssumption DEF Init, Files
  <2>2. pc[f] = "wait" /\ pos[f] = 1 /\ parse[f] = Fresh /\ emitted[f] = <<>>
    BY DEF Init
  <2> HIDE DEF T
  <2>3. Len(T) \in Nat /\ FollowsLines(T, 1, Fresh)
    <3>1. ASSUME NEW U \in Seq(Line) PROVE Follows(U, 1, Fresh)
      <4>1. Stanza(U, 1) = {}
        BY DEF Stanza
      <4>2. QED
        BY <4>1, FreshStanza
    <3>2. QED
      BY <2>1, <3>1 DEF FollowsLines
  <2>4. ObjectsBefore(T, 1) = <<>>
    BY <2>1, NoObjects
  <2>5. InStep(T, "wait", 1, Fresh, <<>>)
    BY <2>3, <2>4 DEF InStep
  <2>6. QED
    BY <2>2, <2>5 DEF T
<1>3. outcome # "swapped"
  BY DEF Init
<1>4. QED
  BY <1>1, <1>2, <1>3 DEF StanzaInv

\* flush keeps a goroutine in step.
LEMMA FlushStanza ==
  ASSUME StanzaInv, NEW f \in Files, NEW then, Flush(f, then), pc[f] = "parse", Ends(text[f], pos[f]),
         (then = "parse" /\ pos[f] <= Len(text[f])) \/ (then = "done" /\ pos[f] = Len(text[f]) + 1),
         text' = text, pos' = [pos EXCEPT ![f] = @ + 1]
  PROVE  \A g \in Files : InStep(text'[g], pc'[g], pos'[g], parse'[g], emitted'[g])
<1> DEFINE T == text[f]
           n == pos[f]
           p == parse[f]
           e == emitted[f]
           objs == flushed(p)
<1>1. /\ T \in Seq(Line) /\ n \in Nat \ {0} /\ p \in ParserState /\ e \in Seq(Object) /\ ScanFollows(p)
      /\ f \in DOMAIN pc /\ f \in DOMAIN pos /\ f \in DOMAIN parse /\ f \in DOMAIN emitted
      /\ InStep(T, "parse", n, p, e)
  BY LoaderAssumption DEF StanzaInv, ParseInv, LoaderTypes, Files
<1>2. n \in 1..(Len(T) + 1)
  BY <1>1 DEF InStep
<1>3. /\ parse' = [parse EXCEPT ![f] = Fresh]
      /\ \/ objs = <<>> /\ pc' = [pc EXCEPT ![f] = then] /\ emitted' = emitted
         \/ pc' = [pc EXCEPT ![f] = "failed"] /\ emitted' = emitted
         \/ pc' = [pc EXCEPT ![f] = then] /\ emitted' = [emitted EXCEPT ![f] = e \o objs]
  BY DEF Flush, reset
<1>4. ASSUME NEW g \in Files, g # f PROVE InStep(text'[g], pc'[g], pos'[g], parse'[g], emitted'[g])
  <2>1. pc'[g] = pc[g] /\ pos'[g] = pos[g] /\ parse'[g] = parse[g] /\ emitted'[g] = emitted[g]
    <3> HIDE DEF objs, e
    <3>1. QED
      BY <1>3, <1>4 DEF StanzaInv, ParseInv, LoaderTypes
  <2>2. QED
    BY <1>4, <2>1 DEF StanzaInv
<1>5. text'[f] = T /\ pos'[f] = n + 1 /\ parse'[f] = Fresh
  BY <1>1, <1>3
<1>6. \/ objs = <<>> /\ pc'[f] = then /\ emitted'[f] = e
      \/ pc'[f] = "failed" /\ emitted'[f] = e
      \/ pc'[f] = then /\ emitted'[f] = e \o objs
  <2> HIDE DEF objs
  <2>1. QED
    BY <1>1, <1>3
<1>7. /\ Joined(ObjectsBefore(T, n + 1), e, objs) /\ IsPrefix(e, ObjectsBefore(T, n + 1))
      /\ n <= Len(T) => FollowsLines(T, n + 1, Fresh)
  <2>1. Ends(T, n)
    OBVIOUS
  <2> HIDE DEF T, n, p, e
  <2>2. QED
    BY <1>1, <1>2, <2>1, FlushInStep
<1>8. objs = <<>> => e \o objs = e
  BY <1>1, ConcatEmptySeq
<1>9. (then = "parse" /\ n <= Len(T)) \/ (then = "done" /\ n = Len(T) + 1)
  OBVIOUS
<1> HIDE DEF T, n, p, e, objs
<1>10. Len(T) \in Nat /\ n \in Nat
  BY <1>1
<1>11. InStep(T, pc'[f], n + 1, Fresh, emitted'[f])
  <2>1. CASE pc'[f] = "failed" /\ emitted'[f] = e
    BY <1>7, <2>1 DEF InStep
  <2>2. CASE pc'[f] = then /\ emitted'[f] = e \o objs
    <3>1. emitted'[f] = ObjectsBefore(T, n + 1)
      BY <1>7, <2>2 DEF Joined
    <3>2. QED
      BY <1>7, <1>9, <1>10, <2>2, <3>1 DEF InStep
  <2>3. QED
    BY <1>6, <1>8, <2>1, <2>2
<1>12. QED
  BY <1>4, <1>5, <1>11

\* A read that fails leaves the beginning of the objects, or all of them and
\* the half-read one.
LEMMA ErrorInStep ==
  ASSUME NEW T \in Seq(Line), NEW n \in Nat \ {0}, NEW p \in ParserState, NEW e \in Seq(Object),
         InStep(T, "parse", n, p, e), NEW p2, NEW e2,
         \/ e2 = e
         \/ n <= Len(T) /\ T[n].kind \in {"blank", "continuation"} /\ e2 = e \o flushed(p)
  PROVE  InStep(T, "failed", n, p2, e2)
<1>1. n <= Len(T) + 1 /\ FollowsLines(T, n, p) /\ e = ObjectsBefore(T, n)
  BY DEF InStep
<1>2. CASE e2 = e
  <2>1. IsPrefix(e, e)
    BY EmptySeq, ConcatEmptySeq, PrefixOf DEF Joined
  <2>2. QED
    BY <1>1, <1>2, <2>1 DEF InStep
<1>3. CASE n <= Len(T) /\ T[n].kind \in {"blank", "continuation"} /\ e2 = e \o flushed(p)
  <2>1. n \in 1..(Len(T) + 1)
    BY <1>1
  <2>2. flushed(p) = StanzaAt(SubSeq(T, 1, n - 1), n)
    BY <1>1, <2>1, CutStanza
  <2>3. flushed(p) = HalfRead(T, n)
    BY <1>3, <2>2 DEF HalfRead
  <2>4. QED
    BY <1>1, <1>3, <2>3 DEF InStep
<1>4. QED
  BY <1>2, <1>3

\* A read error keeps a goroutine in step.
LEMMA ErrorStanza ==
  ASSUME StanzaInv, NEW f \in Files, ReadError(f)
  PROVE  \A g \in Files : InStep(text'[g], pc'[g], pos'[g], parse'[g], emitted'[g])
<1> DEFINE T == text[f]
           n == pos[f]
           p == parse[f]
           e == emitted[f]
           objs == flushed(p)
<1>1. /\ T \in Seq(Line) /\ n \in Nat \ {0} /\ p \in ParserState /\ e \in Seq(Object)
      /\ f \in DOMAIN pc /\ f \in DOMAIN parse /\ f \in DOMAIN emitted
      /\ InStep(T, "parse", n, p, e) /\ text' = text /\ pos' = pos
  BY LoaderAssumption DEF ReadError, StanzaInv, ParseInv, LoaderTypes, Files
<1>2. /\ pc' = [pc EXCEPT ![f] = "failed"]
      /\ parse' = parse \/ parse' = [parse EXCEPT ![f] = Fresh]
      /\ \/ emitted' = emitted
         \/ n <= Len(T) /\ T[n].kind \in {"blank", "continuation"} /\ emitted' = [emitted EXCEPT ![f] = e \o objs]
  BY DEF ReadError, Flush, reset
<1>3. ASSUME NEW g \in Files, g # f PROVE InStep(text'[g], pc'[g], pos'[g], parse'[g], emitted'[g])
  <2>1. pc'[g] = pc[g] /\ parse'[g] = parse[g] /\ emitted'[g] = emitted[g]
    <3> HIDE DEF objs, e
    <3>1. QED
      BY <1>2, <1>3 DEF StanzaInv, ParseInv, LoaderTypes
  <2>2. QED
    BY <1>1, <1>3, <2>1 DEF StanzaInv
<1>4. /\ pc'[f] = "failed"
      /\ \/ emitted'[f] = e
         \/ n <= Len(T) /\ T[n].kind \in {"blank", "continuation"} /\ emitted'[f] = e \o objs
  <2> HIDE DEF objs
  <2>1. QED
    BY <1>1, <1>2
<1>5. InStep(T, "failed", n, parse'[f], emitted'[f])
  <2>1. objs = flushed(p)
    OBVIOUS
  <2> HIDE DEF T, n, p, e, objs
  <2>2. QED
    BY <1>1, <1>4, <2>1, ErrorInStep
<1>6. text'[f] = T /\ pos'[f] = n
  BY <1>1
<1>7. QED
  BY <1>3, <1>4, <1>5, <1>6

\* Every step keeps the goroutines in step.
LEMMA StanzaStep ==
  ASSUME StanzaInv, [Next]_vars PROVE StanzaInv'
<1> USE DEF StanzaInv
<1>0. ParseInv' /\ text' = text
  BY ParseStep DEF Next, vars, Begin, ReadLine, EndOfFile, ReadError, Cancel, Finish
<1>a. ASSUME NEW f \in Files, pc[f] \in {"wait", "parse"} PROVE outcome # "swapped"
  BY <1>a
<1>1. ASSUME NEW f \in Files, Begin(f) PROVE StanzaInv'
  <2>1. ASSUME NEW g \in Files PROVE InStep(text'[g], pc'[g], pos'[g], parse'[g], emitted'[g])
    <3>1. pos' = pos /\ parse' = parse /\ emitted' = emitted /\ InStep(text[g], pc[g], pos[g], parse[g], emitted[g])
      BY <1>1 DEF Begin
    <3>2. pc'[g] = pc[g] \/ (pc[g] = "wait" /\ pc'[g] = "parse")
      <4>1. pc' = [pc EXCEPT ![f] = "parse"] /\ pc[f] = "wait"
        BY <1>1 DEF Begin
      <4>2. pc \in [Files -> {"wait", "parse", "done", "failed"}]
        BY DEF ParseInv, LoaderTypes
      <4> HIDE DEF StanzaInv
      <4>3. CASE g = f
        BY <4>1, <4>2, <4>3
      <4>4. CASE g # f
        BY <4>1, <4>2, <4>4
      <4>5. QED
        BY <4>3, <4>4
    <3>3. QED
      BY <1>0, <3>1, <3>2 DEF InStep
  <2>2. outcome' # "swapped"
    BY <1>1, <1>a DEF Begin
  <2>3. QED
    BY <1>0, <2>1, <2>2 DEF Files
<1>2. ASSUME NEW f \in Files, ReadLine(f) PROVE StanzaInv'
  <2> DEFINE T == text[f]
             n == pos[f]
             p == parse[f]
  <2>1. T \in Seq(Line) /\ n \in 1..Len(T) /\ p \in ParserState /\ pc[f] = "parse" /\ pos' = [pos EXCEPT ![f] = @ + 1]
    <3>1. T \in Seq(Line) /\ p \in ParserState /\ n \in Nat \ {0}
      BY LoaderAssumption DEF ParseInv, LoaderTypes, Files
    <3>2. n <= Len(T) /\ pc[f] = "parse" /\ pos' = [pos EXCEPT ![f] = @ + 1]
      BY <1>2 DEF ReadLine
    <3> HIDE DEF T, n, p
    <3>3. n \in 1..Len(T)
      BY <3>1, <3>2
    <3>4. QED
      BY <3>1, <3>2, <3>3
  <2>2. CASE T[n].kind = "blank"
    <3>1. Flush(f, "parse") /\ Ends(T, n) /\ n <= Len(T)
      BY <1>2, <2>1, <2>2 DEF ReadLine, Ends
    <3>a. outcome' # "swapped"
      BY <1>2, <1>a DEF ReadLine
    <3>2. \A g \in Files : InStep(text'[g], pc'[g], pos'[g], parse'[g], emitted'[g])
      BY <1>0, <2>1, <3>1, FlushStanza
    <3>3. QED
      BY <1>0, <3>a, <3>2 DEF Files
  <2>3. CASE T[n].kind # "blank"
    <3>1. parse' = [parse EXCEPT ![f] = consumed(p, T[n])] /\ pc' = pc /\ emitted' = emitted
      BY <1>2, <2>3 DEF ReadLine
    <3>2. FollowsLines(T, n, p) /\ emitted[f] = ObjectsBefore(T, n)
      BY <2>1 DEF InStep
    <3>3. FollowsLines(T, n + 1, consumed(p, T[n]))
      <4> HIDE DEF T, n, p
      <4>1. QED
        BY <2>1, <2>3, <3>2, LineFollows
    <3>4. n \in 1..(Len(T) + 1) /\ ~Ends(T, n) /\ n + 1 <= Len(T) + 1
      BY <2>1, <2>3 DEF Ends
    <3>5. ObjectsBefore(T, n + 1) = ObjectsBefore(T, n)
      <4> HIDE DEF T, n
      <4>1. QED
        BY <2>1, <3>4, ObjectsNext
    <3> DEFINE q == consumed(p, T[n])
    <3>6. InStep(T, "parse", n + 1, q, emitted[f])
      BY <3>2, <3>3, <3>4, <3>5 DEF InStep
    <3> HIDE DEF q
    <3>7. parse' = [parse EXCEPT ![f] = q]
      BY <3>1 DEF q
    <3>8. ASSUME NEW g \in Files PROVE InStep(text'[g], pc'[g], pos'[g], parse'[g], emitted'[g])
      <4>1. CASE g = f
        <5>1. pos'[g] = n + 1 /\ parse'[g] = q
          BY <2>1, <3>7, <4>1 DEF ParseInv, LoaderTypes
        <5>2. QED
          BY <1>0, <2>1, <3>1, <3>6, <4>1, <5>1
      <4>2. CASE g # f
        <5>1. pos'[g] = pos[g] /\ parse'[g] = parse[g]
          BY <2>1, <3>7, <4>2 DEF ParseInv, LoaderTypes
        <5>2. InStep(text[g], pc[g], pos[g], parse[g], emitted[g])
          OBVIOUS
        <5>3. QED
          BY <1>0, <3>1, <5>1, <5>2
      <4>3. QED
        BY <4>1, <4>2
    <3>9. outcome' # "swapped"
      BY <1>2, <1>a DEF ReadLine
    <3>10. QED
      BY <1>0, <3>8, <3>9 DEF Files
  <2>4. QED
    BY <2>2, <2>3
<1>3. ASSUME NEW f \in Files, EndOfFile(f) PROVE StanzaInv'
  <2>1. /\ Flush(f, "done") /\ pc[f] = "parse" /\ Ends(text[f], pos[f]) /\ pos' = [pos EXCEPT ![f] = @ + 1]
        /\ pos[f] = Len(text[f]) + 1
    BY <1>3 DEF EndOfFile, Ends
  <2>2. \A g \in Files : InStep(text'[g], pc'[g], pos'[g], parse'[g], emitted'[g])
    BY <1>0, <2>1, FlushStanza
  <2>3. outcome' # "swapped"
    BY <1>3, <1>a DEF EndOfFile
  <2>4. QED
    BY <1>0, <2>2, <2>3 DEF Files
<1>4. ASSUME NEW f \in Files, ReadError(f) PROVE StanzaInv'
  <2>1. \A g \in Files : InStep(text'[g], pc'[g], pos'[g], parse'[g], emitted'[g])
    BY <1>0, <1>4, ErrorStanza
  <2>2. outcome' # "swapped"
    BY <1>4, <1>a DEF ReadError
  <2>3. QED
    BY <1>0, <2>1, <2>2 DEF Files
<1>5. CASE Cancel
  BY <1>0, <1>5 DEF Cancel, Files
<1>6. CASE Finish
  <2>1. UNCHANGED <<text, pc, pos, parse, emitted>>
    BY <1>6 DEF Finish
  <2>2. outcome' = "swapped" => \A f \in Files : pc[f] = "done"
    <3>1. \A f \in Files : pc[f] \in {"done", "failed"}
      BY <1>6 DEF Finish
    <3>2. outcome' = "swapped" => ~\E f \in Files : pc[f] = "failed"
      BY <1>6 DEF Finish
    <3>3. QED
      BY <3>1, <3>2
  <2>3. QED
    BY <1>0, <2>1, <2>2 DEF Files
<1>7. CASE UNCHANGED vars
  BY <1>0, <1>7 DEF vars, Files
<1>8. QED
  BY <1>1, <1>2, <1>3, <1>4, <1>5, <1>6, <1>7 DEF Next

\* Whatever the dumps are and wherever reads fail, every parser has emitted the
\* objects of exactly the stanzas whose end it has read, but for the one that a
\* failed read leaves half read; and dumps that become active are whole.
THEOREM StanzasParsed == Spec => []ParsedStanzas
<1>1. Spec => []StanzaInv
  BY StanzaInit, StanzaStep, PTL DEF Spec
<1>2. ASSUME StanzaInv PROVE ParsedStanzas
  <2> DEFINE is(f, objs) == Claimed(text[f], emitted[f]) = Claimed(text[f], objs)
             all(f) == ObjectsBefore(text[f], pos[f])
  <2>1. ASSUME NEW f \in Files, pc[f] # "failed" PROVE is(f, all(f))
    BY <1>2, <2>1 DEF StanzaInv, InStep
  <2>2. ASSUME NEW f \in Files, pc[f] = "failed"
        PROVE  (\E n \in 0..Len(all(f)) : is(f, SubSeq(all(f), 1, n))) \/ is(f, all(f) \o HalfRead(text[f], pos[f]))
    <3> DEFINE e == emitted[f]
               a == all(f)
    <3>1. e \in Seq(Object) /\ (IsPrefix(e, a) \/ e = a \o HalfRead(text[f], pos[f]))
      BY <1>2, <2>2 DEF StanzaInv, InStep, ParseInv, LoaderTypes
    <3>2. CASE e = a \o HalfRead(text[f], pos[f])
      BY <3>2
    <3>3. CASE IsPrefix(e, a)
      <4>1. Len(a) \in Nat
        <5>1. text[f] \in Seq(Line) /\ pos[f] \in Nat \ {0}
          BY <1>2, LoaderAssumption DEF StanzaInv, ParseInv, LoaderTypes, Files
        <5>2. QED
          BY <5>1, ObjectsTyped
      <4> HIDE DEF e, a
      <4>2. Len(e) \in 0..Len(a) /\ e = SubSeq(a, 1, Len(e))
        BY <3>1, <3>3, <4>1 DEF IsPrefix
      <4>3. QED
        BY <4>2 DEF e, a
    <3>4. QED
      BY <3>1, <3>2, <3>3
  <2>3. ASSUME outcome = "swapped", NEW f \in Files PROVE is(f, ObjectsBefore(text[f], Len(text[f]) + 2))
    BY <1>2, <2>3 DEF StanzaInv, InStep
  <2>4. QED
    BY <2>1, <2>2, <2>3 DEF ParsedStanzas
<1>3. QED
  BY <1>1, <1>2, PTL
=============================================================================
