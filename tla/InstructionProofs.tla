------------------------- MODULE InstructionProofs --------------------------
(***************************************************************************)
(* Instructions: what integer arithmetic and the AMOs compute, for any     *)
(* width of registers and words and any operands; what the decoders take   *)
(* from every 16-bit and 32-bit instruction; and that LR and SC make an    *)
(* atomic update, for any threads, words and virtual addresses, if the     *)
(* kernel drops the reservation with an LR and an SC of its own.           *)
(***************************************************************************)
EXTENDS Atomics, PureFunctions, FiniteSetTheorems, WellFoundedInduction, TLAPS

(* The least element of a set of numbers: induction for what follows.      *)
LEMMA LeastOf ==
    ASSUME NEW S \in SUBSET Nat, S # {}
    PROVE  \E n \in S : \A m \in S : ~(m < n)
<1>1. PICK n \in S : \A m \in S : ~(<<m, n>> \in OpToRel(<, Nat))
  BY NatLessThanWellFounded, WFMin, Zenon
<1> QED
  BY <1>1 DEF OpToRel

-----------------------------------------------------------------------------
(* Powers of two up to the n-th, as a function.                            *)
IsPow(n, g) == g = [k \in 0 .. n |-> IF k = 0 THEN 1 ELSE 2 * g[k - 1]]

(* There is such a function for every n.                                   *)
LEMMA PowExists == \A n \in Nat : \E g : IsPow(n, g)
<1> DEFINE S == {n \in Nat : ~ \E g : IsPow(n, g)}
<1> SUFFICES ASSUME S # {} PROVE FALSE
  OBVIOUS
<1>0. S \in SUBSET Nat
  OBVIOUS
<1>1. PICK n \in S : \A m \in S : ~(m < n)
  <2> HIDE DEF S
  <2> QED
    BY <1>0, LeastOf
<1>2. CASE n = 0
  <2> DEFINE g == [k \in 0 .. 0 |-> 1]
  <2>1. IsPow(0, g)
    BY DEF IsPow
  <2> QED
    BY <1>1, <1>2, <2>1
<1>3. CASE n # 0
  <2>1. n - 1 \in Nat /\ n \in Nat /\ n - 1 \notin S
    BY <1>1, <1>3
  <2>2. PICK f : IsPow(n - 1, f)
    BY <2>1
  <2> DEFINE g == [k \in 0 .. n |-> IF k = n THEN 2 * f[n - 1] ELSE f[k]]
  <2>3. ASSUME NEW k \in 0 .. n PROVE g[k] = IF k = 0 THEN 1 ELSE 2 * g[k - 1]
    <3>1. CASE k = n
      <4>1. g[n] = 2 * f[n - 1] /\ g[n - 1] = f[n - 1]
        BY <2>1
      <4> HIDE DEF g
      <4> QED
        BY <1>3, <3>1, <4>1
    <3>2. CASE k # n
      <4>1. k \in 0 .. (n - 1) /\ g[k] = f[k] /\ (k # 0 => g[k - 1] = f[k - 1])
        BY <2>1, <3>2
      <4> HIDE DEF g
      <4>2. f[k] = IF k = 0 THEN 1 ELSE 2 * f[k - 1]
        BY <2>2, <4>1 DEF IsPow
      <4> QED
        BY <4>1, <4>2
    <3> QED
      BY <3>1, <3>2
  <2>4. IsPow(n, g)
    BY <2>3 DEF IsPow
  <2> QED
    BY <1>1, <2>4
<1> QED
  BY <1>2, <1>3

(* Two such functions agree where both are defined.                        *)
LEMMA PowAgree ==
    ASSUME NEW m \in Nat, NEW n \in Nat, NEW f, NEW g, IsPow(m, f), IsPow(n, g)
    PROVE  \A k \in Nat : k <= m /\ k <= n => f[k] = g[k]
<1> DEFINE S == {k \in Nat : k <= m /\ k <= n /\ f[k] # g[k]}
<1> SUFFICES ASSUME S # {} PROVE FALSE
  OBVIOUS
<1>0. S \in SUBSET Nat
  OBVIOUS
<1>1. PICK k \in S : \A j \in S : ~(j < k)
  <2> HIDE DEF S
  <2> QED
    BY <1>0, LeastOf
<1>2. k \in 0 .. m /\ k \in 0 .. n /\ k \in Nat
  BY <1>1
<1>3. f[k] = (IF k = 0 THEN 1 ELSE 2 * f[k - 1]) /\ g[k] = (IF k = 0 THEN 1 ELSE 2 * g[k - 1])
  BY <1>2 DEF IsPow
<1>4. k # 0
  BY <1>1, <1>3
<1>5. k - 1 \in Nat /\ k - 1 \notin S /\ k - 1 <= m /\ k - 1 <= n
  BY <1>1, <1>2, <1>4
<1>6. f[k - 1] = g[k - 1]
  BY <1>5
<1> QED
  BY <1>1, <1>3, <1>4, <1>6

(* So the recursion that defines Pow2 has a solution.                      *)
LEMMA Pow2Is ==
    Pow2[0] = 1 /\ \A n \in Nat : Pow2[n + 1] = 2 * Pow2[n]
<1> DEFINE G(n) == CHOOSE g : IsPow(n, g)
           f    == [n \in Nat |-> G(n)[n]]
           IsP(h) == h = [n \in Nat |-> IF n = 0 THEN 1 ELSE 2 * h[n - 1]]
<1>1. \A n \in Nat : IsPow(n, G(n))
  BY PowExists, Zenon
<1> HIDE DEF G
<1>2. ASSUME NEW n \in Nat PROVE f[n] = IF n = 0 THEN 1 ELSE 2 * f[n - 1]
  <2>1. n \in 0 .. n
    OBVIOUS
  <2>2. G(n)[n] = IF n = 0 THEN 1 ELSE 2 * G(n)[n - 1]
    BY <1>1, <2>1 DEF IsPow
  <2>3. n # 0 => n - 1 \in Nat /\ n - 1 <= n /\ n - 1 <= n - 1
    OBVIOUS
  <2>4. n # 0 => G(n)[n - 1] = G(n - 1)[n - 1]
    BY <1>1, <2>3, PowAgree
  <2> QED
    BY <2>2, <2>3, <2>4
<1>3. IsP(f)
  BY <1>2
<1>4. IsP(Pow2)
  <2>1. Pow2 = CHOOSE h : IsP(h)
    BY Zenon DEF Pow2
  <2> HIDE DEF IsP, f
  <2> QED
    BY <1>3, <2>1
<1>5. ASSUME NEW n \in Nat PROVE Pow2[n] = IF n = 0 THEN 1 ELSE 2 * Pow2[n - 1]
  BY <1>4
<1> HIDE DEF IsP, f
<1>6. ASSUME NEW n \in Nat PROVE Pow2[n + 1] = 2 * Pow2[n]
  <2>1. n + 1 \in Nat /\ n + 1 # 0 /\ (n + 1) - 1 = n
    OBVIOUS
  <2> QED
    BY <1>5, <2>1
<1> QED
  BY <1>5, <1>6

(* Powers are positive.                                                    *)
LEMMA Pow2Type == \A n \in Nat : Pow2[n] \in Nat \ {0}
<1> DEFINE S == {n \in Nat : Pow2[n] \notin Nat \ {0}}
<1> SUFFICES ASSUME S # {} PROVE FALSE
  OBVIOUS
<1>0. S \in SUBSET Nat
  OBVIOUS
<1>1. PICK n \in S : \A m \in S : ~(m < n)
  <2> HIDE DEF S
  <2> QED
    BY <1>0, LeastOf
<1>2. n # 0
  BY <1>1, Pow2Is
<1>3. n - 1 \in Nat /\ n - 1 \notin S /\ (n - 1) + 1 = n
  BY <1>1, <1>2
<1>4. Pow2[n] = 2 * Pow2[n - 1] /\ Pow2[n - 1] \in Nat \ {0}
  BY <1>3, Pow2Is
<1> QED
  BY <1>1, <1>4

(* The power of a sum is the product of the powers.                        *)
LEMMA Pow2Sum == \A m, n \in Nat : Pow2[m + n] = Pow2[m] * Pow2[n]
<1> SUFFICES ASSUME NEW m \in Nat PROVE \A n \in Nat : Pow2[m + n] = Pow2[m] * Pow2[n]
  OBVIOUS
<1> DEFINE S == {n \in Nat : Pow2[m + n] # Pow2[m] * Pow2[n]}
<1> SUFFICES ASSUME S # {} PROVE FALSE
  OBVIOUS
<1>0. S \in SUBSET Nat
  OBVIOUS
<1>1. PICK n \in S : \A k \in S : ~(k < n)
  <2> HIDE DEF S
  <2> QED
    BY <1>0, LeastOf
<1>2. n # 0
  BY <1>1, Pow2Is, Pow2Type
<1>3. n - 1 \in Nat /\ n - 1 \notin S /\ (n - 1) + 1 = n /\ (m + (n - 1)) + 1 = m + n /\ m + (n - 1) \in Nat
  BY <1>1, <1>2
<1>4. Pow2[n] = 2 * Pow2[n - 1] /\ Pow2[m + n] = 2 * Pow2[m + (n - 1)]
  BY <1>3, Pow2Is
<1>5. Pow2[m + (n - 1)] = Pow2[m] * Pow2[n - 1]
  BY <1>3
<1>6. Pow2[m] \in Nat /\ Pow2[n - 1] \in Nat
  BY <1>3, Pow2Type
<1>7. \A a, b \in Nat : 2 * (a * b) = a * (2 * b)
  OBVIOUS
<1>8. Pow2[m + n] = Pow2[m] * Pow2[n]
  BY <1>4, <1>5, <1>6, <1>7
<1> QED
  BY <1>1, <1>8

-----------------------------------------------------------------------------
(* Arithmetic modulo m: the numbers that are 0 are the multiples of m.     *)
Multiples(m) == {m * q : q \in Int}

(* Sums and differences of multiples are multiples.                        *)
LEMMA MultiplesClosed ==
    ASSUME NEW m \in Nat \ {0}, NEW a \in Multiples(m), NEW b \in Multiples(m)
    PROVE  a + b \in Multiples(m) /\ a - b \in Multiples(m) /\ a \in Int /\ b \in Int
<1>1. PICK p \in Int : a = m * p
  BY DEF Multiples
<1>2. PICK q \in Int : b = m * q
  BY DEF Multiples
<1>3. a + b = m * (p + q) /\ a - b = m * (p - q) /\ p + q \in Int /\ p - q \in Int
  BY <1>1, <1>2
<1>4. \A k \in Int : m * k \in Multiples(m) /\ m * k \in Int
  BY DEF Multiples
<1>5. m * (p + q) \in Multiples(m) /\ m * (p - q) \in Multiples(m)
  BY <1>3, <1>4
<1> QED
  BY <1>1, <1>2, <1>3, <1>4, <1>5, Zenon

(* Products of a multiple are multiples.                                   *)
LEMMA MultiplesTimes ==
    ASSUME NEW m \in Nat \ {0}, NEW a \in Multiples(m), NEW c \in Int
    PROVE  a * c \in Multiples(m)
<1>1. PICK p \in Int : a = m * p
  BY DEF Multiples
<1>2. a * c = m * (p * c) /\ p * c \in Int
  BY <1>1
<1> QED
  BY <1>2 DEF Multiples

(* m and 0 are multiples of m.                                             *)
LEMMA MultiplesHas ==
    ASSUME NEW m \in Nat \ {0}
    PROVE  m \in Multiples(m) /\ 0 \in Multiples(m)
<1>1. m = m * 1 /\ 0 = m * 0
  OBVIOUS
<1> QED
  BY <1>1 DEF Multiples

(* A number differs from its remainder by a multiple.                      *)
LEMMA RemainderIs ==
    ASSUME NEW m \in Nat \ {0}, NEW n \in Int
    PROVE  n % m \in 0 .. (m - 1) /\ n - (n % m) \in Multiples(m)
<1>1. n \div m \in Int /\ n % m \in 0 .. (m - 1) /\ n % m = n - m * (n \div m)
  OBVIOUS
<1>2. m * (n \div m) \in Multiples(m) /\ m * (n \div m) \in Int
  BY <1>1 DEF Multiples
<1> DEFINE k == m * (n \div m)
           r == n % m
<1> HIDE DEF k, r
<1>3. k \in Multiples(m) /\ k \in Int /\ r = n - k
  BY <1>1, <1>2 DEF k, r
<1>4. n - r = k
  BY <1>3
<1> QED
  BY <1>1, <1>3, <1>4 DEF r

(* Two remainders that differ by a multiple are equal.                     *)
LEMMA RemainderUnique ==
    ASSUME NEW m \in Nat \ {0}, NEW r \in 0 .. (m - 1), NEW s \in 0 .. (m - 1),
           r - s \in Multiples(m)
    PROVE  r = s
<1>1. PICK q \in Int : r - s = m * q
  BY DEF Multiples
<1>2. r - s < m /\ r - s > -m
  OBVIOUS
<1>3. q < 1 /\ q > -1
  BY <1>1, <1>2
<1> QED
  BY <1>1, <1>3

(* Numbers have the same remainder exactly if they differ by a multiple.   *)
LEMMA SameRemainder ==
    ASSUME NEW m \in Nat \ {0}, NEW a \in Int, NEW b \in Int
    PROVE  a % m = b % m <=> a - b \in Multiples(m)
<1> DEFINE r == a % m
           s == b % m
<1>1. r \in 0 .. (m - 1) /\ s \in 0 .. (m - 1) /\ a - r \in Multiples(m) /\ b - s \in Multiples(m)
  BY RemainderIs
<1> HIDE DEF r, s
<1> DEFINE x == a - r
           y == b - s
           d == a - b
<1>2. r \in Int /\ s \in Int /\ x \in Int /\ y \in Int /\ d \in Int
  BY <1>1
<1>3. r - s = (d - x) + y /\ d = (r - s) + (x - y)
  BY <1>2
<1>4. x - y \in Multiples(m)
  BY <1>1, MultiplesClosed
<1>5. ASSUME r = s PROVE d \in Multiples(m)
  <2>1. d = x - y
    BY <1>2, <1>3, <1>5
  <2> QED
    BY <1>4, <2>1
<1>6. ASSUME d \in Multiples(m) PROVE r = s
  <2> HIDE DEF d, x, y
  <2>1. d - x \in Multiples(m)
    BY <1>1, <1>6, MultiplesClosed DEF x
  <2>2. (d - x) + y \in Multiples(m)
    BY <1>1, <2>1, MultiplesClosed DEF y
  <2>3. r - s \in Multiples(m)
    BY <1>3, <2>2
  <2> QED
    BY <1>1, <2>3, RemainderUnique
<1> QED
  BY <1>5, <1>6 DEF r, s, d

(* A number below m is its own remainder.                                  *)
LEMMA NoWrap ==
    ASSUME NEW m \in Nat \ {0}, NEW n \in 0 .. (m - 1)
    PROVE  n % m = n
OBVIOUS

(* Multiples of a product are multiples of its factors.                    *)
LEMMA MultiplesOfProduct ==
    ASSUME NEW m \in Nat \ {0}, NEW k \in Nat \ {0}
    PROVE  m * k \in Nat \ {0} /\ Multiples(m * k) \subseteq Multiples(m)
<1>1. m * k \in Nat \ {0}
  OBVIOUS
<1>2. ASSUME NEW a \in Multiples(m * k) PROVE a \in Multiples(m)
  <2>1. PICK q \in Int : a = (m * k) * q
    BY DEF Multiples
  <2>2. a = m * (k * q) /\ k * q \in Int
    BY <2>1
  <2> QED
    BY <2>2 DEF Multiples
<1> QED
  BY <1>1, <1>2

(* Cutting twice is cutting once.                                          *)
LEMMA CutTwice ==
    ASSUME NEW m \in Nat \ {0}, NEW k \in Nat \ {0}, NEW n \in Int
    PROVE  (n % (m * k)) % m = n % m
<1> DEFINE c == m * k
           r == n % c
<1>1. c \in Nat \ {0} /\ Multiples(c) \subseteq Multiples(m)
  BY MultiplesOfProduct
<1> HIDE DEF c
<1>2. r \in 0 .. (c - 1) /\ n - r \in Multiples(c)
  BY <1>1, RemainderIs, Zenon
<1> HIDE DEF r
<1>3. r \in Int /\ n - r \in Multiples(m)
  BY <1>1, <1>2
<1>4. n % m = r % m
  BY <1>3, SameRemainder
<1> QED
  BY <1>4 DEF r, c

-----------------------------------------------------------------------------
(* A width of w bits: M values, half of them not negative.                 *)
LEMMA WidthIs ==
    ASSUME NEW w \in Nat \ {0}
    PROVE  /\ Pow2[w - 1] \in Nat \ {0} /\ Pow2[w] \in Nat \ {0} /\ Pow2[w] = 2 * Pow2[w - 1]
<1>1. w - 1 \in Nat /\ (w - 1) + 1 = w
  OBVIOUS
<1> QED
  BY <1>1, Pow2Is, Pow2Type

(* The signed value of a register lies around 0 and has its bits.          *)
LEMMA SignedIs ==
    ASSUME NEW w \in Nat \ {0}, NEW x \in 0 .. (Pow2[w] - 1)
    PROVE  /\ Signed(x, w) \in Int /\ -Pow2[w - 1] <= Signed(x, w) /\ Signed(x, w) < Pow2[w - 1]
           /\ x - Signed(x, w) \in Multiples(Pow2[w])
           /\ Signed(x, w) < 0 <=> x >= Pow2[w - 1]
           /\ Signed(x, w) = 0 <=> x = 0
<1> DEFINE H == Pow2[w - 1]
           M == Pow2[w]
<1>1. H \in Nat \ {0} /\ M \in Nat \ {0} /\ M = 2 * H
  BY WidthIs
<1>2. Signed(x, w) = IF x >= H THEN x - M ELSE x
  BY DEF Signed
<1> HIDE DEF H, M
<1>3. M \in Multiples(M) /\ 0 \in Multiples(M)
  BY <1>1, MultiplesHas
<1>4. x \in 0 .. (M - 1)
  BY DEF M
<1> DEFINE s == Signed(x, w)
<1> HIDE DEF s
<1>5. x - s = M \/ x - s = 0
  BY <1>1, <1>2, <1>4 DEF s
<1>6. s \in Int /\ -H <= s /\ s < H /\ (s < 0 <=> x >= H) /\ (s = 0 <=> x = 0)
  BY <1>1, <1>2, <1>4 DEF s
<1>7. x - s \in Multiples(M)
  BY <1>3, <1>5
<1> QED
  BY <1>6, <1>7 DEF H, M, s

(* A number around 0 is the signed value of its low bits.                  *)
LEMMA SignedOf ==
    ASSUME NEW w \in Nat \ {0}, NEW s \in Int, -Pow2[w - 1] <= s, s < Pow2[w - 1]
    PROVE  s % Pow2[w] \in 0 .. (Pow2[w] - 1) /\ Signed(s % Pow2[w], w) = s
<1> DEFINE H == Pow2[w - 1]
           M == Pow2[w]
           x == s % M
<1>1. H \in Nat \ {0} /\ M \in Nat \ {0} /\ M = 2 * H
  BY WidthIs
<1> HIDE DEF H, M
<1>2. x \in 0 .. (M - 1) /\ s - x \in Multiples(M)
  BY <1>1, RemainderIs
<1>3. Signed(x, w) = IF x >= H THEN x - M ELSE x
  BY DEF Signed, H, M
<1> HIDE DEF x
<1>4. -H <= s /\ s < H
  BY DEF H
<1>5. CASE s >= 0
  <2>1. s \in 0 .. (M - 1)
    BY <1>1, <1>4, <1>5
  <2>2. s = x
    BY <1>1, <1>2, <2>1, RemainderUnique
  <2> QED
    BY <1>1, <1>2, <1>3, <1>4, <2>2 DEF x, M
<1>6. CASE s < 0
  <2>1. s + M \in 0 .. (M - 1)
    BY <1>1, <1>4, <1>6
  <2>2. (s - x) + M \in Multiples(M) /\ (s - x) + M = (s + M) - x
    <3>1. (s - x) + M = (s + M) - x
      BY <1>1, <1>2
    <3>2. (s - x) + M \in Multiples(M)
      BY <1>1, <1>2, MultiplesHas, MultiplesClosed
    <3> QED
      BY <3>1, <3>2
  <2>3. s + M = x
    BY <1>1, <1>2, <2>1, <2>2, RemainderUnique
  <2>4. x >= H /\ x - M = s
    BY <1>1, <1>4, <2>3
  <2> QED
    BY <1>2, <1>3, <2>4 DEF x, M
<1> QED
  BY <1>5, <1>6

-----------------------------------------------------------------------------
(* Division of natural numbers; dividing by more than 1 makes smaller.     *)
LEMMA DivNat ==
    ASSUME NEW n \in Nat, NEW d \in Nat \ {0}
    PROVE  LET q == n \div d
               r == n - d * q
           IN  /\ q \in Nat /\ r \in 0 .. (d - 1) /\ n % d = r
               /\ q <= n /\ (d > 1 /\ n > 0 => q < n) /\ d * q \in Nat /\ r <= n
<1> DEFINE q == n \div d
           p == d * q
           r == n - p
<1>1. q \in Int /\ n % d \in 0 .. (d - 1) /\ n % d = r
  OBVIOUS
<1>2. q \in Nat
  OBVIOUS
<1> HIDE DEF q
<1>3. p \in Nat /\ p >= q /\ (d > 1 /\ q > 0 => p > q)
  <2>1. d * q = q + (d - 1) * q
    BY <1>2
  <2>2. (d - 1) * q \in Nat /\ (d > 1 /\ q > 0 => (d - 1) * q > 0)
    <3>1. d - 1 \in Nat
      OBVIOUS
    <3>2. \A a, b \in Nat : a * b \in Nat /\ (a > 0 /\ b > 0 => a * b > 0)
      OBVIOUS
    <3> QED
      BY <1>2, <3>1, <3>2
  <2> DEFINE e == (d - 1) * q
  <2>3. p = q + e /\ e \in Nat /\ (d > 1 /\ q > 0 => e > 0)
    BY <2>1, <2>2
  <2> HIDE DEF e, p
  <2> QED
    BY <1>2, <2>3
<1> HIDE DEF p
<1>4. r \in 0 .. (d - 1)
  BY <1>1
<1>5. p <= n
  BY <1>3, <1>4
<1>6. r <= n
  BY <1>3
<1>7. q <= n /\ (d > 1 /\ n > 0 => q < n)
  BY <1>2, <1>3, <1>5
<1> QED
  BY <1>1, <1>2, <1>3, <1>4, <1>6, <1>7 DEF p, q

(* The / and % of C: they fit together, and the quotient is no larger than *)
(* the dividend, and smaller if the divisor is not 1 or -1.                *)
LEMMA QuotRem ==
    ASSUME NEW a \in Int, NEW b \in Int \ {0}
    PROVE  LET q == Quot(a, b)
               r == Rem(a, b)
           IN  /\ q \in Int /\ r \in Int /\ IsDivision(a, b, q, r)
               /\ Abs(q) <= Abs(a) /\ (Abs(b) > 1 /\ a # 0 => Abs(q) < Abs(a)) /\ Abs(r) <= Abs(a)
               /\ (a < 0) # (b < 0) => q <= 0
               /\ r # 0 => (r < 0) = (a < 0)
<1> DEFINE n == Abs(a)
           d == Abs(b)
           k == n \div d
           p == d * k
           t == n - p
           q == Quot(a, b)
           r == Rem(a, b)
<1>1. n \in Nat /\ d \in Nat \ {0} /\ (a < 0 => n = -a) /\ (a >= 0 => n = a)
      /\ (b < 0 => d = -b) /\ (b > 0 => d = b)
  BY DEF Abs
<1>2. /\ k \in Nat /\ t \in 0 .. (d - 1) /\ p \in Nat
      /\ k <= n /\ (d > 1 /\ n > 0 => k < n) /\ t <= n
  <2> HIDE DEF n, d
  <2> QED
    BY <1>1, DivNat
<1>3. q = IF (a < 0) = (b < 0) THEN k ELSE -k
  BY DEF Quot
<1>4. r = a - b * q
  BY DEF Rem
<1> HIDE DEF n, d, k, q, r
<1>5. q \in Int /\ (q = k \/ q = -k)
  BY <1>2, <1>3
<1>6. b * q = IF a < 0 THEN -p ELSE p
  <2>1. \A x, y \in Int : (-x) * y = -(x * y) /\ x * (-y) = -(x * y) /\ (-x) * (-y) = x * y
    OBVIOUS
  <2>2. (b = d \/ b = -d) /\ (b < 0 <=> b = -d)
    BY <1>1
  <2>3. CASE a < 0 /\ b < 0
    <3>1. q = k /\ b = -d
      BY <1>3, <2>2, <2>3
    <3> QED
      BY <1>1, <1>2, <2>1, <2>3, <3>1
  <2>4. CASE a < 0 /\ ~(b < 0)
    <3>1. q = -k /\ b = d
      BY <1>3, <2>2, <2>4
    <3> QED
      BY <1>1, <1>2, <2>1, <2>4, <3>1
  <2>5. CASE ~(a < 0) /\ b < 0
    <3>1. q = -k /\ b = -d
      BY <1>3, <2>2, <2>5
    <3> QED
      BY <1>1, <1>2, <2>1, <2>5, <3>1
  <2>6. CASE ~(a < 0) /\ ~(b < 0)
    <3>1. q = k /\ b = d
      BY <1>3, <2>2, <2>6
    <3> QED
      BY <1>1, <1>2, <2>1, <2>6, <3>1
  <2> QED
    BY <2>3, <2>4, <2>5, <2>6
<1> DEFINE s == b * q
<1>7. s \in Int /\ s = (IF a < 0 THEN -p ELSE p) /\ q * b = s
  BY <1>2, <1>5, <1>6
<1>8. r = a - s
  BY <1>4
<1> HIDE DEF s, p
<1>9. r = (IF a < 0 THEN -t ELSE t) /\ r \in Int /\ t \in Nat
  BY <1>1, <1>2, <1>7, <1>8
<1>10. a = q * b + r
  BY <1>7, <1>8
<1> HIDE DEF t
<1>11. Abs(r) = t /\ Abs(q) = k
  BY <1>2, <1>5, <1>9 DEF Abs
<1>12. Abs(r) < d /\ Abs(r) <= n /\ Abs(q) <= n /\ (d > 1 /\ a # 0 => Abs(q) < n)
  <2>1. a # 0 => n > 0
    BY <1>1
  <2> QED
    BY <1>1, <1>2, <1>11, <2>1
<1>13. r # 0 => (r < 0) = (a < 0)
  BY <1>9
<1>14. (a < 0) # (b < 0) => q <= 0
  BY <1>2, <1>3
<1> QED
  BY <1>5, <1>9, <1>10, <1>12, <1>13, <1>14 DEF IsDivision, n, d, q, r

(* The quotient and remainder of signed values of w bits fit into w bits,  *)
(* but for the one that Overflows names.                                   *)
LEMMA QuotRemFit ==
    ASSUME NEW H \in Nat \ {0}, NEW a \in Int, -H <= a, a < H, NEW b \in Int \ {0}, -H <= b, b < H
    PROVE  /\ a = -H /\ b = -1 => Quot(a, b) = H /\ Rem(a, b) = 0
           /\ ~(a = -H /\ b = -1) => -H <= Quot(a, b) /\ Quot(a, b) < H
           /\ -H <= Rem(a, b) /\ Rem(a, b) < H
<1> DEFINE q == Quot(a, b)
           r == Rem(a, b)
<1>1. /\ q \in Int /\ r \in Int /\ a = q * b + r /\ Abs(r) < Abs(b)
      /\ Abs(q) <= Abs(a) /\ (Abs(b) > 1 /\ a # 0 => Abs(q) < Abs(a)) /\ Abs(r) <= Abs(a)
      /\ (a < 0) # (b < 0) => q <= 0
      /\ r # 0 => (r < 0) = (a < 0)
  BY QuotRem DEF IsDivision
<1> HIDE DEF q, r
<1>2. -H <= r /\ r < H
  BY <1>1 DEF Abs
<1>3. ASSUME ~(a = -H /\ b = -1) PROVE -H <= q /\ q < H
  <2>1. -H <= q /\ q <= H
    BY <1>1 DEF Abs
  <2>2. ASSUME q = H PROVE FALSE
    <3>1. a = -H
      BY <1>1, <2>2 DEF Abs
    <3>2. b < 0
      BY <1>1, <2>2, <3>1
    <3>3. Abs(b) > 1
      BY <1>3, <3>1, <3>2 DEF Abs
    <3> QED
      BY <1>1, <2>2, <3>1, <3>3 DEF Abs
  <2> QED
    BY <1>1, <2>1, <2>2
<1>4. ASSUME a = -H, b = -1 PROVE q = H /\ r = 0
  <2>1. r = 0
    BY <1>1, <1>4 DEF Abs
  <2>2. q * (-1) = -q
    BY <1>1
  <2> QED
    BY <1>1, <1>4, <2>1, <2>2
<1> QED
  BY <1>2, <1>3, <1>4 DEF q, r

(* DIV, REM, DIVU and REMU at any width.                                   *)
LEMMA DivisionAtWidth ==
    ASSUME NEW w \in Nat \ {0}, NEW a \in 0 .. (Pow2[w] - 1), NEW b \in 0 .. (Pow2[w] - 1)
    PROVE  DivisionIsRight(a, b, w)
<1> DEFINE H  == Pow2[w - 1]
           M  == Pow2[w]
           sa == Signed(a, w)
           sb == Signed(b, w)
           Q  == Quot(sa, sb)
           R  == Rem(sa, sb)
<1>1. H \in Nat \ {0} /\ M \in Nat \ {0} /\ M = 2 * H
  BY WidthIs
<1>2. /\ sa \in Int /\ -H <= sa /\ sa < H /\ sb \in Int /\ -H <= sb /\ sb < H /\ (sb = 0 <=> b = 0)
      /\ (sa < 0 <=> a >= H) /\ (sb < 0 <=> b >= H)
  BY SignedIs
<1>3. a \in 0 .. (M - 1) /\ b \in 0 .. (M - 1) /\ a \in Nat /\ b \in Nat
  BY <1>1
<1>4. sa = (IF a >= H THEN a - M ELSE a) /\ (Overflows(a, b, w) <=> sa = -H /\ sb = -1)
  BY DEF Signed, Overflows
<1>5. /\ MExt("DIV", a, b, w) = IF b = 0 THEN {M - 1} ELSE {Q % M} \cup Signal(a, b, w)
      /\ MExt("REM", a, b, w) = IF b = 0 THEN {a} ELSE {R % M} \cup Signal(a, b, w)
      /\ MExt("DIVU", a, b, w) = {IF b = 0 THEN M - 1 ELSE a \div b}
      /\ MExt("REMU", a, b, w) = {IF b = 0 THEN a ELSE a % b}
  BY DEF MExt
<1>6. Signal(a, b, w) = IF Overflows(a, b, w) THEN {SIGNAL} ELSE {}
  BY DEF Signal
<1> HIDE DEF H, M, sa, sb, Q, R
<1>7. ASSUME NEW q \in MExt("DIV", a, b, w) \ {SIGNAL}, NEW r \in MExt("REM", a, b, w) \ {SIGNAL}
      PROVE  CASE b = 0 -> Signed(q, w) = -1 /\ r = a
               [] Overflows(a, b, w) -> q = a /\ r = 0
               [] OTHER -> IsDivision(Signed(a, w), Signed(b, w), Signed(q, w), Signed(r, w))
  <2>1. CASE b = 0
    <3>1. q = M - 1 /\ r = a /\ ~Overflows(a, b, w)
      BY <1>2, <1>4, <1>5, <2>1
    <3>2. Signed(M - 1, w) = -1
      BY <1>1 DEF Signed, H, M
    <3> QED
      BY <2>1, <3>1, <3>2
  <2>2. CASE b # 0 /\ Overflows(a, b, w)
    <3>1. q = Q % M /\ r = R % M
      BY <1>5, <1>6, <2>2
    <3>2. sa = -H /\ sb = -1 /\ a = H
      BY <1>1, <1>3, <1>4, <2>2
    <3>3. Q = H /\ R = 0
      BY <1>1, <1>2, <3>2, QuotRemFit DEF Q, R
    <3>4. H % M = H /\ 0 % M = 0
      BY <1>1, NoWrap
    <3> QED
      BY <2>2, <3>1, <3>2, <3>3, <3>4
  <2>3. CASE b # 0 /\ ~Overflows(a, b, w)
    <3>1. q = Q % M /\ r = R % M
      BY <1>5, <1>6, <2>3
    <3>2. sb # 0 /\ ~(sa = -H /\ sb = -1)
      BY <1>2, <1>4, <2>3
    <3>3. Q \in Int /\ R \in Int /\ IsDivision(sa, sb, Q, R)
      BY <1>2, <3>2, QuotRem DEF Q, R
    <3>4. -H <= Q /\ Q < H /\ -H <= R /\ R < H
      BY <1>1, <1>2, <3>2, QuotRemFit DEF Q, R
    <3>5. Signed(q, w) = Q /\ Signed(r, w) = R
      BY <3>1, <3>3, <3>4, SignedOf DEF H, M
    <3> QED
      BY <2>3, <3>3, <3>5 DEF sa, sb
  <2> QED
    BY <2>1, <2>2, <2>3
<1>8. ASSUME NEW q \in MExt("DIVU", a, b, w), NEW r \in MExt("REMU", a, b, w)
      PROVE  IF b = 0 THEN q = Pow2[w] - 1 /\ r = a ELSE IsDivision(a, b, q, r)
  <2>1. CASE b = 0
    BY <1>5, <1>8, <2>1 DEF M
  <2>2. CASE b # 0
    <3>1. q = a \div b /\ r = a % b
      BY <1>5, <1>8, <2>2
    <3>2. b \in Nat \ {0}
      BY <1>3, <2>2
    <3>3. q \in Nat /\ r \in 0 .. (b - 1) /\ r = a - b * q
      BY <1>3, <3>1, <3>2, DivNat
    <3>4. b * q \in Int /\ q * b = b * q
      BY <3>2, <3>3
    <3>5. a = q * b + r
      <4> DEFINE p == q * b
      <4>1. p \in Int /\ r = a - p
        BY <3>3, <3>4
      <4> HIDE DEF p
      <4>2. a = p + r
        BY <1>3, <4>1
      <4> QED
        BY <4>2 DEF p
    <3>6. Abs(r) < Abs(b) /\ (r < 0) = (a < 0)
      BY <1>3, <3>2, <3>3 DEF Abs
    <3> QED
      BY <2>2, <3>5, <3>6 DEF IsDivision
  <2> QED
    BY <2>1, <2>2
<1> QED
  BY <1>7, <1>8 DEF DivisionIsRight

-----------------------------------------------------------------------------
(* Multiples of the square of m that are m times something.                *)
LEMMA MultiplesOfSquare ==
    ASSUME NEW m \in Nat \ {0}, NEW k \in Int
    PROVE  m * k \in Multiples(m * m) <=> k \in Multiples(m)
<1>1. ASSUME k \in Multiples(m) PROVE m * k \in Multiples(m * m)
  <2>1. PICK q \in Int : k = m * q
    BY <1>1 DEF Multiples
  <2>2. m * k = (m * m) * q
    BY <2>1
  <2> QED
    BY <2>2 DEF Multiples
<1>2. ASSUME m * k \in Multiples(m * m) PROVE k \in Multiples(m)
  <2>1. PICK q \in Int : m * k = (m * m) * q
    BY <1>2 DEF Multiples
  <2>2. m * k = m * (m * q) /\ m * q \in Int
    BY <2>1
  <2>3. \A i, j \in Int : m * i = m * j => i = j
    OBVIOUS
  <2>4. k = m * q
    BY <2>2, <2>3
  <2> QED
    BY <2>4 DEF Multiples
<1> QED
  BY <1>1, <1>2

(* A number is divisible exactly if its remainder is 0.                    *)
LEMMA ZeroRemainder ==
    ASSUME NEW m \in Nat \ {0}, NEW n \in Int
    PROVE  n % m = 0 <=> n \in Multiples(m)
<1>1. 0 % m = 0 /\ n - 0 = n
  BY NoWrap
<1>2. n % m = 0 % m <=> n - 0 \in Multiples(m)
  BY SameRemainder
<1> QED
  BY <1>1, <1>2

(* What the missing sign extension adds to the upper half.                 *)
Missing(a, b) ==
    (IF Signed(a, XLEN) < 0 THEN b ELSE 0) + (IF Signed(b, XLEN) < 0 THEN a ELSE 0)

(* MUL, MULHU, MULH and MULHSU at any width.                               *)
LEMMA Products ==
    ASSUME NEW a \in 0 .. (Pow2[XLEN] - 1), NEW b \in 0 .. (Pow2[XLEN] - 1)
    PROVE  /\ UnsignedProductIsRight(a, b)
           /\ IsUpperHalf("MULH", a, b, Signed(a, XLEN) * Signed(b, XLEN)) <=> Missing(a, b) % Pow2[XLEN] = 0
           /\ IsUpperHalf("MULHSU", a, b, Signed(a, XLEN) * b) <=> (Signed(a, XLEN) < 0 => b = 0)
<1> DEFINE M  == Pow2[XLEN]
           sa == Signed(a, XLEN)
           sb == Signed(b, XLEN)
           p  == a * b
           Upper(f3, product) == IsUpperHalf(f3, a, b, product)
           missing == (IF sa < 0 THEN b ELSE 0) + (IF sb < 0 THEN a ELSE 0)
<1>1. XLEN \in Nat \ {0} /\ 2 * XLEN = XLEN + XLEN
  BY AluAssumption
<1>2. M \in Nat \ {0} /\ Pow2[2 * XLEN] = M * M /\ M * M \in Nat \ {0}
  <2>1. Pow2[XLEN + XLEN] = M * M
    BY <1>1, Pow2Sum
  <2>2. M \in Nat \ {0}
    BY <1>1, Pow2Type
  <2> HIDE DEF M
  <2>3. M * M \in Nat \ {0}
    BY <2>2
  <2> QED
    BY <1>1, <2>1, <2>2, <2>3
<1>3. sa = (IF sa < 0 THEN a - M ELSE a) /\ sb = (IF sb < 0 THEN b - M ELSE b) /\ sa \in Int /\ sb \in Int
  <2>1. sa = (IF a >= Pow2[XLEN - 1] THEN a - M ELSE a) /\ sb = (IF b >= Pow2[XLEN - 1] THEN b - M ELSE b)
    BY DEF Signed
  <2>2. (sa < 0 <=> a >= Pow2[XLEN - 1]) /\ (sb < 0 <=> b >= Pow2[XLEN - 1]) /\ sa \in Int /\ sb \in Int
    BY <1>1, SignedIs
  <2> QED
    BY <2>1, <2>2
<1>4. a \in 0 .. (M - 1) /\ b \in 0 .. (M - 1) /\ a \in Nat /\ b \in Nat
  BY <1>2
<1>5. /\ R_MEXT("MUL", a, b) = {p % M}
      /\ \A f3 \in {"MULH", "MULHSU", "MULHU"} : R_MEXT(f3, a, b) = {p \div M}
  BY DEF R_MEXT, MExt
<1> HIDE DEF M, sa, sb
<1>6. p \in Nat
  BY <1>4
<1> HIDE DEF p
(* The two halves make the product of the registers.                       *)
<1>7. (p \div M) * M + (p % M) = p /\ p \div M \in Int /\ p % M \in Int
  <2>1. p \div M \in Int /\ p % M \in Int /\ p % M = p - M * (p \div M)
    BY <1>2, <1>6
  <2>2. M * (p \div M) = (p \div M) * M /\ M * (p \div M) \in Int
    BY <1>2, <2>1
  <2> DEFINE h == (p \div M) * M
             l == p % M
  <2>3. h \in Int /\ l \in Int /\ l = p - h
    BY <2>1, <2>2
  <2> HIDE DEF h, l
  <2>4. h + l = p
    BY <1>6, <2>3
  <2> QED
    BY <2>1, <2>4 DEF h, l
<1>8. ASSUME NEW f3 \in {"MULH", "MULHSU", "MULHU"}, NEW product \in Int
      PROVE  Upper(f3, product) <=> p - product \in Multiples(M * M)
  <2> DEFINE h == (p \div M) * M
             l == p % M
  <2>1. h \in Int /\ l \in Int /\ h + l = p
    BY <1>2, <1>7
  <2>2. Upper(f3, product) <=> (h + l - product) % (M * M) = 0
    BY <1>2, <1>5 DEF IsUpperHalf, M
  <2> HIDE DEF h, l, Upper
  <2>3. h + l - product = p - product /\ p - product \in Int
    BY <1>6, <2>1
  <2> QED
    BY <1>2, <2>2, <2>3, ZeroRemainder
<1> HIDE DEF Upper
<1>9. Upper("MULHU", p)
  <2>1. p - p = 0 /\ 0 \in Multiples(M * M)
    BY <1>2, <1>6, MultiplesHas
  <2> QED
    BY <1>6, <1>8, <2>1
(* What the product of the signed values differs by.                       *)
<1>10. missing \in Nat /\ p - (sa * sb) =
          (M * missing) - (IF sa < 0 /\ sb < 0 THEN M * M ELSE 0)
  <2>1. missing \in Nat
    BY <1>4
  <2>2. CASE ~(sa < 0) /\ ~(sb < 0)
    BY <1>2, <1>3, <1>4, <2>2 DEF p
  <2>3. CASE sa < 0 /\ ~(sb < 0)
    <3>1. sa = a - M /\ sb = b /\ missing = b
      BY <1>3, <1>4, <2>3
    <3> QED
      BY <1>2, <1>4, <2>3, <3>1 DEF p
  <2>4. CASE ~(sa < 0) /\ sb < 0
    <3>1. sa = a /\ sb = b - M /\ missing = a
      BY <1>3, <1>4, <2>4
    <3> QED
      BY <1>2, <1>4, <2>4, <3>1 DEF p
  <2>5. CASE sa < 0 /\ sb < 0
    <3>1. sa = a - M /\ sb = b - M /\ missing = b + a
      BY <1>3, <1>4, <2>5
    <3> QED
      BY <1>2, <1>4, <2>5, <3>1 DEF p
  <2> QED
    BY <2>1, <2>2, <2>3, <2>4, <2>5
<1> HIDE DEF missing
<1>11. Upper("MULH", sa * sb) <=> missing % M = 0
  <2> DEFINE MM == M * M
             k == M * missing
             z == IF sa < 0 /\ sb < 0 THEN MM ELSE 0
             d == p - (sa * sb)
  <2>1. sa * sb \in Int /\ MM \in Nat \ {0} /\ k \in Int
    BY <1>2, <1>3, <1>10
  <2>2. z \in Multiples(MM)
    BY <2>1, MultiplesHas
  <2>3. d = k - z /\ z \in Int /\ k = d + z
    <3>1. d = k - z /\ z \in Int
      BY <1>10, <2>1
    <3> HIDE DEF d, k, z
    <3> QED
      BY <2>1, <3>1
  <2> HIDE DEF MM, k, z, d
  <2>4. d \in Multiples(MM) <=> k \in Multiples(MM)
    BY <2>1, <2>2, <2>3, MultiplesClosed
  <2>5. k \in Multiples(MM) <=> missing \in Multiples(M)
    BY <1>2, <1>10, MultiplesOfSquare DEF k, MM
  <2>6. Upper("MULH", sa * sb) <=> d \in Multiples(MM)
    BY <1>8, <2>1 DEF d, MM
  <2> QED
    BY <1>2, <1>10, <2>4, <2>5, <2>6, ZeroRemainder
<1>12. Upper("MULHSU", sa * b) <=> (sa < 0 => b = 0)
  <2> DEFINE k == IF sa < 0 THEN b ELSE 0
  <2>1. sa * b \in Int /\ k \in Int /\ p - (sa * b) = M * k
    <3>1. CASE sa < 0
      <4>1. sa = a - M /\ k = b
        BY <1>3, <3>1
      <4> QED
        BY <1>2, <1>3, <1>4, <4>1 DEF p
    <3>2. CASE ~(sa < 0)
      <4>1. sa = a /\ k = 0
        BY <1>3, <3>2
      <4> QED
        BY <1>2, <1>3, <1>4, <4>1 DEF p
    <3> QED
      BY <3>1, <3>2
  <2>2. k \in 0 .. (M - 1) /\ (k = 0 <=> (sa < 0 => b = 0))
    BY <1>2, <1>4
  <2> HIDE DEF k
  <2>3. Upper("MULHSU", sa * b) <=> M * k \in Multiples(M * M)
    BY <1>8, <2>1
  <2>4. M * k \in Multiples(M * M) <=> k % M = 0
    BY <1>2, <2>1, MultiplesOfSquare, ZeroRemainder
  <2>5. k % M = k
    BY <1>2, <2>2, NoWrap
  <2> QED
    BY <2>2, <2>3, <2>4, <2>5
<1> QED
  BY <1>9, <1>11, <1>12 DEF UnsignedProductIsRight, Upper, Missing, missing, sa, sb, M, p

-----------------------------------------------------------------------------
(* Words and registers: a register is a whole number of words long, and    *)
(* cutting it to a word loses nothing that a word has.                     *)
LEMMA Widths ==
    /\ WLEN \in Nat \ {0} /\ XLEN \in Nat \ {0} /\ WLEN < XLEN
    /\ Pow2[WLEN] \in Nat \ {0} /\ Pow2[XLEN] \in Nat \ {0}
    /\ Pow2[WLEN - 1] <= Pow2[XLEN - 1] /\ Pow2[WLEN] <= Pow2[XLEN]
    /\ Pow2[WLEN - 1] \in Nat /\ Pow2[XLEN - 1] \in Nat
    /\ \E k \in Nat \ {0} : Pow2[XLEN] = Pow2[WLEN] * k
<1> DEFINE d == XLEN - WLEN
<1>1. /\ WLEN \in Nat \ {0} /\ XLEN \in Nat \ {0} /\ WLEN < XLEN /\ d \in Nat /\ XLEN = WLEN + d
      /\ WLEN - 1 \in Nat /\ XLEN - 1 = (WLEN - 1) + d
  BY AluAssumption
<1> HIDE DEF d
<1>2. Pow2[XLEN] = Pow2[WLEN] * Pow2[d] /\ Pow2[XLEN - 1] = Pow2[WLEN - 1] * Pow2[d]
  BY <1>1, Pow2Sum
<1>3. Pow2[WLEN] \in Nat \ {0} /\ Pow2[WLEN - 1] \in Nat \ {0} /\ Pow2[d] \in Nat \ {0}
  BY <1>1, Pow2Type
<1>4. \A p, k \in Nat \ {0} : p <= p * k /\ p * k \in Nat \ {0}
  OBVIOUS
<1>5. Pow2[XLEN] \in Nat \ {0} /\ Pow2[XLEN - 1] \in Nat \ {0} /\ Pow2[WLEN] <= Pow2[XLEN]
      /\ Pow2[WLEN - 1] <= Pow2[XLEN - 1]
  BY <1>2, <1>3, <1>4
<1> QED
  BY <1>1, <1>2, <1>3, <1>5

(* Cutting to a register, or a word, first changes no word.                *)
LEMMA Cut ==
    ASSUME NEW n \in Int
    PROVE  /\ (n % Pow2[XLEN]) % Pow2[WLEN] = n % Pow2[WLEN]
           /\ (n % Pow2[WLEN]) % Pow2[WLEN] = n % Pow2[WLEN]
<1> DEFINE W == Pow2[WLEN]
           X == Pow2[XLEN]
<1>1. PICK k \in Nat \ {0} : X = W * k
  BY Widths
<1>2. W \in Nat \ {0}
  BY Widths
<1> HIDE DEF W, X
<1>3. (n % X) % W = n % W
  BY <1>1, <1>2, CutTwice
<1>4. n % W \in 0 .. (W - 1)
  BY <1>2, RemainderIs
<1>5. (n % W) % W = n % W
  <2> DEFINE r == n % W
  <2>1. r \in 0 .. (W - 1)
    BY <1>4
  <2> HIDE DEF r
  <2>2. r % W = r
    BY <1>2, <2>1, NoWrap
  <2> QED
    BY <2>2 DEF r
<1> QED
  BY <1>3, <1>5 DEF W, X

(* Sign extension gives a register with the word in its low bits and the   *)
(* same signed value.                                                      *)
LEMMA SextIs ==
    ASSUME NEW v \in Int
    PROVE  /\ SextW(v) \in 0 .. (Pow2[XLEN] - 1) /\ SextW(v) % Pow2[WLEN] = v % Pow2[WLEN]
           /\ Signed(SextW(v), XLEN) = Signed(v % Pow2[WLEN], WLEN)
           /\ v % Pow2[WLEN] \in 0 .. (Pow2[WLEN] - 1)
<1> DEFINE W == Pow2[WLEN]
           X == Pow2[XLEN]
           u == v % W
           s == Signed(u, WLEN)
<1>1. u \in 0 .. (W - 1)
  BY Widths, RemainderIs
<1>2. s \in Int /\ -Pow2[WLEN - 1] <= s /\ s < Pow2[WLEN - 1] /\ u - s \in Multiples(W)
  <2> HIDE DEF u
  <2> QED
    BY <1>1, Widths, SignedIs
<1>3. SextW(v) = s % X
  BY DEF SextW
<1> HIDE DEF u, s
<1>4. -Pow2[XLEN - 1] <= s /\ s < Pow2[XLEN - 1]
  BY <1>2, Widths
<1>5. s % X \in 0 .. (X - 1) /\ Signed(s % X, XLEN) = s
  BY <1>2, <1>4, Widths, SignedOf
<1>6. (s % X) % W = s % W
  BY <1>2, Cut
<1>7. u % W = s % W
  <2>1. W \in Nat \ {0}
    BY Widths
  <2> HIDE DEF W
  <2>2. u \in Int
    BY <1>1, <2>1
  <2> QED
    BY <1>2, <2>1, <2>2, SameRemainder
<1>8. u % W = u
  BY <1>1, Widths, NoWrap
<1> QED
  BY <1>1, <1>3, <1>5, <1>6, <1>7, <1>8 DEF u, s

(* The extended word depends on the word only.                             *)
LEMMA SextSame ==
    ASSUME NEW u \in Int, NEW v \in Int, u - v \in Multiples(Pow2[WLEN])
    PROVE  /\ SextW(u) = SextW(v)
           /\ SextW(u % Pow2[WLEN]) = SextW(v) /\ SextW(u % Pow2[XLEN]) = SextW(v)
<1>1. u % Pow2[WLEN] = v % Pow2[WLEN]
  BY Widths, SameRemainder
<1>2. (u % Pow2[XLEN]) % Pow2[WLEN] = v % Pow2[WLEN] /\ (u % Pow2[WLEN]) % Pow2[WLEN] = v % Pow2[WLEN]
  BY <1>1, Cut
<1> QED
  BY <1>1, <1>2 DEF SextW

(* A shift amount is read from the low bits of an operand, whether it is   *)
(* cut to a word before or not: WLEN is a power of 2.                      *)
LEMMA ShiftAmount ==
    ASSUME NEW b \in Int
    PROVE  (b % Pow2[WLEN]) % WLEN = b % WLEN /\ (b % WLEN) % XLEN = b % WLEN /\ b % WLEN \in Nat
<1>1. PICK k \in 0 .. WLEN : WLEN = Pow2[k]
  BY AluAssumption
<1>2. WLEN \in Nat \ {0} /\ XLEN \in Nat \ {0} /\ WLEN < XLEN
  BY Widths
<1>3. k \in Nat /\ WLEN - k \in Nat /\ WLEN = k + (WLEN - k)
  BY <1>2
<1>4. Pow2[WLEN] = WLEN * Pow2[WLEN - k] /\ Pow2[WLEN - k] \in Nat \ {0}
  BY <1>1, <1>3, Pow2Sum, Pow2Type
<1>5. (b % Pow2[WLEN]) % WLEN = b % WLEN
  <2> DEFINE e == Pow2[WLEN - k]
             M == Pow2[WLEN]
  <2>1. M = WLEN * e /\ e \in Nat \ {0}
    BY <1>4
  <2> HIDE DEF e, M
  <2>2. (b % (WLEN * e)) % WLEN = b % WLEN
    BY <1>2, <2>1, CutTwice
  <2> QED
    BY <2>1, <2>2 DEF M
<1>6. b % WLEN \in 0 .. (WLEN - 1)
  BY <1>2, RemainderIs
<1> DEFINE s == b % WLEN
<1> HIDE DEF s
<1>7. s \in 0 .. (XLEN - 1) /\ s \in Nat
  BY <1>2, <1>6 DEF s
<1>8. s % XLEN = s
  BY <1>2, <1>7, NoWrap
<1> QED
  BY <1>5, <1>7, <1>8 DEF s

(* An operand and its extended word have the same low word, and the same   *)
(* signed value as words.                                                  *)
LEMMA OperandIs ==
    ASSUME NEW a \in 0 .. (Pow2[XLEN] - 1)
    PROVE  /\ Low(a) \in 0 .. (Pow2[WLEN] - 1) /\ Low(a) \in Nat
           /\ SextW(a) \in 0 .. (Pow2[XLEN] - 1) /\ SextW(a) \in Nat
           /\ SextW(a) - Low(a) \in Multiples(Pow2[WLEN])
           /\ Signed(SextW(a), XLEN) = Signed(Low(a), WLEN)
           /\ Signed(Low(a), WLEN) \in Int /\ Low(a) - Signed(Low(a), WLEN) \in Multiples(Pow2[WLEN])
           /\ Signed(Low(a), WLEN) = 0 <=> Low(a) = 0
           /\ SextW(a) = 0 <=> Low(a) = 0
<1> DEFINE W == Pow2[WLEN]
           X == Pow2[XLEN]
           x == SextW(a)
           l == Low(a)
<1>0. a \in Int
  BY Widths
<1>1. x \in 0 .. (X - 1) /\ x % W = l /\ Signed(x, XLEN) = Signed(l, WLEN) /\ l \in 0 .. (W - 1)
  BY <1>0, SextIs DEF Low
<1> HIDE DEF x, l
<1>2. /\ Signed(l, WLEN) \in Int /\ l - Signed(l, WLEN) \in Multiples(W) /\ (Signed(l, WLEN) = 0 <=> l = 0)
      /\ (Signed(x, XLEN) = 0 <=> x = 0)
  BY <1>1, Widths, SignedIs
<1>3. W \in Nat \ {0} /\ X \in Nat \ {0}
  BY Widths
<1> HIDE DEF W, X
<1>4. x \in Nat /\ l \in Nat
  BY <1>1, <1>3
<1>5. x - (x % W) \in Multiples(W)
  <2>1. x \in Int
    BY <1>4
  <2> QED
    BY <1>3, <2>1, RemainderIs, Zenon
<1> QED
  BY <1>1, <1>2, <1>4, <1>5 DEF x, l, W, X

(* The outcomes of MUL, DIV and REM, and of their W forms.                 *)
LEMMA WordOutcomes ==
    ASSUME NEW u \in Nat, NEW v \in Nat, u - v \in Multiples(Pow2[WLEN])
    PROVE  (IF u = SIGNAL THEN u ELSE SextW(u)) = SextW(v) /\ v # SIGNAL
<1>1. u # SIGNAL /\ v # SIGNAL
  BY DEF SIGNAL
<1> QED
  BY <1>1, SextSame

(* The W forms, for any width of registers and words.                      *)
LEMMA WordForms ==
    ASSUME NEW a \in 0 .. (Pow2[XLEN] - 1), NEW b \in 0 .. (Pow2[XLEN] - 1)
    PROVE  WordFormsAgree(a, b)
<1> DEFINE W  == Pow2[WLEN]
           X  == Pow2[XLEN]
           x  == SextW(a)
           y  == SextW(b)
           la == Low(a)
           lb == Low(b)
           s  == b % WLEN
           P  == Pow2[s]
           sa == Signed(la, WLEN)
           sb == Signed(lb, WLEN)
           Outcomes(f3, p, q) == {IF v = SIGNAL THEN v ELSE SextW(v) : v \in R_MEXT(f3, p, q)}
<1>0. W \in Nat \ {0} /\ X \in Nat \ {0} /\ a \in Int /\ b \in Int
  BY Widths
<1>1. /\ la \in Nat /\ lb \in Nat /\ x \in Nat /\ y \in Nat /\ la \in 0 .. (W - 1) /\ lb \in 0 .. (W - 1)
      /\ x - la \in Multiples(W) /\ y - lb \in Multiples(W)
      /\ Signed(x, XLEN) = sa /\ Signed(y, XLEN) = sb /\ sa \in Int /\ sb \in Int
      /\ (sb = 0 <=> lb = 0) /\ (y = 0 <=> lb = 0)
  BY OperandIs
<1>2. lb % WLEN = s /\ s % XLEN = s /\ s \in Nat
  BY <1>0, ShiftAmount DEF Low
<1>3. P \in Nat \ {0}
  BY <1>2, Pow2Type
<1>4. 0 \in Multiples(W)
  BY <1>0, MultiplesHas
<1> HIDE DEF W, X, x, y, la, lb, s, P, sa, sb
(* Addition and subtraction.                                               *)
<1>5. ASSUME NEW alt \in BOOLEAN
      PROVE  /\ SextW(Base("ADD_SUB", alt, la, lb, WLEN)) = SextW(Base("ADD_SUB", alt, x, y, XLEN))
  <2> DEFINE n == IF alt THEN la - lb ELSE la + lb
             m == IF alt THEN x - y ELSE x + y
  <2>1. n \in Int /\ m \in Int
    BY <1>1
  <2>2. m - n = IF alt THEN (x - la) - (y - lb) ELSE (x - la) + (y - lb)
    BY <1>1
  <2>3. m - n \in Multiples(W)
    <3> DEFINE i == x - la
               j == y - lb
    <3> HIDE DEF i, j
    <3>1. i + j \in Multiples(W) /\ i - j \in Multiples(W)
      BY <1>0, <1>1, MultiplesClosed DEF i, j
    <3> QED
      BY <2>2, <3>1 DEF i, j
  <2> HIDE DEF n, m
  <2>4. n - n = 0
    BY <2>1
  <2>5. SextW(m % X) = SextW(n)
    BY <2>1, <2>3, SextSame DEF X, W
  <2>6. SextW(n % W) = SextW(n)
    BY <1>4, <2>1, <2>4, SextSame DEF W
  <2>7. Base("ADD_SUB", alt, la, lb, WLEN) = n % W /\ Base("ADD_SUB", alt, x, y, XLEN) = m % X
    BY DEF Base, n, m, W, X
  <2> QED
    BY <2>5, <2>6, <2>7
(* Arithmetic shift right.                                                 *)
<1>6. SextW(Base("SRL_SRA", TRUE, la, lb, WLEN)) = SextW(Base("SRL_SRA", TRUE, x, s, XLEN))
  <2> DEFINE n == sa \div P
  <2>1. n \in Int
    BY <1>1, <1>3
  <2>2. Base("SRL_SRA", TRUE, la, lb, WLEN) = n % W /\ Base("SRL_SRA", TRUE, x, s, XLEN) = n % X
    BY <1>1, <1>2 DEF Base, sa, P, W, X
  <2> HIDE DEF n
  <2>3. n - n = 0
    BY <2>1
  <2>4. SextW(n % X) = SextW(n) /\ SextW(n % W) = SextW(n)
    BY <1>4, <2>1, <2>3, SextSame DEF W, X
  <2> QED
    BY <2>2, <2>4
(* Shift left.                                                             *)
<1>7. SextW(Base("SLL", FALSE, la, lb, WLEN)) = SextW(Base("SLL", FALSE, x, s, XLEN))
  <2> DEFINE n == la * P
             m == x * P
             i == x - la
  <2>1. n \in Int /\ m \in Int /\ m - n = i * P /\ i \in Int
    BY <1>1, <1>3
  <2>2. i * P \in Multiples(W)
    <3> HIDE DEF i
    <3>1. i \in Multiples(W) /\ P \in Int
      BY <1>1, <1>3 DEF i
    <3> QED
      BY <1>0, <3>1, MultiplesTimes
  <2>3. Base("SLL", FALSE, la, lb, WLEN) = n % W /\ Base("SLL", FALSE, x, s, XLEN) = m % X
    BY <1>2 DEF Base, P, W, X
  <2> HIDE DEF n, m
  <2>4. n - n = 0 /\ m - n \in Multiples(W)
    BY <2>1, <2>2
  <2>5. SextW(m % X) = SextW(n)
    BY <2>1, <2>4, SextSame DEF X, W
  <2>6. SextW(n % W) = SextW(n)
    BY <1>4, <2>1, <2>4, SextSame DEF W
  <2> QED
    BY <2>3, <2>5, <2>6
(* Logical shift right.                                                    *)
<1>8. Base("SRL_SRA", FALSE, la, lb, WLEN) = Base("SRL_SRA", FALSE, la, s, XLEN)
  BY <1>2 DEF Base
(* Multiplication.                                                         *)
<1>9. Outcomes("MUL", x, y) \subseteq R_MEXT_W("MUL", a, b)
  <2> DEFINE n == la * lb
             m == x * y
             i == x - la
             j == y - lb
  <2>1. n \in Int /\ m \in Int /\ m - n = (i * y) + (j * la) /\ i \in Int /\ j \in Int
    BY <1>1
  <2>2. i * y \in Multiples(W) /\ j * la \in Multiples(W)
    <3> HIDE DEF i, j
    <3>1. i \in Multiples(W) /\ j \in Multiples(W) /\ y \in Int /\ la \in Int
      BY <1>1 DEF i, j
    <3> QED
      BY <1>0, <3>1, MultiplesTimes
  <2>3. m - n \in Multiples(W)
    <3> DEFINE p == i * y
               q == j * la
    <3>1. p \in Multiples(W) /\ q \in Multiples(W) /\ m - n = p + q
      BY <2>1, <2>2
    <3> HIDE DEF p, q
    <3> QED
      BY <1>0, <3>1, MultiplesClosed
  <2>4. R_MEXT("MUL", x, y) = {m % X} /\ R_MEXT_W("MUL", a, b) =
           {IF v = SIGNAL THEN v ELSE SextW(v) : v \in {n % W}}
    BY DEF R_MEXT, R_MEXT_W, MExt, la, lb, W, X
  <2> HIDE DEF n, m
  <2>5. n % W \in 0 .. (W - 1) /\ m % X \in 0 .. (X - 1)
    BY <1>0, <2>1, RemainderIs
  <2>6. n % W # SIGNAL /\ m % X # SIGNAL
    BY <1>0, <2>5 DEF SIGNAL
  <2>7. n - n = 0
    BY <2>1
  <2>8. SextW(m % X) = SextW(n) /\ SextW(n % W) = SextW(n)
    BY <1>4, <2>1, <2>3, <2>7, SextSame DEF X, W
  <2> QED
    BY <2>4, <2>6, <2>8
(* Signed division: the extended words have the signed values of the       *)
(* words.                                                                  *)
<1>10. ASSUME NEW f3 \in {"DIV", "REM"}
       PROVE  Outcomes(f3, x, y) \subseteq R_MEXT_W(f3, a, b) \cup {SIGNAL}
  <2> DEFINE zero(all, p) == IF f3 = "DIV" THEN all - 1 ELSE p
             n == IF f3 = "DIV" THEN Quot(sa, sb) ELSE Rem(sa, sb)
  <2>1. /\ R_MEXT(f3, x, y) = IF y = 0 THEN {zero(X, x)} ELSE {n % X} \cup Signal(x, y, XLEN)
        /\ MExt(f3, la, lb, WLEN) = IF lb = 0 THEN {zero(W, la)} ELSE {n % W} \cup Signal(la, lb, WLEN)
    BY <1>1 DEF R_MEXT, MExt, X, W, sa, sb
  <2>2. R_MEXT_W(f3, a, b) = {IF v = SIGNAL THEN v ELSE SextW(v) : v \in MExt(f3, la, lb, WLEN)}
    BY DEF R_MEXT_W, la, lb
  <2>3. CASE lb = 0
    <3> DEFINE u == zero(X, x)
               v == zero(W, la)
    <3>1. u \in Nat /\ v \in Nat
      BY <1>0, <1>1
    <3>2. u - v \in Multiples(W)
      <4>1. CASE f3 = "DIV"
        <5>1. u - v = X - W
          BY <1>0, <4>1
        <5>2. PICK k \in Nat \ {0} : X = W * k
          BY Widths DEF X, W
        <5>3. X \in Multiples(W)
          BY <5>2 DEF Multiples
        <5> QED
          BY <1>0, <5>1, <5>3, MultiplesHas, MultiplesClosed
      <4>2. CASE f3 = "REM"
        BY <1>1, <4>2
      <4> QED
        BY <4>1, <4>2
    <3>3. R_MEXT(f3, x, y) = {u} /\ MExt(f3, la, lb, WLEN) = {v}
      BY <1>1, <2>1, <2>3
    <3> HIDE DEF u, v
    <3>4. (IF u = SIGNAL THEN u ELSE SextW(u)) = SextW(v) /\ v # SIGNAL
      BY <3>1, <3>2, WordOutcomes DEF W
    <3> QED
      BY <2>2, <3>3, <3>4
  <2>4. CASE lb # 0
    <3>1. n \in Int
      <4>1. sb \in Int \ {0}
        BY <1>1, <2>4
      <4> QED
        BY <1>1, <4>1, QuotRem
    <3> HIDE DEF n
    <3>2. n % W \in 0 .. (W - 1) /\ n % X \in 0 .. (X - 1)
      BY <1>0, <3>1, RemainderIs
    <3>3. n % W # SIGNAL /\ n % X # SIGNAL /\ n - n = 0
      BY <1>0, <3>1, <3>2 DEF SIGNAL
    <3>4. SextW(n % X) = SextW(n) /\ SextW(n % W) = SextW(n)
      BY <1>4, <3>1, <3>3, SextSame DEF X, W
    <3>5. SextW(n % W) \in R_MEXT_W(f3, a, b)
      BY <2>1, <2>2, <2>4, <3>3
    <3>6. ASSUME NEW v \in R_MEXT(f3, x, y)
          PROVE  (IF v = SIGNAL THEN v ELSE SextW(v)) \in R_MEXT_W(f3, a, b) \cup {SIGNAL}
      <4>1. v = n % X \/ v = SIGNAL
        BY <1>1, <2>1, <2>4 DEF Signal
      <4> QED
        BY <3>3, <3>4, <3>5, <4>1
    <3> QED
      BY <3>6
  <2> QED
    BY <2>3, <2>4
(* Unsigned division.                                                      *)
<1>11. ASSUME NEW f3 \in {"DIVU", "REMU"}
       PROVE  Outcomes(f3, la, lb) = R_MEXT_W(f3, a, b)
  <2> DEFINE n == IF f3 = "DIVU" THEN la \div lb ELSE la % lb
             u == IF lb = 0 THEN (IF f3 = "DIVU" THEN X - 1 ELSE la) ELSE n
             v == IF lb = 0 THEN (IF f3 = "DIVU" THEN W - 1 ELSE la) ELSE n
  <2>1. R_MEXT(f3, la, lb) = {u} /\ MExt(f3, la, lb, WLEN) = {v}
    BY DEF R_MEXT, MExt, X, W
  <2>2. R_MEXT_W(f3, a, b) = {IF z = SIGNAL THEN z ELSE SextW(z) : z \in MExt(f3, la, lb, WLEN)}
    BY DEF R_MEXT_W, la, lb
  <2>3. lb # 0 => n \in Nat
    <3>1. ASSUME lb # 0 PROVE la \div lb \in Nat /\ la % lb \in Nat
      BY <1>1, <3>1
    <3> QED
      BY <3>1
  <2>4. u \in Nat /\ v \in Nat
    BY <1>0, <1>1, <2>3
  <2>5. u - v \in Multiples(W)
    <3>1. CASE lb = 0 /\ f3 = "DIVU"
      <4>1. u - v = X - W
        BY <1>0, <3>1
      <4>2. PICK k \in Nat \ {0} : X = W * k
        BY Widths DEF X, W
      <4>3. X \in Multiples(W)
        BY <4>2 DEF Multiples
      <4> QED
        BY <1>0, <4>1, <4>3, MultiplesHas, MultiplesClosed
    <3>2. CASE ~(lb = 0 /\ f3 = "DIVU")
      <4>1. u = v
        BY <3>2
      <4> HIDE DEF u, v
      <4>2. u - v = 0
        BY <2>4, <4>1
      <4> QED
        BY <1>4, <4>2
    <3> QED
      BY <3>1, <3>2
  <2> HIDE DEF u, v
  <2>6. (IF u = SIGNAL THEN u ELSE SextW(u)) = SextW(v) /\ v # SIGNAL
    BY <2>4, <2>5, WordOutcomes DEF W
  <2> QED
    BY <2>1, <2>2, <2>6
<1>12. \A alt \in BOOLEAN : R_ARITH_W("ADD_SUB", alt, a, b) = SextW(R_ARITH("ADD_SUB", alt, x, y))
  BY <1>5 DEF R_ARITH_W, R_ARITH, la, lb
<1>13. \A alt \in BOOLEAN : I_ARITH_W("ADD_SUB", alt, a, b) = SextW(I_ARITH("ADD_SUB", alt, x, y))
  <2>1. \A alt \in BOOLEAN : (alt /\ "ADD_SUB" = "SRL_SRA") = FALSE
    OBVIOUS
  <2> QED
    BY <1>5, <2>1 DEF I_ARITH_W, I_ARITH, la, lb
<1>14. I_ARITH_W("SRL_SRA", TRUE, a, b) = SextW(I_ARITH("SRL_SRA", TRUE, x, s))
  <2>1. (TRUE /\ "SRL_SRA" = "SRL_SRA") = TRUE
    OBVIOUS
  <2> QED
    BY <1>6, <2>1 DEF I_ARITH_W, I_ARITH, la, lb
<1>15. R_ARITH_W("SLL", FALSE, a, b) = SextW(R_ARITH("SLL", FALSE, x, s))
  BY <1>7 DEF R_ARITH_W, R_ARITH, la, lb
<1>16. R_ARITH_W("SRL_SRA", FALSE, a, b) = SextW(R_ARITH("SRL_SRA", FALSE, la, s))
  BY <1>8 DEF R_ARITH_W, R_ARITH, la, lb
<1>17. R_ARITH_W("SRL_SRA", TRUE, a, b) = SextW(R_ARITH("SRL_SRA", TRUE, x, s))
  BY <1>6 DEF R_ARITH_W, R_ARITH, la, lb
<1>18. \A f3 \in {"MUL", "DIV", "REM"} : Outcomes(f3, x, y) \subseteq R_MEXT_W(f3, a, b) \cup {SIGNAL}
  <2> HIDE DEF Outcomes
  <2> QED
    BY <1>9, <1>10
<1>19. \A f3 \in {"DIVU", "REMU"} : Outcomes(f3, la, lb) = R_MEXT_W(f3, a, b)
  <2> HIDE DEF Outcomes
  <2> QED
    BY <1>11
<1> QED
  BY <1>12, <1>13, <1>14, <1>15, <1>16, <1>17, <1>18, <1>19 DEF WordFormsAgree, x, y, s, la, lb

-----------------------------------------------------------------------------
(* Registers with the same signed value are the same.                      *)
LEMMA SignedUnique ==
    ASSUME NEW w \in Nat \ {0}, NEW x \in 0 .. (Pow2[w] - 1), NEW y \in 0 .. (Pow2[w] - 1),
           Signed(x, w) = Signed(y, w)
    PROVE  x = y
<1> DEFINE H == Pow2[w - 1]
           M == Pow2[w]
           s == Signed(x, w)
<1>1. H \in Nat /\ M \in Nat \ {0} /\ M = 2 * H
  BY WidthIs
<1>2. s = (IF x >= H THEN x - M ELSE x) /\ s = (IF y >= H THEN y - M ELSE y)
  BY DEF Signed
<1>3. x \in 0 .. (M - 1) /\ y \in 0 .. (M - 1)
  OBVIOUS
<1> HIDE DEF H, M, s
<1>4. x \in Int /\ y \in Int /\ 0 <= x /\ x < M /\ 0 <= y /\ y < M
  BY <1>1, <1>3
<1>5. CASE x >= H
  <2>1. s = x - M /\ s < 0
    BY <1>1, <1>2, <1>4, <1>5
  <2>2. y >= H
    BY <1>1, <1>2, <1>4, <2>1
  <2>3. s = y - M
    BY <1>2, <2>2
  <2> QED
    BY <1>1, <1>4, <2>1, <2>3
<1>6. CASE ~(x >= H)
  <2>1. s = x /\ s >= 0
    BY <1>2, <1>4, <1>6
  <2>2. ~(y >= H)
    BY <1>1, <1>2, <1>4, <2>1
  <2> QED
    BY <1>2, <2>1, <2>2
<1> QED
  BY <1>5, <1>6

(* The unsigned order of extended words is that of the words.              *)
LEMMA SextOrder ==
    ASSUME NEW u \in 0 .. (Pow2[WLEN] - 1), NEW v \in 0 .. (Pow2[WLEN] - 1)
    PROVE  SextW(u) < SextW(v) <=> u < v
<1> DEFINE W == Pow2[WLEN]
           H == Pow2[WLEN - 1]
           X == Pow2[XLEN]
<1>1. /\ W \in Nat \ {0} /\ X \in Nat \ {0} /\ H \in Nat \ {0} /\ W <= X /\ W = 2 * H
      /\ WLEN \in Nat \ {0}
  BY Widths, WidthIs
<1>2. ASSUME NEW z \in 0 .. (W - 1)
      PROVE  SextW(z) = IF z >= H THEN (z - W) + X ELSE z
  <2>1. z % W = z
    BY <1>1, <1>2, NoWrap
  <2>2. SextW(z) = (IF z >= H THEN z - W ELSE z) % X
    BY <2>1 DEF SextW, Signed
  <2> HIDE DEF W, H, X
  <2>3. CASE z >= H
    <3> DEFINE n == z - W
    <3>1. n + X \in 0 .. (X - 1) /\ n \in Int
      BY <1>1, <2>3
    <3>2. (n + X) - n = X /\ X \in Multiples(X)
      BY <1>1, <3>1, MultiplesHas
    <3> HIDE DEF n
    <3>3. (n + X) % X = n % X
      <4> DEFINE k == n + X
      <4>1. k \in Int /\ k - n \in Multiples(X)
        BY <1>1, <3>1, <3>2
      <4> HIDE DEF k
      <4>2. k % X = n % X
        BY <1>1, <3>1, <4>1, SameRemainder
      <4> QED
        BY <4>2 DEF k
    <3>4. (n + X) % X = n + X
      BY <1>1, <3>1, NoWrap
    <3> QED
      BY <2>2, <2>3, <3>3, <3>4 DEF n
  <2>4. CASE ~(z >= H)
    <3>1. z \in 0 .. (X - 1)
      BY <1>1, <1>2
    <3>2. z % X = z
      BY <1>1, <3>1, NoWrap
    <3> QED
      BY <2>2, <2>4, <3>2
  <2> QED
    BY <2>3, <2>4
<1>3. u \in 0 .. (W - 1) /\ v \in 0 .. (W - 1)
  OBVIOUS
<1> HIDE DEF W, H, X
<1>4. SextW(u) = (IF u >= H THEN (u - W) + X ELSE u) /\ SextW(v) = (IF v >= H THEN (v - W) + X ELSE v)
  BY <1>2, <1>3
<1> QED
  BY <1>1, <1>3, <1>4

(* A word in memory and an operand that are registers: what the bitwise    *)
(* and adding AMOs leave in the low word depends on the low words only.    *)
LEMMA AmoWord ==
    ASSUME NEW f5, f5 \notin {"AMOMIN", "AMOMAX", "AMOMINU", "AMOMAXU"},
           NEW old \in 0 .. (Pow2[XLEN] - 1), NEW src \in 0 .. (Pow2[XLEN] - 1)
    PROVE  /\ AmoResult(f5, old, src) \in 0 .. (Pow2[XLEN] - 1)
           /\ Low(AmoResult(f5, old, src)) = Low(AmoResult(f5, Low(old), Low(src)))
<1> DEFINE W == Pow2[WLEN]
           X == Pow2[XLEN]
           x == Low(old)
           y == Low(src)
<1>1. W \in Nat \ {0} /\ X \in Nat \ {0} /\ W <= X
  BY Widths
<1>2. old \in 0 .. (X - 1) /\ src \in 0 .. (X - 1)
  OBVIOUS
<1>3. x = old % W /\ y = src % W
  BY DEF Low
<1> HIDE DEF W, X, x, y
<1>4. old \in Int /\ src \in Int
  BY <1>1, <1>2
<1>5. x \in 0 .. (W - 1) /\ y \in 0 .. (W - 1) /\ old - x \in Multiples(W) /\ src - y \in Multiples(W)
  BY <1>1, <1>3, <1>4, RemainderIs
<1>6. x \in Int /\ y \in Int /\ x \in 0 .. (X - 1) /\ y \in 0 .. (X - 1)
  BY <1>1, <1>5
<1>7. x % W = x /\ y % W = y
  BY <1>1, <1>5, NoWrap
<1>8. CASE f5 = "AMOSWAP"
  <2>1. AmoResult(f5, old, src) = src /\ AmoResult(f5, x, y) = y
    BY <1>8 DEF AmoResult
  <2> QED
    BY <1>2, <1>3, <1>7, <2>1 DEF x, y, Low, W, X
<1>9. CASE f5 = "AMOADD"
  <2>1. AmoResult(f5, old, src) = (old + src) % X /\ AmoResult(f5, x, y) = (x + y) % X
    BY <1>9 DEF AmoResult, X
  <2>2. old + src \in Int /\ x + y \in Int /\ (old + src) - (x + y) = (old - x) + (src - y)
    BY <1>4, <1>6
  <2>3. (old - x) + (src - y) \in Multiples(W)
    <3> DEFINE i == old - x
               j == src - y
    <3> HIDE DEF i, j
    <3>1. i + j \in Multiples(W)
      BY <1>1, <1>5, MultiplesClosed DEF i, j
    <3> QED
      BY <3>1 DEF i, j
  <2> DEFINE n == old + src
             k == x + y
  <2>4. n \in Int /\ k \in Int /\ n - k \in Multiples(W)
    BY <2>2, <2>3
  <2> HIDE DEF n, k
  <2>5. n % W = k % W
    BY <1>1, <2>4, SameRemainder
  <2>6. (n % X) % W = n % W /\ (k % X) % W = k % W
    BY <2>4, Cut DEF W, X
  <2>7. n % X \in 0 .. (X - 1)
    BY <1>1, <2>4, RemainderIs
  <2> QED
    BY <2>1, <2>5, <2>6, <2>7 DEF n, k, Low, x, y, W, X
<1>10. ASSUME NEW r, NEW t, AmoResult(f5, old, src) = r, AmoResult(f5, x, y) = t,
              r \in 0 .. (X - 1), r % W = t, t % W = t
       PROVE  AmoResult(f5, old, src) \in 0 .. (X - 1) /\ Low(AmoResult(f5, old, src)) = Low(AmoResult(f5, x, y))
  BY <1>10 DEF Low, W
<1>11. CASE f5 = "AMOXOR"
  <2>1. AmoResult(f5, old, src) = BitXor(old, src) /\ AmoResult(f5, x, y) = BitXor(x, y)
    BY <1>11 DEF AmoResult
  <2>2. BitXor(old, src) \in 0 .. (X - 1) /\ BitXor(old, src) % W = BitXor(x, y)
    BY <1>2, <1>3, BitwiseAssumption DEF ActsByBit, X, W
  <2>3. BitXor(x, y) % W = BitXor(x, y)
    BY <1>6, <1>7, BitwiseAssumption DEF ActsByBit, X, W
  <2> QED
    BY <1>10, <2>1, <2>2, <2>3 DEF x, y, X
<1>12. CASE f5 = "AMOAND"
  <2>1. AmoResult(f5, old, src) = BitAnd(old, src) /\ AmoResult(f5, x, y) = BitAnd(x, y)
    BY <1>12 DEF AmoResult
  <2>2. BitAnd(old, src) \in 0 .. (X - 1) /\ BitAnd(old, src) % W = BitAnd(x, y)
    BY <1>2, <1>3, BitwiseAssumption DEF ActsByBit, X, W
  <2>3. BitAnd(x, y) % W = BitAnd(x, y)
    BY <1>6, <1>7, BitwiseAssumption DEF ActsByBit, X, W
  <2> QED
    BY <1>10, <2>1, <2>2, <2>3 DEF x, y, X
<1>13. CASE f5 = "AMOOR"
  <2>1. AmoResult(f5, old, src) = BitOr(old, src) /\ AmoResult(f5, x, y) = BitOr(x, y)
    BY <1>13 DEF AmoResult
  <2>2. BitOr(old, src) \in 0 .. (X - 1) /\ BitOr(old, src) % W = BitOr(x, y)
    BY <1>2, <1>3, BitwiseAssumption DEF ActsByBit, X, W
  <2>3. BitOr(x, y) % W = BitOr(x, y)
    BY <1>6, <1>7, BitwiseAssumption DEF ActsByBit, X, W
  <2> QED
    BY <1>10, <2>1, <2>2, <2>3 DEF x, y, X
<1>14. CASE f5 \notin {"AMOSWAP", "AMOADD", "AMOXOR", "AMOAND", "AMOOR"}
  <2>1. AmoResult(f5, old, src) = old /\ AmoResult(f5, x, y) = x
    BY <1>14 DEF AmoResult
  <2> QED
    BY <1>2, <1>3, <1>7, <2>1 DEF x, y, Low, W, X
<1> QED
  BY <1>8, <1>9, <1>11, <1>12, <1>13, <1>14

(* The AMOs, for any width of registers and words.                         *)
LEMMA Amos ==
    ASSUME NEW f5, NEW f3 \in {"W", "D"},
           NEW m \in 0 .. (Pow2[XLEN] - 1), NEW src \in 0 .. (Pow2[XLEN] - 1)
    PROVE  AmoIsRight(f5, f3, m, src)
<1> DEFINE W == Pow2[WLEN]
           X == Pow2[XLEN]
           compares == {"AMOMIN", "AMOMAX", "AMOMINU", "AMOMAXU"}
<1>1. W \in Nat \ {0} /\ X \in Nat \ {0} /\ m \in Int /\ src \in Int /\ m - m = 0
  BY Widths
<1>2. WLEN \in Nat \ {0} /\ XLEN \in Nat \ {0}
  BY Widths
<1>3. CASE f3 = "D"
  <2>1. m % X = m /\ src % X = src
    BY <1>1, NoWrap
  <2>2. execute_amo(f5, f3, m, src) = [memory |-> AmoResult(f5, m, src), rd |-> m]
    BY <1>3 DEF execute_amo, amo_read, amo_write
  <2>3. AmoResult(f5, m, src) = IsaAmo(f5, m, src, XLEN)
    <3>1. CASE f5 \notin compares
      <4>1. AmoResult(f5, m, src) \in 0 .. (X - 1)
        BY <3>1, AmoWord
      <4>2. AmoResult(f5, m, src) % X = AmoResult(f5, m, src)
        BY <1>1, <4>1, NoWrap
      <4> QED
        BY <3>1, <4>2 DEF IsaAmo
    <3>2. CASE f5 \in compares
      <4> DEFINE p == Signed(m, XLEN)
                 q == Signed(src, XLEN)
      <4>1. p \in Int /\ q \in Int /\ (p = q => m = src)
        BY <1>2, SignedIs, SignedUnique
      <4>2. /\ f5 = "AMOMIN"  => AmoResult(f5, m, src) = (IF p < q THEN m ELSE src)
            /\ f5 = "AMOMAX"  => AmoResult(f5, m, src) = (IF p > q THEN m ELSE src)
            /\ f5 = "AMOMINU" => AmoResult(f5, m, src) = (IF m < src THEN m ELSE src)
            /\ f5 = "AMOMAXU" => AmoResult(f5, m, src) = (IF m > src THEN m ELSE src)
        BY DEF AmoResult
      <4>3. /\ f5 = "AMOMIN"  => IsaAmo(f5, m, src, XLEN) = (IF p < q THEN m ELSE src)
            /\ f5 = "AMOMAX"  => IsaAmo(f5, m, src, XLEN) = (IF p < q THEN src ELSE m)
            /\ f5 = "AMOMINU" => IsaAmo(f5, m, src, XLEN) = (IF m < src THEN m ELSE src)
            /\ f5 = "AMOMAXU" => IsaAmo(f5, m, src, XLEN) = (IF m < src THEN src ELSE m)
        BY DEF IsaAmo
      <4> HIDE DEF p, q
      <4>4. (IF p > q THEN m ELSE src) = (IF p < q THEN src ELSE m)
        BY <4>1
      <4>5. (IF m > src THEN m ELSE src) = (IF m < src THEN src ELSE m)
        BY <1>1
      <4> QED
        BY <3>2, <4>2, <4>3, <4>4, <4>5
    <3> QED
      BY <3>1, <3>2
  <2> QED
    BY <1>3, <2>1, <2>2, <2>3 DEF AmoIsRight
<1>4. CASE f3 = "W"
  <2> DEFINE old == SextW(m)
             l == Low(m)
             k == Low(src)
  <2>1. execute_amo(f5, f3, m, src) = [memory |-> Low(AmoResult(f5, old, src)), rd |-> old]
    BY <1>4 DEF execute_amo, amo_read, amo_write
  <2>2. l = m % W /\ k = src % W
    BY DEF Low
  <2>3. /\ old \in 0 .. (X - 1) /\ Low(old) = l /\ Signed(old, XLEN) = Signed(l, WLEN)
        /\ l \in 0 .. (W - 1) /\ k \in 0 .. (W - 1)
    BY <1>1, SextIs DEF Low
  <2>4. ASSUME f5 \in compares => src = SextW(src)
        PROVE  Low(AmoResult(f5, old, src)) = IsaAmo(f5, l, k, WLEN)
    <3>1. CASE f5 \notin compares
      <4>1. IsaAmo(f5, l, k, WLEN) = Low(AmoResult(f5, l, k))
        BY <3>1 DEF IsaAmo, Low
      <4> HIDE DEF old, l
      <4>2. Low(AmoResult(f5, old, src)) = Low(AmoResult(f5, Low(old), k))
        BY <2>3, <3>1, AmoWord
      <4> QED
        BY <2>3, <4>1, <4>2
    <3>2. CASE f5 \in compares
      <4> DEFINE p == Signed(l, WLEN)
                 q == Signed(k, WLEN)
      <4>1. src = SextW(src)
        BY <2>4, <3>2
      <4>2. Signed(src, XLEN) = q
        <5>1. Signed(SextW(src), XLEN) = q
          BY <1>1, SextIs DEF Low
        <5> QED
          BY <4>1, <5>1
      <4>3. p \in Int /\ q \in Int /\ (p = q => l = k)
        <5> HIDE DEF l, k
        <5> QED
          BY <1>2, <2>3, SignedIs, SignedUnique
      <4>4. old = SextW(l) /\ src = SextW(k)
        <5>1. 0 \in Multiples(W) /\ src - src = 0
          BY <1>1, MultiplesHas
        <5>2. SextW(m % W) = SextW(m) /\ SextW(src % W) = SextW(src)
          BY <1>1, <5>1, SextSame
        <5> QED
          BY <2>2, <4>1, <5>2
      <4>5. (old < src <=> l < k) /\ (src < old <=> k < l)
        <5>1. (SextW(l) < SextW(k) <=> l < k) /\ (SextW(k) < SextW(l) <=> k < l)
          <6> HIDE DEF l, k
          <6> QED
            BY <2>3, SextOrder
        <5> QED
          BY <4>4, <5>1
      <4>6. /\ f5 = "AMOMIN"  => AmoResult(f5, old, src) = (IF p < q THEN old ELSE src)
            /\ f5 = "AMOMAX"  => AmoResult(f5, old, src) = (IF p > q THEN old ELSE src)
            /\ f5 = "AMOMINU" => AmoResult(f5, old, src) = (IF old < src THEN old ELSE src)
            /\ f5 = "AMOMAXU" => AmoResult(f5, old, src) = (IF old > src THEN old ELSE src)
        BY <2>3, <4>2 DEF AmoResult
      <4>7. /\ f5 = "AMOMIN"  => IsaAmo(f5, l, k, WLEN) = (IF p < q THEN l ELSE k)
            /\ f5 = "AMOMAX"  => IsaAmo(f5, l, k, WLEN) = (IF p < q THEN k ELSE l)
            /\ f5 = "AMOMINU" => IsaAmo(f5, l, k, WLEN) = (IF l < k THEN l ELSE k)
            /\ f5 = "AMOMAXU" => IsaAmo(f5, l, k, WLEN) = (IF l < k THEN k ELSE l)
        BY DEF IsaAmo
      <4>8. Low(src) = k /\ Low(old) = l /\ l \in Int /\ k \in Int /\ old \in Int
        BY <1>1, <2>3
      <4> HIDE DEF p, q, l, k, old
      <4>9. Low(IF p < q THEN old ELSE src) = (IF p < q THEN l ELSE k)
        BY <4>8
      <4>10. Low(IF old < src THEN old ELSE src) = (IF l < k THEN l ELSE k)
        BY <4>5, <4>8
      <4>11. Low(IF p > q THEN old ELSE src) = (IF p < q THEN k ELSE l)
        <5>1. CASE p > q
          BY <4>3, <4>8, <5>1
        <5>2. CASE p < q
          BY <4>3, <4>8, <5>2
        <5>3. CASE p = q
          BY <4>3, <4>8, <5>3
        <5> QED
          BY <4>3, <5>1, <5>2, <5>3
      <4>12. Low(IF old > src THEN old ELSE src) = (IF l < k THEN k ELSE l)
        <5>1. old > src <=> k < l
          BY <1>1, <4>5, <4>8
        <5>2. CASE k < l
          BY <4>8, <5>1, <5>2
        <5>3. CASE l < k
          BY <4>8, <5>1, <5>3
        <5>4. CASE l = k
          BY <4>8, <5>1, <5>4
        <5> QED
          BY <4>8, <5>2, <5>3, <5>4
      <4> QED
        BY <3>2, <4>6, <4>7, <4>9, <4>10, <4>11, <4>12
    <3> QED
      BY <3>1, <3>2
  <2> HIDE DEF old, l, k
  <2> QED
    BY <1>4, <2>1, <2>2, <2>3, <2>4 DEF AmoIsRight
<1> QED
  BY <1>3, <1>4

-----------------------------------------------------------------------------
(* Integer arithmetic of execute in cpu.c: DIV(U), REM(U), MUL, MULHU       *)
(* and the W forms have the results of the ISA manual for any operands and *)
(* any width of registers and of words below it that is a power of 2.      *)
THEOREM ArithmeticIsRight ==
    ASSUME input.of = "arithmetic" =>
               input.a \in 0 .. (Pow2[XLEN] - 1) /\ input.b \in 0 .. (Pow2[XLEN] - 1)
    PROVE  ArithmeticLaws
<1> SUFFICES ASSUME NEW a \in 0 .. (Pow2[XLEN] - 1), NEW b \in 0 .. (Pow2[XLEN] - 1)
             PROVE  /\ DivisionIsRight(a, b, XLEN)
                    /\ DivisionIsRight(Low(a), Low(b), WLEN)
                    /\ UnsignedProductIsRight(a, b)
                    /\ WordFormsAgree(a, b)
  BY DEF ArithmeticLaws
<1>1. DivisionIsRight(a, b, XLEN)
  BY Widths, DivisionAtWidth
<1>2. DivisionIsRight(Low(a), Low(b), WLEN)
  <2> DEFINE u == Low(a)
             v == Low(b)
  <2>1. u \in 0 .. (Pow2[WLEN] - 1) /\ v \in 0 .. (Pow2[WLEN] - 1)
    BY OperandIs
  <2> HIDE DEF u, v
  <2>2. DivisionIsRight(u, v, WLEN)
    BY <2>1, Widths, DivisionAtWidth
  <2> QED
    BY <2>2 DEF u, v
<1> QED
  BY <1>1, <1>2, Products, WordForms

(* MULH and MULHSU in execute of cpu.c: exactly which operands they get    *)
(* wrong.  MULH is right if what the missing sign extension adds to the    *)
(* upper half vanishes, for two operands that are not negative above all;  *)
(* MULHSU if the signed operand is not negative or the other one is 0.     *)
THEOREM SignedProductsExactly ==
    ASSUME NEW a \in 0 .. (Pow2[XLEN] - 1), NEW b \in 0 .. (Pow2[XLEN] - 1)
    PROVE  SignedProductsAreRight(a, b) <=>
              Missing(a, b) % Pow2[XLEN] = 0 /\ (Signed(a, XLEN) < 0 => b = 0)
BY Products DEF SignedProductsAreRight

(* execute_amo: an AMO does to memory and to rd what the ISA manual says   *)
(* at both widths, for any contents of memory.  One that compares words    *)
(* (AMOMIN.W and the like) does so for an operand that is a sign-extended  *)
(* word; all others for any operand.                                       *)
THEOREM AmosAreRight ==
    ASSUME input.of = "amo" =>
               /\ input.f3 \in {"W", "D"}
               /\ input.m \in 0 .. (Pow2[XLEN] - 1) /\ input.src \in 0 .. (Pow2[XLEN] - 1)
    PROVE  AmoOnWords
BY Amos DEF AmoOnWords

-----------------------------------------------------------------------------
(* The bits of a constant.                                                 *)
LEMMA Powers == 2^0 = 1 /\ 2^1 = 2 /\ 2^2 = 4 /\ 2^3 = 8 /\ 2^4 = 16 /\ 2^5 = 32 /\ 2^6 = 64 /\ 2^7 = 128
OBVIOUS

(* The bits of a byte, one by one.                                         *)
LEMMA BitsAre ==
    ASSUME NEW n \in Nat
    PROVE  /\ 0 \in Bits(n) <=> n % 2 = 1
           /\ 1 \in Bits(n) <=> (n \div 2) % 2 = 1
           /\ 2 \in Bits(n) <=> (n \div 4) % 2 = 1
           /\ 3 \in Bits(n) <=> (n \div 8) % 2 = 1
           /\ 4 \in Bits(n) <=> (n \div 16) % 2 = 1
           /\ 5 \in Bits(n) <=> (n \div 32) % 2 = 1
           /\ 6 \in Bits(n) <=> (n \div 64) % 2 = 1
           /\ 7 \in Bits(n) <=> (n \div 128) % 2 = 1
           /\ Bits(n) \in SUBSET (0 .. 7)
BY Powers DEF Bits

(* A field has the bits of the instruction, moved.                         *)
LEMMA FieldHas ==
    ASSUME NEW r \in SUBSET (0 .. 31), NEW from \in Nat, NEW n \in Nat, NEW to \in Nat
    PROVE  /\ \A k \in Int : k \in Field(r, from, n, to) <=>
                  k \in to .. (to + (n - 1)) /\ k - to + from \in r
           /\ Field(r, from, n, to) \in SUBSET Int
BY DEF Field

(* A field of one bit.                                                     *)
LEMMA BitHas ==
    ASSUME NEW r \in SUBSET (0 .. 31), NEW from \in Nat, NEW to \in Nat
    PROVE  \A k \in Int : k \in Field(r, from, 1, to) <=> k = to /\ from \in r
<1>1. \A k \in Int : k \in Field(r, from, 1, to) <=> k \in to .. (to + (1 - 1)) /\ k - to + from \in r
  BY FieldHas
<1>2. to - to + from = from
  OBVIOUS
<1> QED
  BY <1>1, <1>2

(* Sign extension repeats the highest bit up to bit 63.                    *)
LEMMA SextHas ==
    ASSUME NEW val \in SUBSET Int, NEW bits \in 1 .. 63
    PROVE  /\ \A k \in Int : k \in sext(val, bits) <=>
                  k \in 0 .. 63 /\ (IF k < bits THEN k \in val ELSE bits - 1 \in val)
           /\ sext(val, bits) \in SUBSET Int
BY DEF sext

(* Sets of numbers with the same members are the same.                     *)
LEMMA SameBits ==
    ASSUME NEW A \in SUBSET Int, NEW B \in SUBSET Int, \A k \in Int : k \in A <=> k \in B
    PROVE  A = B
OBVIOUS

(* The opcodes that tell the formats apart, by their bits 2 to 6.          *)
LEMMA Opcodes ==
    LET Has(op, b2, b3, b4, b5, b6) ==
          /\ (2 \in op <=> b2) /\ (3 \in op <=> b3) /\ (4 \in op <=> b4)
          /\ (5 \in op <=> b5) /\ (6 \in op <=> b6)
    IN  /\ Has(OP_LUI, TRUE, FALSE, TRUE, TRUE, FALSE)
        /\ Has(OP_AUIPC, TRUE, FALSE, TRUE, FALSE, FALSE)
        /\ Has(OP_JAL, TRUE, TRUE, FALSE, TRUE, TRUE)
        /\ Has(OP_JALR, TRUE, FALSE, FALSE, TRUE, TRUE)
        /\ Has(OP_BRANCH, FALSE, FALSE, FALSE, TRUE, TRUE)
        /\ Has(OP_LOAD, FALSE, FALSE, FALSE, FALSE, FALSE)
        /\ Has(OP_STORE, FALSE, FALSE, FALSE, TRUE, FALSE)
        /\ Has(OP_I_ARITH, FALSE, FALSE, TRUE, FALSE, FALSE)
        /\ Has(OP_I_ARITH_W, FALSE, TRUE, TRUE, FALSE, FALSE)
        /\ Has(OP_SYSTEM, FALSE, FALSE, TRUE, TRUE, TRUE)
        /\ Has(OP_FLW_FLD, TRUE, FALSE, FALSE, FALSE, FALSE)
        /\ Has(OP_FSW_FSD, TRUE, FALSE, FALSE, TRUE, FALSE)
BY BitsAre DEF OP_LUI, OP_AUIPC, OP_JAL, OP_JALR, OP_BRANCH, OP_LOAD, OP_STORE, OP_I_ARITH,
       OP_I_ARITH_W, OP_SYSTEM, OP_FLW_FLD, OP_FSW_FSD

(* So no opcode is of two formats.                                         *)
LEMMA Formats ==
    ASSUME NEW op
    PROVE  LET i == op \in {OP_JALR, OP_LOAD, OP_FLW_FLD, OP_I_ARITH, OP_I_ARITH_W, OP_SYSTEM}
               s == op \in {OP_STORE, OP_FSW_FSD}
               b == op = OP_BRANCH
               u == op \in {OP_LUI, OP_AUIPC}
               j == op = OP_JAL
           IN  /\ i => ~s /\ ~b /\ ~u /\ ~j
               /\ s => ~b /\ ~u /\ ~j
               /\ b => ~u /\ ~j
               /\ u => ~j
<1>1. /\ OP_BRANCH \notin {OP_JALR, OP_LOAD, OP_FLW_FLD, OP_I_ARITH, OP_I_ARITH_W, OP_SYSTEM}
      /\ OP_JAL \notin {OP_JALR, OP_LOAD, OP_FLW_FLD, OP_I_ARITH, OP_I_ARITH_W, OP_SYSTEM}
      /\ OP_STORE \notin {OP_JALR, OP_LOAD, OP_FLW_FLD, OP_I_ARITH, OP_I_ARITH_W, OP_SYSTEM}
      /\ OP_FSW_FSD \notin {OP_JALR, OP_LOAD, OP_FLW_FLD, OP_I_ARITH, OP_I_ARITH_W, OP_SYSTEM}
      /\ OP_LUI \notin {OP_JALR, OP_LOAD, OP_FLW_FLD, OP_I_ARITH, OP_I_ARITH_W, OP_SYSTEM}
      /\ OP_AUIPC \notin {OP_JALR, OP_LOAD, OP_FLW_FLD, OP_I_ARITH, OP_I_ARITH_W, OP_SYSTEM}
  BY Opcodes
<1>2. /\ {OP_BRANCH, OP_JAL, OP_LUI, OP_AUIPC} \cap {OP_STORE, OP_FSW_FSD} = {}
      /\ {OP_BRANCH, OP_JAL} \cap {OP_LUI, OP_AUIPC} = {} /\ OP_BRANCH # OP_JAL
  BY Opcodes
<1> QED
  BY <1>1, <1>2

(* The immediate of a 32-bit instruction.                                  *)
LEMMA WordImmediate ==
    ASSUME NEW r \in SUBSET (0 .. 31), NEW op
    PROVE  Immediate(r, op) = {k \in 0 .. 63 : Source(op, k) \in r}
<1> DEFINE isa == {k \in 0 .. 63 : Source(op, k) \in r}
           iop == op \in {OP_JALR, OP_LOAD, OP_FLW_FLD, OP_I_ARITH, OP_I_ARITH_W, OP_SYSTEM}
           sop == op \in {OP_STORE, OP_FSW_FSD}
           bop == op = OP_BRANCH
           uop == op \in {OP_LUI, OP_AUIPC}
           jop == op = OP_JAL
<1>0. isa \in SUBSET Int /\ O \notin r
  BY DEF O
<1>00. ASSUME NEW imm \in SUBSET Int, \A k \in Int : k \in imm <=> k \in 0 .. 63 /\ Source(op, k) \in r
       PROVE  imm = isa
  BY <1>0, <1>00, SameBits
<1> HIDE DEF isa
<1>1. CASE iop
  <2> DEFINE f == Field(r, 20, 12, 0)
             imm == sext(f, 12)
  <2>1. Immediate(r, op) = imm
    BY <1>1, Formats DEF Immediate
  <2>2. \A k \in Int : Source(op, k) = IF k <= 10 THEN k + 20 ELSE 31
    BY <1>1, Formats DEF Source
  <2>3. (\A k \in Int : k \in f <=> k \in 0 .. 11 /\ k + 20 \in r) /\ f \in SUBSET Int
    BY FieldHas
  <2> HIDE DEF f
  <2>4. /\ \A k \in Int : k \in imm <=> k \in 0 .. 63 /\ (IF k < 12 THEN k \in f ELSE 11 \in f)
        /\ imm \in SUBSET Int
    BY <2>3, SextHas
  <2> HIDE DEF imm
  <2>5. \A k \in Int : k \in imm <=> k \in 0 .. 63 /\ Source(op, k) \in r
    BY <2>2, <2>3, <2>4
  <2> QED
    BY <1>00, <2>1, <2>4, <2>5 DEF isa
<1>2. CASE sop
  <2> DEFINE f == Field(r, 25, 7, 5) \cup Field(r, 7, 5, 0)
             imm == sext(f, 12)
  <2>1. Immediate(r, op) = imm
    BY <1>2, Formats DEF Immediate
  <2>2. \A k \in Int : Source(op, k) = IF k <= 4 THEN k + 7 ELSE IF k <= 10 THEN k + 20 ELSE 31
    BY <1>2, Formats DEF Source
  <2>3. /\ \A k \in Int : k \in f <=> (k \in 5 .. 11 /\ k + 20 \in r) \/ (k \in 0 .. 4 /\ k + 7 \in r)
        /\ f \in SUBSET Int
    BY FieldHas
  <2> HIDE DEF f
  <2>4. /\ \A k \in Int : k \in imm <=> k \in 0 .. 63 /\ (IF k < 12 THEN k \in f ELSE 11 \in f)
        /\ imm \in SUBSET Int
    BY <2>3, SextHas
  <2> HIDE DEF imm
  <2>5. \A k \in Int : k \in imm <=> k \in 0 .. 63 /\ Source(op, k) \in r
    BY <2>2, <2>3, <2>4
  <2> QED
    BY <1>00, <2>1, <2>4, <2>5 DEF isa
<1>3. CASE bop
  <2> DEFINE f == Field(r, 31, 1, 12) \cup Field(r, 7, 1, 11) \cup Field(r, 25, 6, 5)
                    \cup Field(r, 8, 4, 1)
             imm == sext(f, 13)
  <2>1. Immediate(r, op) = imm
    BY <1>3, Formats DEF Immediate
  <2>2. \A k \in Int : Source(op, k) =
           IF k = 0 THEN O ELSE IF k <= 4 THEN k + 7 ELSE IF k <= 10 THEN k + 20
           ELSE IF k = 11 THEN 7 ELSE 31
    BY <1>3, Formats DEF Source
  <2>3. /\ \A k \in Int : k \in f <=> \/ k = 12 /\ 31 \in r
                                      \/ k = 11 /\ 7 \in r
                                      \/ k \in 5 .. 10 /\ k + 20 \in r
                                      \/ k \in 1 .. 4 /\ k + 7 \in r
        /\ f \in SUBSET Int
    BY FieldHas
  <2> HIDE DEF f
  <2>4. /\ \A k \in Int : k \in imm <=> k \in 0 .. 63 /\ (IF k < 13 THEN k \in f ELSE 12 \in f)
        /\ imm \in SUBSET Int
    BY <2>3, SextHas
  <2> HIDE DEF imm
  <2>5. \A k \in Int : k \in imm <=> k \in 0 .. 63 /\ Source(op, k) \in r
    BY <1>0, <2>2, <2>3, <2>4
  <2> QED
    BY <1>00, <2>1, <2>4, <2>5 DEF isa
<1>4. CASE uop
  <2> DEFINE f == Field(r, 12, 20, 12)
             imm == sext(f, 32)
  <2>1. Immediate(r, op) = imm
    BY <1>4, Formats DEF Immediate
  <2>2. \A k \in Int : Source(op, k) = IF k <= 11 THEN O ELSE IF k <= 30 THEN k ELSE 31
    BY <1>4, Formats DEF Source
  <2>3. (\A k \in Int : k \in f <=> k \in 12 .. 31 /\ k \in r) /\ f \in SUBSET Int
    BY FieldHas
  <2> HIDE DEF f
  <2>4. /\ \A k \in Int : k \in imm <=> k \in 0 .. 63 /\ (IF k < 32 THEN k \in f ELSE 31 \in f)
        /\ imm \in SUBSET Int
    BY <2>3, SextHas
  <2> HIDE DEF imm
  <2>5. \A k \in Int : k \in imm <=> k \in 0 .. 63 /\ Source(op, k) \in r
    BY <1>0, <2>2, <2>3, <2>4
  <2> QED
    BY <1>00, <2>1, <2>4, <2>5 DEF isa
<1>5. CASE jop
  <2> DEFINE f == Field(r, 31, 1, 20) \cup Field(r, 12, 8, 12) \cup Field(r, 20, 1, 11)
                    \cup Field(r, 21, 10, 1)
             imm == sext(f, 21)
  <2>1. Immediate(r, op) = imm
    BY <1>5, Formats DEF Immediate
  <2>2. \A k \in Int : Source(op, k) =
           IF k = 0 THEN O ELSE IF k <= 10 THEN k + 20 ELSE IF k = 11 THEN 20
           ELSE IF k <= 19 THEN k ELSE 31
    BY <1>5, Formats DEF Source
  <2>3. /\ \A k \in Int : k \in f <=> \/ k = 20 /\ 31 \in r
                                      \/ k \in 12 .. 19 /\ k \in r
                                      \/ k = 11 /\ 20 \in r
                                      \/ k \in 1 .. 10 /\ k + 20 \in r
        /\ f \in SUBSET Int
    BY FieldHas
  <2> HIDE DEF f
  <2>4. /\ \A k \in Int : k \in imm <=> k \in 0 .. 63 /\ (IF k < 21 THEN k \in f ELSE 20 \in f)
        /\ imm \in SUBSET Int
    BY <2>3, SextHas
  <2> HIDE DEF imm
  <2>5. \A k \in Int : k \in imm <=> k \in 0 .. 63 /\ Source(op, k) \in r
    BY <1>0, <2>2, <2>3, <2>4
  <2> QED
    BY <1>00, <2>1, <2>4, <2>5 DEF isa
<1>6. CASE ~iop /\ ~sop /\ ~bop /\ ~uop /\ ~jop
  <2>1. Immediate(r, op) = {}
    BY <1>6 DEF Immediate
  <2>2. \A k \in Int : Source(op, k) = O
    BY <1>6 DEF Source
  <2> QED
    BY <1>0, <2>1, <2>2 DEF isa
<1> QED
  BY <1>1, <1>2, <1>3, <1>4, <1>5, <1>6 DEF isa

-----------------------------------------------------------------------------
(* What a layout t of the eleven bits 12 .. 2 of a compressed instruction  *)
(* says of bit k of its immediate.                                         *)
Held(r, t, k) ==
    /\ k # O
    /\ \/ 12 \in r /\ k = t[1]
       \/ 11 \in r /\ k = t[2]
       \/ 10 \in r /\ k = t[3]
       \/  9 \in r /\ k = t[4]
       \/  8 \in r /\ k = t[5]
       \/  7 \in r /\ k = t[6]
       \/  6 \in r /\ k = t[7]
       \/  5 \in r /\ k = t[8]
       \/  4 \in r /\ k = t[9]
       \/  3 \in r /\ k = t[10]
       \/  2 \in r /\ k = t[11]

(* imm is the immediate that t lays out, repeating bit 12 if signed.       *)
LaidOut(imm, r, t, signed) ==
    /\ imm \in SUBSET Int
    /\ \A k \in Int : k \in imm <=> Held(r, t, k) \/ (signed /\ 12 \in r /\ k \in (t[1] + 1) .. 63)

(* The reference immediate is the one laid out.                            *)
LEMMA RvcIs ==
    ASSUME NEW r \in SUBSET (0 .. 31), NEW f3, NEW t \in [1 .. 11 -> Int], Layout(r, f3) = t,
           NEW imm, LaidOut(imm, r, t, IsSigned(r, f3))
    PROVE  imm = RvcImmediate(r, f3)
<1> DEFINE held == {t[i] : i \in {j \in DOMAIN t : 13 - j \in r}}
           above == IF IsSigned(r, f3) /\ 12 \in r THEN (t[1] + 1) .. 63 ELSE {}
<1>1. t # <<>> /\ DOMAIN t = 1 .. 11
  <2>1. DOMAIN t = 1 .. 11 /\ 1 \in 1 .. 11
    OBVIOUS
  <2>2. 1 \notin DOMAIN <<>>
    OBVIOUS
  <2> QED
    BY <2>1, <2>2
<1>2. RvcImmediate(r, f3) = (held \ {O}) \cup above
  <2>1. RvcImmediate(r, f3) =
          (held \ {O}) \cup (IF t # <<>> /\ IsSigned(r, f3) /\ 12 \in r THEN (t[1] + 1) .. 63 ELSE {})
    BY Zenon DEF RvcImmediate
  <2> QED
    BY <1>1, <2>1, Zenon
<1>3. \A k \in Int : k \in held <=> \E j \in 1 .. 11 : 13 - j \in r /\ k = t[j]
  BY <1>1
<1>4. held \in SUBSET Int /\ above \in SUBSET Int
  <2>1. \A i \in DOMAIN t : t[i] \in Int
    BY <1>1
  <2>2. held \in SUBSET Int
    BY <2>1
  <2>3. (t[1] + 1) .. 63 \in SUBSET Int
    OBVIOUS
  <2>4. above \in SUBSET Int
    BY <2>3
  <2> QED
    BY <2>2, <2>4
<1>5. \A k \in Int : (\E j \in 1 .. 11 : 13 - j \in r /\ k = t[j]) /\ k # O <=> Held(r, t, k)
  BY DEF Held
<1>6. \A k \in Int : k \in above <=> IsSigned(r, f3) /\ 12 \in r /\ k \in (t[1] + 1) .. 63
  OBVIOUS
<1> HIDE DEF held, above
<1>7. \A k \in Int : k \in (held \ {O}) \cup above <=> k \in imm
  BY <1>3, <1>5, <1>6 DEF LaidOut
<1>8. imm \in SUBSET Int /\ (held \ {O}) \cup above \in SUBSET Int
  BY <1>4 DEF LaidOut
<1>9. (held \ {O}) \cup above = imm
  BY <1>7, <1>8
<1> QED
  BY <1>2, <1>9

(* The immediate imm_addi4spn.                                             *)
LEMMA Addi4spnLaidOut ==
    ASSUME NEW r \in SUBSET (0 .. 31)
    PROVE  LaidOut(imm_addi4spn(r), r, <<5, 4, 9, 8, 7, 6, 2, 3, O, O, O>>, FALSE)
<1> DEFINE t == <<5, 4, 9, 8, 7, 6, 2, 3, O, O, O>>
           f == Field(r, 6, 1, 2) \cup Field(r, 5, 1, 3) \cup Field(r, 11, 2, 4) \cup Field(r, 7, 4, 6)
<1>1. /\ \A k \in Int : k \in f <=> \/ k = 2 /\ 6 \in r
                                    \/ k = 3 /\ 5 \in r
                                    \/ k \in 4 .. 5 /\ k + 7 \in r
                                    \/ k \in 6 .. 9 /\ k + 1 \in r
      /\ f \in SUBSET Int
  BY FieldHas, BitHas
<1>2. /\ t[1] = 5 /\ t[2] = 4 /\ t[3] = 9 /\ t[4] = 8 /\ t[5] = 7 /\ t[6] = 6
      /\ t[7] = 2 /\ t[8] = 3 /\ t[9] = O /\ t[10] = O /\ t[11] = O
  OBVIOUS
<1> HIDE DEF t, f
<1>3. \A k \in Int : k \in f <=> Held(r, t, k)
  BY <1>1, <1>2 DEF Held, O
<1>4. LaidOut(f, r, t, FALSE)
  BY <1>1, <1>3 DEF LaidOut
<1> QED
  BY <1>4 DEF imm_addi4spn, t, f

(* The immediate imm_clw.                                                  *)
LEMMA ClwLaidOut ==
    ASSUME NEW r \in SUBSET (0 .. 31)
    PROVE  LaidOut(imm_clw(r), r, <<5, 4, 3, O, O, O, 2, 6, O, O, O>>, FALSE)
<1> DEFINE t == <<5, 4, 3, O, O, O, 2, 6, O, O, O>>
           f == Field(r, 10, 3, 3) \cup Field(r, 6, 1, 2) \cup Field(r, 5, 1, 6)
<1>1. /\ \A k \in Int : k \in f <=> \/ k \in 3 .. 5 /\ k + 7 \in r
                                    \/ k = 2 /\ 6 \in r
                                    \/ k = 6 /\ 5 \in r
      /\ f \in SUBSET Int
  BY FieldHas, BitHas
<1>2. /\ t[1] = 5 /\ t[2] = 4 /\ t[3] = 3 /\ t[4] = O /\ t[5] = O /\ t[6] = O
      /\ t[7] = 2 /\ t[8] = 6 /\ t[9] = O /\ t[10] = O /\ t[11] = O
  OBVIOUS
<1> HIDE DEF t, f
<1>3. \A k \in Int : k \in f <=> Held(r, t, k)
  BY <1>1, <1>2 DEF Held, O
<1>4. LaidOut(f, r, t, FALSE)
  BY <1>1, <1>3 DEF LaidOut
<1> QED
  BY <1>4 DEF imm_clw, t, f

(* The immediate imm_cld.                                                  *)
LEMMA CldLaidOut ==
    ASSUME NEW r \in SUBSET (0 .. 31)
    PROVE  LaidOut(imm_cld(r), r, <<5, 4, 3, O, O, O, 7, 6, O, O, O>>, FALSE)
<1> DEFINE t == <<5, 4, 3, O, O, O, 7, 6, O, O, O>>
           f == Field(r, 10, 3, 3) \cup Field(r, 5, 2, 6)
<1>1. /\ \A k \in Int : k \in f <=> \/ k \in 3 .. 5 /\ k + 7 \in r
                                    \/ k \in 6 .. 7 /\ k - 1 \in r
      /\ f \in SUBSET Int
  BY FieldHas, BitHas
<1>2. /\ t[1] = 5 /\ t[2] = 4 /\ t[3] = 3 /\ t[4] = O /\ t[5] = O /\ t[6] = O
      /\ t[7] = 7 /\ t[8] = 6 /\ t[9] = O /\ t[10] = O /\ t[11] = O
  OBVIOUS
<1> HIDE DEF t, f
<1>3. \A k \in Int : k \in f <=> Held(r, t, k)
  BY <1>1, <1>2 DEF Held, O
<1>4. LaidOut(f, r, t, FALSE)
  BY <1>1, <1>3 DEF LaidOut
<1> QED
  BY <1>4 DEF imm_cld, t, f

(* The immediate imm_ci.                                                   *)
LEMMA CiLaidOut ==
    ASSUME NEW r \in SUBSET (0 .. 31)
    PROVE  LaidOut(imm_ci(r), r, <<5, O, O, O, O, O, 4, 3, 2, 1, 0>>, TRUE)
<1> DEFINE t == <<5, O, O, O, O, O, 4, 3, 2, 1, 0>>
           f == Field(r, 12, 1, 5) \cup Field(r, 2, 5, 0)
<1>1. /\ \A k \in Int : k \in f <=> \/ k = 5 /\ 12 \in r
                                    \/ k \in 0 .. 4 /\ k + 2 \in r
      /\ f \in SUBSET Int
  BY FieldHas, BitHas
<1>2. /\ t[1] = 5 /\ t[2] = O /\ t[3] = O /\ t[4] = O /\ t[5] = O /\ t[6] = O
      /\ t[7] = 4 /\ t[8] = 3 /\ t[9] = 2 /\ t[10] = 1 /\ t[11] = 0
  OBVIOUS
<1> HIDE DEF t, f
<1>3. \A k \in Int : k \in f <=> Held(r, t, k)
  BY <1>1, <1>2 DEF Held, O
<1>4. /\ \A k \in Int : k \in sext(f, 6) <=> k \in 0 .. 63 /\ (IF k < 6 THEN k \in f ELSE 5 \in f)
      /\ sext(f, 6) \in SUBSET Int
  BY <1>1, SextHas
<1>5. (5 \in f <=> 12 \in r) /\ \A k \in f : k \in 0 .. 5
  BY <1>1
<1>6. \A k \in Int : k \in sext(f, 6) <=> k \in f \/ (12 \in r /\ k \in 6 .. 63)
  BY <1>4, <1>5
<1>7. (t[1] + 1) .. 63 = 6 .. 63
  BY <1>2
<1>8. LaidOut(sext(f, 6), r, t, TRUE)
  BY <1>3, <1>4, <1>6, <1>7 DEF LaidOut
<1> QED
  BY <1>8 DEF imm_ci, t, f

(* The immediate imm_addi16sp.                                             *)
LEMMA Addi16spLaidOut ==
    ASSUME NEW r \in SUBSET (0 .. 31)
    PROVE  LaidOut(imm_addi16sp(r), r, <<9, O, O, O, O, O, 4, 6, 8, 7, 5>>, TRUE)
<1> DEFINE t == <<9, O, O, O, O, O, 4, 6, 8, 7, 5>>
           f == Field(r, 12, 1, 9) \cup Field(r, 6, 1, 4) \cup Field(r, 5, 1, 6) \cup Field(r, 3, 2, 7)
                  \cup Field(r, 2, 1, 5)
<1>1. /\ \A k \in Int : k \in f <=> \/ k = 9 /\ 12 \in r
                                    \/ k = 4 /\ 6 \in r
                                    \/ k = 6 /\ 5 \in r
                                    \/ k \in 7 .. 8 /\ k - 4 \in r
                                    \/ k = 5 /\ 2 \in r
      /\ f \in SUBSET Int
  BY FieldHas, BitHas
<1>2. /\ t[1] = 9 /\ t[2] = O /\ t[3] = O /\ t[4] = O /\ t[5] = O /\ t[6] = O
      /\ t[7] = 4 /\ t[8] = 6 /\ t[9] = 8 /\ t[10] = 7 /\ t[11] = 5
  OBVIOUS
<1> HIDE DEF t, f
<1>3. \A k \in Int : k \in f <=> Held(r, t, k)
  BY <1>1, <1>2 DEF Held, O
<1>4. /\ \A k \in Int : k \in sext(f, 10) <=> k \in 0 .. 63 /\ (IF k < 10 THEN k \in f ELSE 9 \in f)
      /\ sext(f, 10) \in SUBSET Int
  BY <1>1, SextHas
<1>5. (9 \in f <=> 12 \in r) /\ \A k \in f : k \in 0 .. 9
  BY <1>1
<1>6. \A k \in Int : k \in sext(f, 10) <=> k \in f \/ (12 \in r /\ k \in 10 .. 63)
  BY <1>4, <1>5
<1>7. (t[1] + 1) .. 63 = 10 .. 63
  BY <1>2
<1>8. LaidOut(sext(f, 10), r, t, TRUE)
  BY <1>3, <1>4, <1>6, <1>7 DEF LaidOut
<1> QED
  BY <1>8 DEF imm_addi16sp, t, f

(* The immediate imm_lui.                                                  *)
LEMMA LuiLaidOut ==
    ASSUME NEW r \in SUBSET (0 .. 31)
    PROVE  LaidOut(imm_lui(r), r, <<17, O, O, O, O, O, 16, 15, 14, 13, 12>>, TRUE)
<1> DEFINE t == <<17, O, O, O, O, O, 16, 15, 14, 13, 12>>
           f == Field(r, 12, 1, 17) \cup Field(r, 2, 5, 12)
<1>1. /\ \A k \in Int : k \in f <=> \/ k = 17 /\ 12 \in r
                                    \/ k \in 12 .. 16 /\ k - 10 \in r
      /\ f \in SUBSET Int
  BY FieldHas, BitHas
<1>2. /\ t[1] = 17 /\ t[2] = O /\ t[3] = O /\ t[4] = O /\ t[5] = O /\ t[6] = O
      /\ t[7] = 16 /\ t[8] = 15 /\ t[9] = 14 /\ t[10] = 13 /\ t[11] = 12
  OBVIOUS
<1> HIDE DEF t, f
<1>3. \A k \in Int : k \in f <=> Held(r, t, k)
  BY <1>1, <1>2 DEF Held, O
<1>4. /\ \A k \in Int : k \in sext(f, 18) <=> k \in 0 .. 63 /\ (IF k < 18 THEN k \in f ELSE 17 \in f)
      /\ sext(f, 18) \in SUBSET Int
  BY <1>1, SextHas
<1>5. (17 \in f <=> 12 \in r) /\ \A k \in f : k \in 0 .. 17
  BY <1>1
<1>6. \A k \in Int : k \in sext(f, 18) <=> k \in f \/ (12 \in r /\ k \in 18 .. 63)
  BY <1>4, <1>5
<1>7. (t[1] + 1) .. 63 = 18 .. 63
  BY <1>2
<1>8. LaidOut(sext(f, 18), r, t, TRUE)
  BY <1>3, <1>4, <1>6, <1>7 DEF LaidOut
<1> QED
  BY <1>8 DEF imm_lui, t, f

(* The immediate imm_cj.                                                   *)
LEMMA CjLaidOut ==
    ASSUME NEW r \in SUBSET (0 .. 31)
    PROVE  LaidOut(imm_cj(r), r, <<11, 4, 9, 8, 10, 6, 7, 3, 2, 1, 5>>, TRUE)
<1> DEFINE t == <<11, 4, 9, 8, 10, 6, 7, 3, 2, 1, 5>>
           f == Field(r, 12, 1, 11) \cup Field(r, 11, 1, 4) \cup Field(r, 9, 2, 8) \cup Field(r, 8, 1, 10)
                  \cup Field(r, 7, 1, 6) \cup Field(r, 6, 1, 7) \cup Field(r, 3, 3, 1) \cup Field(r, 2, 1, 5)
<1>1. /\ \A k \in Int : k \in f <=> \/ k = 11 /\ 12 \in r
                                    \/ k = 4 /\ 11 \in r
                                    \/ k \in 8 .. 9 /\ k + 1 \in r
                                    \/ k = 10 /\ 8 \in r
                                    \/ k = 6 /\ 7 \in r
                                    \/ k = 7 /\ 6 \in r
                                    \/ k \in 1 .. 3 /\ k + 2 \in r
                                    \/ k = 5 /\ 2 \in r
      /\ f \in SUBSET Int
  BY FieldHas, BitHas
<1>2. /\ t[1] = 11 /\ t[2] = 4 /\ t[3] = 9 /\ t[4] = 8 /\ t[5] = 10 /\ t[6] = 6
      /\ t[7] = 7 /\ t[8] = 3 /\ t[9] = 2 /\ t[10] = 1 /\ t[11] = 5
  OBVIOUS
<1> HIDE DEF t, f
<1>3. \A k \in Int : k \in f <=> Held(r, t, k)
  BY <1>1, <1>2 DEF Held, O
<1>4. /\ \A k \in Int : k \in sext(f, 12) <=> k \in 0 .. 63 /\ (IF k < 12 THEN k \in f ELSE 11 \in f)
      /\ sext(f, 12) \in SUBSET Int
  BY <1>1, SextHas
<1>5. (11 \in f <=> 12 \in r) /\ \A k \in f : k \in 0 .. 11
  BY <1>1
<1>6. \A k \in Int : k \in sext(f, 12) <=> k \in f \/ (12 \in r /\ k \in 12 .. 63)
  BY <1>4, <1>5
<1>7. (t[1] + 1) .. 63 = 12 .. 63
  BY <1>2
<1>8. LaidOut(sext(f, 12), r, t, TRUE)
  BY <1>3, <1>4, <1>6, <1>7 DEF LaidOut
<1> QED
  BY <1>8 DEF imm_cj, t, f

(* The immediate imm_cb.                                                   *)
LEMMA CbLaidOut ==
    ASSUME NEW r \in SUBSET (0 .. 31)
    PROVE  LaidOut(imm_cb(r), r, <<8, 4, 3, O, O, O, 7, 6, 2, 1, 5>>, TRUE)
<1> DEFINE t == <<8, 4, 3, O, O, O, 7, 6, 2, 1, 5>>
           f == Field(r, 12, 1, 8) \cup Field(r, 10, 2, 3) \cup Field(r, 5, 2, 6) \cup Field(r, 3, 2, 1)
                  \cup Field(r, 2, 1, 5)
<1>1. /\ \A k \in Int : k \in f <=> \/ k = 8 /\ 12 \in r
                                    \/ k \in 3 .. 4 /\ k + 7 \in r
                                    \/ k \in 6 .. 7 /\ k - 1 \in r
                                    \/ k \in 1 .. 2 /\ k + 2 \in r
                                    \/ k = 5 /\ 2 \in r
      /\ f \in SUBSET Int
  BY FieldHas, BitHas
<1>2. /\ t[1] = 8 /\ t[2] = 4 /\ t[3] = 3 /\ t[4] = O /\ t[5] = O /\ t[6] = O
      /\ t[7] = 7 /\ t[8] = 6 /\ t[9] = 2 /\ t[10] = 1 /\ t[11] = 5
  OBVIOUS
<1> HIDE DEF t, f
<1>3. \A k \in Int : k \in f <=> Held(r, t, k)
  BY <1>1, <1>2 DEF Held, O
<1>4. /\ \A k \in Int : k \in sext(f, 9) <=> k \in 0 .. 63 /\ (IF k < 9 THEN k \in f ELSE 8 \in f)
      /\ sext(f, 9) \in SUBSET Int
  BY <1>1, SextHas
<1>5. (8 \in f <=> 12 \in r) /\ \A k \in f : k \in 0 .. 8
  BY <1>1
<1>6. \A k \in Int : k \in sext(f, 9) <=> k \in f \/ (12 \in r /\ k \in 9 .. 63)
  BY <1>4, <1>5
<1>7. (t[1] + 1) .. 63 = 9 .. 63
  BY <1>2
<1>8. LaidOut(sext(f, 9), r, t, TRUE)
  BY <1>3, <1>4, <1>6, <1>7 DEF LaidOut
<1> QED
  BY <1>8 DEF imm_cb, t, f

(* The immediate shamt.                                                    *)
LEMMA ShamtLaidOut ==
    ASSUME NEW r \in SUBSET (0 .. 31)
    PROVE  LaidOut(shamt(r), r, <<5, O, O, O, O, O, 4, 3, 2, 1, 0>>, FALSE)
<1> DEFINE t == <<5, O, O, O, O, O, 4, 3, 2, 1, 0>>
           f == Field(r, 12, 1, 5) \cup Field(r, 2, 5, 0)
<1>1. /\ \A k \in Int : k \in f <=> \/ k = 5 /\ 12 \in r
                                    \/ k \in 0 .. 4 /\ k + 2 \in r
      /\ f \in SUBSET Int
  BY FieldHas, BitHas
<1>2. /\ t[1] = 5 /\ t[2] = O /\ t[3] = O /\ t[4] = O /\ t[5] = O /\ t[6] = O
      /\ t[7] = 4 /\ t[8] = 3 /\ t[9] = 2 /\ t[10] = 1 /\ t[11] = 0
  OBVIOUS
<1> HIDE DEF t, f
<1>3. \A k \in Int : k \in f <=> Held(r, t, k)
  BY <1>1, <1>2 DEF Held, O
<1>4. LaidOut(f, r, t, FALSE)
  BY <1>1, <1>3 DEF LaidOut
<1> QED
  BY <1>4 DEF shamt, t, f

(* The immediate imm_lwsp.                                                 *)
LEMMA LwspLaidOut ==
    ASSUME NEW r \in SUBSET (0 .. 31)
    PROVE  LaidOut(imm_lwsp(r), r, <<5, O, O, O, O, O, 4, 3, 2, 7, 6>>, FALSE)
<1> DEFINE t == <<5, O, O, O, O, O, 4, 3, 2, 7, 6>>
           f == Field(r, 12, 1, 5) \cup Field(r, 4, 3, 2) \cup Field(r, 2, 2, 6)
<1>1. /\ \A k \in Int : k \in f <=> \/ k = 5 /\ 12 \in r
                                    \/ k \in 2 .. 4 /\ k + 2 \in r
                                    \/ k \in 6 .. 7 /\ k - 4 \in r
      /\ f \in SUBSET Int
  BY FieldHas, BitHas
<1>2. /\ t[1] = 5 /\ t[2] = O /\ t[3] = O /\ t[4] = O /\ t[5] = O /\ t[6] = O
      /\ t[7] = 4 /\ t[8] = 3 /\ t[9] = 2 /\ t[10] = 7 /\ t[11] = 6
  OBVIOUS
<1> HIDE DEF t, f
<1>3. \A k \in Int : k \in f <=> Held(r, t, k)
  BY <1>1, <1>2 DEF Held, O
<1>4. LaidOut(f, r, t, FALSE)
  BY <1>1, <1>3 DEF LaidOut
<1> QED
  BY <1>4 DEF imm_lwsp, t, f

(* The immediate imm_ldsp.                                                 *)
LEMMA LdspLaidOut ==
    ASSUME NEW r \in SUBSET (0 .. 31)
    PROVE  LaidOut(imm_ldsp(r), r, <<5, O, O, O, O, O, 4, 3, 8, 7, 6>>, FALSE)
<1> DEFINE t == <<5, O, O, O, O, O, 4, 3, 8, 7, 6>>
           f == Field(r, 12, 1, 5) \cup Field(r, 5, 2, 3) \cup Field(r, 2, 3, 6)
<1>1. /\ \A k \in Int : k \in f <=> \/ k = 5 /\ 12 \in r
                                    \/ k \in 3 .. 4 /\ k + 2 \in r
                                    \/ k \in 6 .. 8 /\ k - 4 \in r
      /\ f \in SUBSET Int
  BY FieldHas, BitHas
<1>2. /\ t[1] = 5 /\ t[2] = O /\ t[3] = O /\ t[4] = O /\ t[5] = O /\ t[6] = O
      /\ t[7] = 4 /\ t[8] = 3 /\ t[9] = 8 /\ t[10] = 7 /\ t[11] = 6
  OBVIOUS
<1> HIDE DEF t, f
<1>3. \A k \in Int : k \in f <=> Held(r, t, k)
  BY <1>1, <1>2 DEF Held, O
<1>4. LaidOut(f, r, t, FALSE)
  BY <1>1, <1>3 DEF LaidOut
<1> QED
  BY <1>4 DEF imm_ldsp, t, f

(* The immediate imm_swsp.                                                 *)
LEMMA SwspLaidOut ==
    ASSUME NEW r \in SUBSET (0 .. 31)
    PROVE  LaidOut(imm_swsp(r), r, <<5, 4, 3, 2, 7, 6, O, O, O, O, O>>, FALSE)
<1> DEFINE t == <<5, 4, 3, 2, 7, 6, O, O, O, O, O>>
           f == Field(r, 9, 4, 2) \cup Field(r, 7, 2, 6)
<1>1. /\ \A k \in Int : k \in f <=> \/ k \in 2 .. 5 /\ k + 7 \in r
                                    \/ k \in 6 .. 7 /\ k + 1 \in r
      /\ f \in SUBSET Int
  BY FieldHas, BitHas
<1>2. /\ t[1] = 5 /\ t[2] = 4 /\ t[3] = 3 /\ t[4] = 2 /\ t[5] = 7 /\ t[6] = 6
      /\ t[7] = O /\ t[8] = O /\ t[9] = O /\ t[10] = O /\ t[11] = O
  OBVIOUS
<1> HIDE DEF t, f
<1>3. \A k \in Int : k \in f <=> Held(r, t, k)
  BY <1>1, <1>2 DEF Held, O
<1>4. LaidOut(f, r, t, FALSE)
  BY <1>1, <1>3 DEF LaidOut
<1> QED
  BY <1>4 DEF imm_swsp, t, f

(* The immediate imm_sdsp.                                                 *)
LEMMA SdspLaidOut ==
    ASSUME NEW r \in SUBSET (0 .. 31)
    PROVE  LaidOut(imm_sdsp(r), r, <<5, 4, 3, 8, 7, 6, O, O, O, O, O>>, FALSE)
<1> DEFINE t == <<5, 4, 3, 8, 7, 6, O, O, O, O, O>>
           f == Field(r, 10, 3, 3) \cup Field(r, 7, 3, 6)
<1>1. /\ \A k \in Int : k \in f <=> \/ k \in 3 .. 5 /\ k + 7 \in r
                                    \/ k \in 6 .. 8 /\ k + 1 \in r
      /\ f \in SUBSET Int
  BY FieldHas, BitHas
<1>2. /\ t[1] = 5 /\ t[2] = 4 /\ t[3] = 3 /\ t[4] = 8 /\ t[5] = 7 /\ t[6] = 6
      /\ t[7] = O /\ t[8] = O /\ t[9] = O /\ t[10] = O /\ t[11] = O
  OBVIOUS
<1> HIDE DEF t, f
<1>3. \A k \in Int : k \in f <=> Held(r, t, k)
  BY <1>1, <1>2 DEF Held, O
<1>4. LaidOut(f, r, t, FALSE)
  BY <1>1, <1>3 DEF LaidOut
<1> QED
  BY <1>4 DEF imm_sdsp, t, f

(* The constants that quadrants and funct3 are compared with.              *)
LEMMA SmallBits ==
    /\ Bits(0) = {} /\ Bits(1) = {0} /\ Bits(2) = {1} /\ Bits(3) = {0, 1}
    /\ Bits(4) = {2} /\ Bits(5) = {0, 2} /\ Bits(6) = {1, 2} /\ Bits(7) = {0, 1, 2}
<1>1. ASSUME NEW n \in 0 .. 7
      PROVE  Bits(n) = {b \in {0, 1, 2} : (b = 0 /\ n % 2 = 1) \/ (b = 1 /\ (n \div 2) % 2 = 1)
                                            \/ (b = 2 /\ (n \div 4) % 2 = 1)}
  <2>1. 3 \notin Bits(n) /\ 4 \notin Bits(n) /\ 5 \notin Bits(n) /\ 6 \notin Bits(n) /\ 7 \notin Bits(n)
    BY BitsAre
  <2>2. Bits(n) \in SUBSET {0, 1, 2, 3, 4, 5, 6, 7}
    BY BitsAre
  <2>3. (0 \in Bits(n) <=> n % 2 = 1) /\ (1 \in Bits(n) <=> (n \div 2) % 2 = 1) /\ (2 \in Bits(n) <=> (n \div 4) % 2 = 1)
    BY BitsAre
  <2> QED
    BY <2>1, <2>2, <2>3
<1> QED
  BY <1>1

(* They differ.                                                            *)
LEMMA BitsDiffer ==
    ASSUME NEW m \in 0 .. 7, NEW n \in 0 .. 7, Bits(m) = Bits(n)
    PROVE  m = n
<1>1. m % 2 = n % 2 /\ (m \div 2) % 2 = (n \div 2) % 2 /\ (m \div 4) % 2 = (n \div 4) % 2
  BY BitsAre
<1> QED
  BY <1>1

(* A field of two or three bits is one of them.                            *)
LEMMA Selectors ==
    ASSUME NEW r \in SUBSET (0 .. 31)
    PROVE  /\ \E q \in 0 .. 3 : Quadrant(r) = Bits(q)
           /\ \E n \in 0 .. 7 : Funct3(r) = Bits(n)
           /\ \E n \in 0 .. 3 : rvc_sub(r) = Bits(n)
           /\ Quadrant(r) \in SUBSET {0, 1} /\ rvc_sub(r) \in SUBSET {0, 1}
           /\ (1 \in rvc_sub(r) <=> 11 \in r) /\ (0 \in rvc_sub(r) <=> 10 \in r)
<1>1. Quadrant(r) \in SUBSET {0, 1} /\ rvc_sub(r) \in SUBSET {0, 1}
  BY FieldHas DEF Quadrant, rvc_sub
<1>2. Funct3(r) \in SUBSET {0, 1, 2}
  BY FieldHas DEF Funct3
<1>3. \A s \in SUBSET {0, 1} : s \in {{}, {0}, {1}, {0, 1}}
  OBVIOUS
<1>4. \A s \in SUBSET {0, 1, 2} : s \in {{}, {0}, {1}, {0, 1}, {2}, {0, 2}, {1, 2}, {0, 1, 2}}
  OBVIOUS
<1>5. \A s \in SUBSET {0, 1} : \E q \in 0 .. 3 : s = Bits(q)
  <2> SUFFICES ASSUME NEW s \in SUBSET {0, 1}
               PROVE  \E q \in 0 .. 3 : s = Bits(q)
    OBVIOUS
  <2>1. s = Bits(0) \/ s = Bits(1) \/ s = Bits(2) \/ s = Bits(3)
    <3>1. s = {} \/ s = {0} \/ s = {1} \/ s = {0, 1}
      BY <1>3
    <3> QED
      BY <3>1, SmallBits, Zenon
  <2>2. 0 \in 0 .. 3 /\ 1 \in 0 .. 3 /\ 2 \in 0 .. 3 /\ 3 \in 0 .. 3
    OBVIOUS
  <2> QED
    BY <2>1, <2>2, Zenon
<1>6. \A s \in SUBSET {0, 1, 2} : \E q \in 0 .. 7 : s = Bits(q)
  <2> SUFFICES ASSUME NEW s \in SUBSET {0, 1, 2}
               PROVE  \E q \in 0 .. 7 : s = Bits(q)
    OBVIOUS
  <2>1. \/ s = Bits(0) \/ s = Bits(1) \/ s = Bits(2) \/ s = Bits(3)
        \/ s = Bits(4) \/ s = Bits(5) \/ s = Bits(6) \/ s = Bits(7)
    <3>1. s = {} \/ s = {0} \/ s = {1} \/ s = {0, 1} \/ s = {2} \/ s = {0, 2} \/ s = {1, 2} \/ s = {0, 1, 2}
      BY <1>4
    <3> QED
      BY <3>1, SmallBits, Zenon
  <2>2. /\ 0 \in 0 .. 7 /\ 1 \in 0 .. 7 /\ 2 \in 0 .. 7 /\ 3 \in 0 .. 7
        /\ 4 \in 0 .. 7 /\ 5 \in 0 .. 7 /\ 6 \in 0 .. 7 /\ 7 \in 0 .. 7
    OBVIOUS
  <2> QED
    BY <2>1, <2>2, Zenon
<1>7. (1 \in rvc_sub(r) <=> 11 \in r) /\ (0 \in rvc_sub(r) <=> 10 \in r)
  BY FieldHas DEF rvc_sub
<1> QED
  BY <1>1, <1>2, <1>5, <1>6, <1>7

(* The layout of each format, by quadrant and funct3.                      *)
LEMMA Layouts ==
    ASSUME NEW r, NEW f3, NEW q \in 0 .. 2, NEW m \in 0 .. 7, Quadrant(r) = Bits(q), f3 = Bits(m)
    PROVE  LET ci == <<5, O, O, O, O, O, 4, 3, 2, 1, 0>>
           IN
           /\ q = 0 /\ m = 0 => Layout(r, f3) = <<5, 4, 9, 8, 7, 6, 2, 3, O, O, O>>
           /\ q = 0 /\ m \in {2, 6} => Layout(r, f3) = <<5, 4, 3, O, O, O, 2, 6, O, O, O>>
           /\ q = 0 /\ m \in {1, 3, 5, 7} => Layout(r, f3) = <<5, 4, 3, O, O, O, 7, 6, O, O, O>>
           /\ q = 0 /\ m = 4 => Layout(r, f3) = <<>>
           /\ q = 1 /\ m \in {0, 1, 2} => Layout(r, f3) = ci
           /\ q = 1 /\ m = 3 /\ rvc_rd(r) = REG_SP => Layout(r, f3) = <<9, O, O, O, O, O, 4, 6, 8, 7, 5>>
           /\ q = 1 /\ m = 3 /\ rvc_rd(r) # REG_SP =>
                Layout(r, f3) = <<17, O, O, O, O, O, 16, 15, 14, 13, 12>>
           /\ q = 1 /\ m = 4 /\ ~({10, 11} \subseteq r) => Layout(r, f3) = ci
           /\ q = 1 /\ m = 4 /\ {10, 11} \subseteq r => Layout(r, f3) = <<>>
           /\ q = 1 /\ m = 5 => Layout(r, f3) = <<11, 4, 9, 8, 10, 6, 7, 3, 2, 1, 5>>
           /\ q = 1 /\ m \in {6, 7} => Layout(r, f3) = <<8, 4, 3, O, O, O, 7, 6, 2, 1, 5>>
           /\ q = 2 /\ m = 0 => Layout(r, f3) = ci
           /\ q = 2 /\ m = 2 => Layout(r, f3) = <<5, O, O, O, O, O, 4, 3, 2, 7, 6>>
           /\ q = 2 /\ m \in {1, 3} => Layout(r, f3) = <<5, O, O, O, O, O, 4, 3, 8, 7, 6>>
           /\ q = 2 /\ m = 4 => Layout(r, f3) = <<>>
           /\ q = 2 /\ m = 6 => Layout(r, f3) = <<5, 4, 3, 2, 7, 6, O, O, O, O, O>>
           /\ q = 2 /\ m \in {5, 7} => Layout(r, f3) = <<5, 4, 3, 8, 7, 6, O, O, O, O, O>>
<1> DEFINE ci == <<5, O, O, O, O, O, 4, 3, 2, 1, 0>>
           Is(quadrant, f3s) == Quadrant(r) = Bits(quadrant) /\ f3 \in {Bits(n) : n \in f3s}
           l1 == <<5, 4, 9, 8, 7, 6, 2, 3, O, O, O>>
           l2 == <<5, 4, 3, O, O, O, 2, 6, O, O, O>>
           l3 == <<5, 4, 3, O, O, O, 7, 6, O, O, O>>
           l4 == <<9, O, O, O, O, O, 4, 6, 8, 7, 5>>
           l5 == <<17, O, O, O, O, O, 16, 15, 14, 13, 12>>
           l6 == <<11, 4, 9, 8, 10, 6, 7, 3, 2, 1, 5>>
           l7 == <<8, 4, 3, O, O, O, 7, 6, 2, 1, 5>>
           l8 == <<5, O, O, O, O, O, 4, 3, 2, 7, 6>>
           l9 == <<5, O, O, O, O, O, 4, 3, 8, 7, 6>>
           l10 == <<5, 4, 3, 2, 7, 6, O, O, O, O, O>>
           l11 == <<5, 4, 3, 8, 7, 6, O, O, O, O, O>>
           L == Layout(r, f3)
<1>1. ASSUME NEW quadrant \in 0 .. 2, NEW f3s \in SUBSET (0 .. 7)
      PROVE  Is(quadrant, f3s) <=> q = quadrant /\ m \in f3s
  <2>1. Bits(q) = Bits(quadrant) <=> q = quadrant
    BY BitsDiffer
  <2>2. \A n \in f3s : f3 = Bits(n) <=> m = n
    BY BitsDiffer
  <2> QED
    BY <2>1, <2>2
<1>2. /\ Is(0, {0}) <=> q = 0 /\ m \in {0}
      /\ Is(0, {2, 6}) <=> q = 0 /\ m \in {2, 6}
      /\ Is(0, {1, 3, 5, 7}) <=> q = 0 /\ m \in {1, 3, 5, 7}
      /\ Is(1, {0, 1, 2}) <=> q = 1 /\ m \in {0, 1, 2}
      /\ Is(1, {3}) <=> q = 1 /\ m \in {3}
      /\ Is(1, {4}) <=> q = 1 /\ m \in {4}
      /\ Is(1, {5}) <=> q = 1 /\ m \in {5}
      /\ Is(1, {6, 7}) <=> q = 1 /\ m \in {6, 7}
      /\ Is(2, {0}) <=> q = 2 /\ m \in {0}
      /\ Is(2, {2}) <=> q = 2 /\ m \in {2}
      /\ Is(2, {1, 3}) <=> q = 2 /\ m \in {1, 3}
      /\ Is(2, {6}) <=> q = 2 /\ m \in {6}
      /\ Is(2, {5, 7}) <=> q = 2 /\ m \in {5, 7}
  <2> HIDE DEF Is
  <2> QED
    BY <1>1
<1>3. L =
        CASE Is(0, {0})          -> l1
          [] Is(0, {2, 6})       -> l2
          [] Is(0, {1, 3, 5, 7}) -> l3
          [] Is(1, {0, 1, 2})    -> ci
          [] Is(1, {3})          -> IF rvc_rd(r) = REG_SP THEN l4
                                    ELSE l5
          [] Is(1, {4})          -> IF {10, 11} \subseteq r THEN <<>> ELSE ci
          [] Is(1, {5})          -> l6
          [] Is(1, {6, 7})       -> l7
          [] Is(2, {0})          -> ci
          [] Is(2, {2})          -> l8
          [] Is(2, {1, 3})       -> l9
          [] Is(2, {6})          -> l10
          [] Is(2, {5, 7})       -> l11
          [] OTHER               -> <<>>
  BY DEF Layout
<1> HIDE DEF Is, ci, L, l1, l2, l3, l4, l5, l6, l7, l8, l9, l10, l11
<1>4. q = 0 /\ m = 0 => L = l1
  BY <1>2, <1>3
<1>5. q = 0 /\ m \in {2, 6} => L = l2
  BY <1>2, <1>3
<1>6. q = 0 /\ m \in {1, 3, 5, 7} => L = l3
  BY <1>2, <1>3
<1>7. q = 0 /\ m = 4 => L = <<>>
  BY <1>2, <1>3
<1>8. q = 1 /\ m \in {0, 1, 2} => L = ci
  BY <1>2, <1>3
<1>9. q = 1 /\ m = 3 /\ rvc_rd(r) = REG_SP => L = l4
  BY <1>2, <1>3
<1>10. q = 1 /\ m = 3 /\ rvc_rd(r) # REG_SP => L = l5
  BY <1>2, <1>3
<1>11. q = 1 /\ m = 4 /\ ~({10, 11} \subseteq r) => L = ci
  BY <1>2, <1>3
<1>12. q = 1 /\ m = 4 /\ {10, 11} \subseteq r => L = <<>>
  BY <1>2, <1>3
<1>13. q = 1 /\ m = 5 => L = l6
  BY <1>2, <1>3
<1>14. q = 1 /\ m \in {6, 7} => L = l7
  BY <1>2, <1>3
<1>15. q = 2 /\ m = 0 => L = ci
  BY <1>2, <1>3
<1>16. q = 2 /\ m = 2 => L = l8
  BY <1>2, <1>3
<1>17. q = 2 /\ m \in {1, 3} => L = l9
  BY <1>2, <1>3
<1>18. q = 2 /\ m = 4 => L = <<>>
  BY <1>2, <1>3
<1>19. q = 2 /\ m = 6 => L = l10
  BY <1>2, <1>3
<1>20. q = 2 /\ m \in {5, 7} => L = l11
  BY <1>2, <1>3
<1> QED
  BY <1>4, <1>5, <1>6, <1>7, <1>8, <1>9, <1>10, <1>11, <1>12, <1>13, <1>14, <1>15, <1>16, <1>17, <1>18,
     <1>19, <1>20 DEF ci, L, l1, l2, l3, l4, l5, l6, l7, l8, l9, l10, l11

(* The immediate that decode_rvc gives, by quadrant and funct3.            *)
LEMMA Decoded ==
    ASSUME NEW r \in SUBSET (0 .. 31), NEW q \in 0 .. 2, NEW m \in 0 .. 7,
           Quadrant(r) = Bits(q), Funct3(r) = Bits(m)
    PROVE  LET imm == decode_rvc(r).imm
           IN
           /\ q = 0 /\ m = 0 => imm = imm_addi4spn(r)
           /\ q = 0 /\ m \in {2, 6} => imm = imm_clw(r)
           /\ q = 0 /\ m \in {1, 3, 5, 7} => imm = imm_cld(r)
           /\ q = 0 /\ m = 4 => imm = {}
           /\ q = 1 /\ m \in {0, 1, 2} => imm = imm_ci(r)
           /\ q = 1 /\ m = 3 /\ rvc_rd(r) = REG_SP => imm = imm_addi16sp(r)
           /\ q = 1 /\ m = 3 /\ rvc_rd(r) # REG_SP => imm = imm_lui(r)
           /\ q = 1 /\ m = 4 /\ 11 \notin r => imm = imm_ci(r) \cap 0 .. 5
           /\ q = 1 /\ m = 4 /\ 11 \in r /\ 10 \notin r => imm = imm_ci(r)
           /\ q = 1 /\ m = 4 /\ 11 \in r /\ 10 \in r => imm = {}
           /\ q = 1 /\ m = 5 => imm = imm_cj(r)
           /\ q = 1 /\ m \in {6, 7} => imm = imm_cb(r)
           /\ q = 2 /\ m = 0 => imm = shamt(r)
           /\ q = 2 /\ m = 2 => imm = imm_lwsp(r)
           /\ q = 2 /\ m \in {1, 3} => imm = imm_ldsp(r)
           /\ q = 2 /\ m = 4 => imm = {} \/ decode_rvc(r).opcode = OP_SYSTEM
           /\ q = 2 /\ m = 6 => imm = imm_swsp(r)
           /\ q = 2 /\ m \in {5, 7} => imm = imm_sdsp(r)
<1> DEFINE f3 == Funct3(r)
<1>1. \A k \in 0 .. 2 : Quadrant(r) = Bits(k) <=> q = k
  BY BitsDiffer
<1>2. \A k \in 0 .. 7 : f3 = Bits(k) <=> m = k
  BY BitsDiffer
<1>3. /\ Quadrant(r) = Bits(0) <=> q = 0
      /\ Quadrant(r) = Bits(1) <=> q = 1
      /\ Quadrant(r) = Bits(2) <=> q = 2
  BY <1>1
<1>4. /\ f3 = Bits(0) <=> m = 0
      /\ f3 = Bits(1) <=> m = 1
      /\ f3 = Bits(2) <=> m = 2
      /\ f3 = Bits(3) <=> m = 3
      /\ f3 = Bits(4) <=> m = 4
      /\ f3 = Bits(5) <=> m = 5
      /\ f3 = Bits(6) <=> m = 6
      /\ f3 = Bits(7) <=> m = 7
  BY <1>2
<1> HIDE DEF f3
<1>5. /\ \A op, f, rd, a, imm : IType(op, f, rd, a, imm).imm = imm
      /\ \A op, f, a, b, imm : SType(op, f, a, b, imm).imm = imm
      /\ \A op, f, g, rd, a, b : RType(op, f, g, rd, a, b).imm = {}
      /\ \A op, rd, imm : UType(op, rd, imm).imm = imm
      /\ Reserved.imm = {}
  BY DEF IType, SType, RType, UType, Reserved, Instruction
<1>6. CASE q = 0
  <2>1. decode_rvc(r) = Q0(r, f3)
    BY <1>3, <1>6 DEF decode_rvc, f3
  <2>2. /\ m = 0 => Q0(r, f3).imm = imm_addi4spn(r)
        /\ m \in {2, 6} => Q0(r, f3).imm = imm_clw(r)
        /\ m \in {1, 3, 5, 7} => Q0(r, f3).imm = imm_cld(r)
        /\ m = 4 => Q0(r, f3).imm = {}
    BY <1>4, <1>5 DEF Q0
  <2> QED
    BY <1>6, <2>1, <2>2
<1>7. CASE q = 1
  <2>1. decode_rvc(r) = Q1(r, f3)
    BY <1>3, <1>7 DEF decode_rvc, f3
  <2>2. /\ m \in {0, 1, 2} => Q1(r, f3).imm = imm_ci(r)
        /\ m = 3 /\ rvc_rd(r) = REG_SP => Q1(r, f3).imm = imm_addi16sp(r)
        /\ m = 3 /\ rvc_rd(r) # REG_SP => Q1(r, f3).imm = imm_lui(r)
        /\ m = 4 => Q1(r, f3) = MiscAlu(r)
        /\ m = 5 => Q1(r, f3).imm = imm_cj(r)
        /\ m \in {6, 7} => Q1(r, f3).imm = imm_cb(r)
    BY <1>4, <1>5 DEF Q1
  <2>3. PICK n \in 0 .. 3 : rvc_sub(r) = Bits(n)
    BY Selectors
  <2>4. (11 \in r <=> n \in {2, 3}) /\ (10 \in r <=> n \in {1, 3})
    BY <2>3, Selectors, BitsAre
  <2>5. \A k \in 0 .. 3 : rvc_sub(r) = Bits(k) <=> n = k
    BY <2>3, BitsDiffer
  <2>6. /\ rvc_sub(r) = Bits(0) <=> n = 0
        /\ rvc_sub(r) = Bits(1) <=> n = 1
        /\ rvc_sub(r) = Bits(2) <=> n = 2
        /\ rvc_sub(r) = Bits(3) <=> n = 3
    BY <2>5
  <2>7. Arith(r).imm = {}
    BY <1>5 DEF Arith
  <2>8. \A op, f, rd, a, imm, g : [IType(op, f, rd, a, imm) EXCEPT !.funct7 = g].imm = imm
    BY DEF IType, Instruction
  <2>9. /\ n \in {0, 1} => MiscAlu(r).imm = imm_ci(r) \cap 0 .. 5
        /\ n = 2 => MiscAlu(r).imm = imm_ci(r)
        /\ n = 3 => MiscAlu(r).imm = {}
    BY <1>5, <2>6, <2>7, <2>8 DEF MiscAlu
  <2> QED
    BY <1>7, <2>1, <2>2, <2>4, <2>9
<1>8. CASE q = 2
  <2>1. decode_rvc(r) = Q2(r, f3)
    BY <1>3, <1>8 DEF decode_rvc, f3
  <2>2. /\ m = 0 => Q2(r, f3).imm = shamt(r)
        /\ m = 2 => Q2(r, f3).imm = imm_lwsp(r)
        /\ m \in {1, 3} => Q2(r, f3).imm = imm_ldsp(r)
        /\ m = 4 => Q2(r, f3) = CR(r)
        /\ m = 6 => Q2(r, f3).imm = imm_swsp(r)
        /\ m \in {5, 7} => Q2(r, f3).imm = imm_sdsp(r)
    BY <1>4, <1>5 DEF Q2
  <2>3. \A op, f, rd, a, imm : IType(op, f, rd, a, imm).opcode = op
    BY DEF IType, Instruction
  <2>4. CR(r).imm = {} \/ CR(r).opcode = OP_SYSTEM
    BY <1>5, <2>3 DEF CR
  <2> QED
    BY <1>8, <2>1, <2>2, <2>4
<1> QED
  BY <1>6, <1>7, <1>8

(* The shift amount of the compressed shifts is not signed.                *)
LEMMA ShamtIs ==
    ASSUME NEW r \in SUBSET (0 .. 31)
    PROVE  imm_ci(r) \cap 0 .. 5 = shamt(r)
<1> DEFINE f == Field(r, 12, 1, 5) \cup Field(r, 2, 5, 0)
<1>1. f \in SUBSET (0 .. 5)
  BY FieldHas
<1>2. imm_ci(r) = sext(f, 6) /\ shamt(r) = f
  BY DEF imm_ci, shamt
<1> HIDE DEF f
<1>3. sext(f, 6) = (f \cap 0 .. 5) \cup (IF 5 \in f THEN 6 .. 63 ELSE {})
  BY DEF sext
<1>4. (IF 5 \in f THEN 6 .. 63 ELSE {}) \cap 0 .. 5 = {}
  OBVIOUS
<1>5. f \cap 0 .. 5 = f
  BY <1>1
<1> QED
  BY <1>2, <1>3, <1>4, <1>5

(* Which compressed immediates are signed.                                 *)
LEMMA SignedFormats ==
    ASSUME NEW r, NEW f3, NEW q \in 0 .. 2, NEW m \in 0 .. 7, Quadrant(r) = Bits(q), f3 = Bits(m)
    PROVE  IsSigned(r, f3) = (q = 1 /\ ~(m = 4 /\ 11 \notin r))
<1>1. (Bits(q) = Bits(1) <=> q = 1) /\ (Bits(m) = Bits(4) <=> m = 4)
  BY BitsDiffer
<1> QED
  BY <1>1 DEF IsSigned

(* The immediate of a compressed instruction.                              *)
LEMMA RvcImmediates ==
    ASSUME NEW r \in SUBSET (0 .. 31), IsCompressed(r)
    PROVE  decode_rvc(r).opcode = OP_SYSTEM \/ decode_rvc(r).imm = RvcImmediate(r, Funct3(r))
<1> DEFINE f3 == Funct3(r)
           inst == decode_rvc(r)
<1>1. PICK q \in 0 .. 2 : Quadrant(r) = Bits(q)
  <2>1. PICK q \in 0 .. 3 : Quadrant(r) = Bits(q)
    BY Selectors
  <2>2. q # 3
    BY <2>1 DEF IsCompressed
  <2> QED
    BY <2>1, <2>2
<1>2. PICK m \in 0 .. 7 : f3 = Bits(m)
  BY Selectors
<1>3. ASSUME Layout(r, f3) = <<>>
      PROVE  RvcImmediate(r, f3) = {}
  BY <1>3 DEF RvcImmediate
<1>4. ASSUME NEW t \in [1 .. 11 -> Int], Layout(r, f3) = t, NEW signed \in BOOLEAN,
             IsSigned(r, f3) <=> signed, LaidOut(inst.imm, r, t, signed)
      PROVE  inst.imm = RvcImmediate(r, f3)
  <2>1. LaidOut(inst.imm, r, t, IsSigned(r, f3))
    BY <1>4 DEF LaidOut
  <2> QED
    BY <1>4, <2>1, RvcIs
<1>5. IsSigned(r, f3) <=> q = 1 /\ ~(m = 4 /\ 11 \notin r)
  BY <1>1, <1>2, SignedFormats
<1>6. CASE q = 0 /\ m = 0
  <2> DEFINE t == <<5, 4, 9, 8, 7, 6, 2, 3, O, O, O>>
  <2>1. Layout(r, f3) = t
    BY <1>1, <1>2, <1>6, Layouts
  <2>2. t \in [1 .. 11 -> Int]
    BY DEF O
  <2>3. inst.imm = imm_addi4spn(r)
    BY <1>1, <1>2, <1>6, Decoded
  <2>4. IsSigned(r, f3) <=> FALSE
    BY <1>5, <1>6
  <2>5. LaidOut(inst.imm, r, t, FALSE)
    BY <2>3, Addi4spnLaidOut
  <2> HIDE DEF t
  <2> QED
    BY <1>4, <2>1, <2>2, <2>4, <2>5
<1>7. CASE q = 0 /\ m \in {2, 6}
  <2> DEFINE t == <<5, 4, 3, O, O, O, 2, 6, O, O, O>>
  <2>1. Layout(r, f3) = t
    BY <1>1, <1>2, <1>7, Layouts
  <2>2. t \in [1 .. 11 -> Int]
    BY DEF O
  <2>3. inst.imm = imm_clw(r)
    BY <1>1, <1>2, <1>7, Decoded
  <2>4. IsSigned(r, f3) <=> FALSE
    BY <1>5, <1>7
  <2>5. LaidOut(inst.imm, r, t, FALSE)
    BY <2>3, ClwLaidOut
  <2> HIDE DEF t
  <2> QED
    BY <1>4, <2>1, <2>2, <2>4, <2>5
<1>8. CASE q = 0 /\ m \in {1, 3, 5, 7}
  <2> DEFINE t == <<5, 4, 3, O, O, O, 7, 6, O, O, O>>
  <2>1. Layout(r, f3) = t
    BY <1>1, <1>2, <1>8, Layouts
  <2>2. t \in [1 .. 11 -> Int]
    BY DEF O
  <2>3. inst.imm = imm_cld(r)
    BY <1>1, <1>2, <1>8, Decoded
  <2>4. IsSigned(r, f3) <=> FALSE
    BY <1>5, <1>8
  <2>5. LaidOut(inst.imm, r, t, FALSE)
    BY <2>3, CldLaidOut
  <2> HIDE DEF t
  <2> QED
    BY <1>4, <2>1, <2>2, <2>4, <2>5
<1>9. CASE q = 0 /\ m = 4
  <2>1. Layout(r, f3) = <<>>
    BY <1>1, <1>2, <1>9, Layouts
  <2>2. inst.imm = {} \/ inst.opcode = OP_SYSTEM
    BY <1>1, <1>2, <1>9, Decoded
  <2> QED
    BY <1>3, <2>1, <2>2
<1>10. CASE q = 1 /\ m \in {0, 1, 2}
  <2> DEFINE t == <<5, O, O, O, O, O, 4, 3, 2, 1, 0>>
  <2>1. Layout(r, f3) = t
    BY <1>1, <1>2, <1>10, Layouts
  <2>2. t \in [1 .. 11 -> Int]
    BY DEF O
  <2>3. inst.imm = imm_ci(r)
    BY <1>1, <1>2, <1>10, Decoded
  <2>4. IsSigned(r, f3) <=> TRUE
    BY <1>5, <1>10
  <2>5. LaidOut(inst.imm, r, t, TRUE)
    BY <2>3, CiLaidOut
  <2> HIDE DEF t
  <2> QED
    BY <1>4, <2>1, <2>2, <2>4, <2>5
<1>11. CASE q = 1 /\ m = 3 /\ rvc_rd(r) = REG_SP
  <2> DEFINE t == <<9, O, O, O, O, O, 4, 6, 8, 7, 5>>
  <2>1. Layout(r, f3) = t
    BY <1>1, <1>2, <1>11, Layouts
  <2>2. t \in [1 .. 11 -> Int]
    BY DEF O
  <2>3. inst.imm = imm_addi16sp(r)
    BY <1>1, <1>2, <1>11, Decoded
  <2>4. IsSigned(r, f3) <=> TRUE
    BY <1>5, <1>11
  <2>5. LaidOut(inst.imm, r, t, TRUE)
    BY <2>3, Addi16spLaidOut
  <2> HIDE DEF t
  <2> QED
    BY <1>4, <2>1, <2>2, <2>4, <2>5
<1>12. CASE q = 1 /\ m = 3 /\ rvc_rd(r) # REG_SP
  <2> DEFINE t == <<17, O, O, O, O, O, 16, 15, 14, 13, 12>>
  <2>1. Layout(r, f3) = t
    BY <1>1, <1>2, <1>12, Layouts
  <2>2. t \in [1 .. 11 -> Int]
    BY DEF O
  <2>3. inst.imm = imm_lui(r)
    BY <1>1, <1>2, <1>12, Decoded
  <2>4. IsSigned(r, f3) <=> TRUE
    BY <1>5, <1>12
  <2>5. LaidOut(inst.imm, r, t, TRUE)
    BY <2>3, LuiLaidOut
  <2> HIDE DEF t
  <2> QED
    BY <1>4, <2>1, <2>2, <2>4, <2>5
<1>13. CASE q = 1 /\ m = 4 /\ 11 \notin r
  <2> DEFINE t == <<5, O, O, O, O, O, 4, 3, 2, 1, 0>>
  <2>1. Layout(r, f3) = t
    BY <1>1, <1>2, <1>13, Layouts
  <2>2. t \in [1 .. 11 -> Int]
    BY DEF O
  <2>3. inst.imm = shamt(r)
    BY <1>1, <1>2, <1>13, Decoded, ShamtIs
  <2>4. IsSigned(r, f3) <=> FALSE
    BY <1>5, <1>13
  <2>5. LaidOut(inst.imm, r, t, FALSE)
    BY <2>3, ShamtLaidOut
  <2> HIDE DEF t
  <2> QED
    BY <1>4, <2>1, <2>2, <2>4, <2>5
<1>14. CASE q = 1 /\ m = 4 /\ 11 \in r /\ 10 \notin r
  <2> DEFINE t == <<5, O, O, O, O, O, 4, 3, 2, 1, 0>>
  <2>1. Layout(r, f3) = t
    BY <1>1, <1>2, <1>14, Layouts
  <2>2. t \in [1 .. 11 -> Int]
    BY DEF O
  <2>3. inst.imm = imm_ci(r)
    BY <1>1, <1>2, <1>14, Decoded
  <2>4. IsSigned(r, f3) <=> TRUE
    BY <1>5, <1>14
  <2>5. LaidOut(inst.imm, r, t, TRUE)
    BY <2>3, CiLaidOut
  <2> HIDE DEF t
  <2> QED
    BY <1>4, <2>1, <2>2, <2>4, <2>5
<1>15. CASE q = 1 /\ m = 4 /\ 11 \in r /\ 10 \in r
  <2>1. Layout(r, f3) = <<>>
    BY <1>1, <1>2, <1>15, Layouts
  <2>2. inst.imm = {} \/ inst.opcode = OP_SYSTEM
    BY <1>1, <1>2, <1>15, Decoded
  <2> QED
    BY <1>3, <2>1, <2>2
<1>16. CASE q = 1 /\ m = 5
  <2> DEFINE t == <<11, 4, 9, 8, 10, 6, 7, 3, 2, 1, 5>>
  <2>1. Layout(r, f3) = t
    BY <1>1, <1>2, <1>16, Layouts
  <2>2. t \in [1 .. 11 -> Int]
    BY DEF O
  <2>3. inst.imm = imm_cj(r)
    BY <1>1, <1>2, <1>16, Decoded
  <2>4. IsSigned(r, f3) <=> TRUE
    BY <1>5, <1>16
  <2>5. LaidOut(inst.imm, r, t, TRUE)
    BY <2>3, CjLaidOut
  <2> HIDE DEF t
  <2> QED
    BY <1>4, <2>1, <2>2, <2>4, <2>5
<1>17. CASE q = 1 /\ m \in {6, 7}
  <2> DEFINE t == <<8, 4, 3, O, O, O, 7, 6, 2, 1, 5>>
  <2>1. Layout(r, f3) = t
    BY <1>1, <1>2, <1>17, Layouts
  <2>2. t \in [1 .. 11 -> Int]
    BY DEF O
  <2>3. inst.imm = imm_cb(r)
    BY <1>1, <1>2, <1>17, Decoded
  <2>4. IsSigned(r, f3) <=> TRUE
    BY <1>5, <1>17
  <2>5. LaidOut(inst.imm, r, t, TRUE)
    BY <2>3, CbLaidOut
  <2> HIDE DEF t
  <2> QED
    BY <1>4, <2>1, <2>2, <2>4, <2>5
<1>18. CASE q = 2 /\ m = 0
  <2> DEFINE t == <<5, O, O, O, O, O, 4, 3, 2, 1, 0>>
  <2>1. Layout(r, f3) = t
    BY <1>1, <1>2, <1>18, Layouts
  <2>2. t \in [1 .. 11 -> Int]
    BY DEF O
  <2>3. inst.imm = shamt(r)
    BY <1>1, <1>2, <1>18, Decoded, ShamtIs
  <2>4. IsSigned(r, f3) <=> FALSE
    BY <1>5, <1>18
  <2>5. LaidOut(inst.imm, r, t, FALSE)
    BY <2>3, ShamtLaidOut
  <2> HIDE DEF t
  <2> QED
    BY <1>4, <2>1, <2>2, <2>4, <2>5
<1>19. CASE q = 2 /\ m = 2
  <2> DEFINE t == <<5, O, O, O, O, O, 4, 3, 2, 7, 6>>
  <2>1. Layout(r, f3) = t
    BY <1>1, <1>2, <1>19, Layouts
  <2>2. t \in [1 .. 11 -> Int]
    BY DEF O
  <2>3. inst.imm = imm_lwsp(r)
    BY <1>1, <1>2, <1>19, Decoded
  <2>4. IsSigned(r, f3) <=> FALSE
    BY <1>5, <1>19
  <2>5. LaidOut(inst.imm, r, t, FALSE)
    BY <2>3, LwspLaidOut
  <2> HIDE DEF t
  <2> QED
    BY <1>4, <2>1, <2>2, <2>4, <2>5
<1>20. CASE q = 2 /\ m \in {1, 3}
  <2> DEFINE t == <<5, O, O, O, O, O, 4, 3, 8, 7, 6>>
  <2>1. Layout(r, f3) = t
    BY <1>1, <1>2, <1>20, Layouts
  <2>2. t \in [1 .. 11 -> Int]
    BY DEF O
  <2>3. inst.imm = imm_ldsp(r)
    BY <1>1, <1>2, <1>20, Decoded
  <2>4. IsSigned(r, f3) <=> FALSE
    BY <1>5, <1>20
  <2>5. LaidOut(inst.imm, r, t, FALSE)
    BY <2>3, LdspLaidOut
  <2> HIDE DEF t
  <2> QED
    BY <1>4, <2>1, <2>2, <2>4, <2>5
<1>21. CASE q = 2 /\ m = 4
  <2>1. Layout(r, f3) = <<>>
    BY <1>1, <1>2, <1>21, Layouts
  <2>2. inst.imm = {} \/ inst.opcode = OP_SYSTEM
    BY <1>1, <1>2, <1>21, Decoded
  <2> QED
    BY <1>3, <2>1, <2>2
<1>22. CASE q = 2 /\ m = 6
  <2> DEFINE t == <<5, 4, 3, 2, 7, 6, O, O, O, O, O>>
  <2>1. Layout(r, f3) = t
    BY <1>1, <1>2, <1>22, Layouts
  <2>2. t \in [1 .. 11 -> Int]
    BY DEF O
  <2>3. inst.imm = imm_swsp(r)
    BY <1>1, <1>2, <1>22, Decoded
  <2>4. IsSigned(r, f3) <=> FALSE
    BY <1>5, <1>22
  <2>5. LaidOut(inst.imm, r, t, FALSE)
    BY <2>3, SwspLaidOut
  <2> HIDE DEF t
  <2> QED
    BY <1>4, <2>1, <2>2, <2>4, <2>5
<1>23. CASE q = 2 /\ m \in {5, 7}
  <2> DEFINE t == <<5, 4, 3, 8, 7, 6, O, O, O, O, O>>
  <2>1. Layout(r, f3) = t
    BY <1>1, <1>2, <1>23, Layouts
  <2>2. t \in [1 .. 11 -> Int]
    BY DEF O
  <2>3. inst.imm = imm_sdsp(r)
    BY <1>1, <1>2, <1>23, Decoded
  <2>4. IsSigned(r, f3) <=> FALSE
    BY <1>5, <1>23
  <2>5. LaidOut(inst.imm, r, t, FALSE)
    BY <2>3, SdspLaidOut
  <2> HIDE DEF t
  <2> QED
    BY <1>4, <2>1, <2>2, <2>4, <2>5
<1> QED
  BY <1>6, <1>7, <1>8, <1>9, <1>10, <1>11, <1>12, <1>13, <1>14, <1>15, <1>16,
     <1>17, <1>18, <1>19, <1>20, <1>21, <1>22, <1>23

(* Every instruction, of 16 or 32 bits, has its immediate.                 *)
LEMMA Immediates ==
    ASSUME NEW r \in SUBSET (0 .. 31)
    PROVE  ImmediateIsRight(r)
<1>1. CASE IsCompressed(r)
  BY <1>1, RvcImmediates DEF ImmediateIsRight
<1>2. CASE ~IsCompressed(r)
  <2>1. decode(r).imm = Immediate(r, decode(r).opcode)
    BY DEF decode, Instruction
  <2>2. decode(r).imm = {k \in 0 .. 63 : Source(decode(r).opcode, k) \in r}
    BY <2>1, WordImmediate
  <2> QED
    BY <1>2, <2>2 DEF ImmediateIsRight
<1> QED
  BY <1>1, <1>2

(* decode and decode_rvc: the immediate of every instruction of 16 or 32   *)
(* bits is the one that the ISA manual defines.                            *)
THEOREM ImmediatesAreRight ==
    ASSUME input.of \in {"decode", "decode_rvc"} => input.r \in SUBSET (0 .. 31)
    PROVE  ImmediatesMatchIsa
BY Immediates DEF ImmediatesMatchIsa

-----------------------------------------------------------------------------
(* The invariant: types, and ReservationIsFresh, which needs them.         *)
Inv == TypeOK /\ ReservationIsFresh

(* It holds before the first step: there is no reservation.                *)
LEMMA InitInv == Init => Inv
BY AtomicsAssumption DEF Init, Inv, TypeOK, ReservationIsFresh, NoReservation

(* Types are kept by every step, whatever the kernel does.                 *)
LEMMA TypeStep == TypeOK /\ [Next]_vars => TypeOK'
<1> SUFFICES ASSUME TypeOK, [Next]_vars PROVE TypeOK'
  OBVIOUS
<1> USE AtomicsAssumption DEF TypeOK, NoReservation
<1>1. CASE UNCHANGED vars
  BY <1>1 DEF vars
<1>2. ASSUME NEW t \in Threads, execute_lr(t) PROVE TypeOK'
  BY <1>2 DEF execute_lr, Runs, Words
<1>3. ASSUME NEW t \in Threads, execute_sc(t) PROVE TypeOK'
  <2>1. CASE ScSucceeds(Va[t], s_reservation)
    BY <1>3, <2>1 DEF execute_sc, Runs, AfterSc, Increment, Words
  <2>2. CASE ~ScSucceeds(Va[t], s_reservation)
    BY <1>3, <2>2 DEF execute_sc, Runs, AfterSc
  <2> QED BY <2>1, <2>2
<1>4. ASSUME NEW t \in Threads, execute_amoadd(t) PROVE TypeOK'
  BY <1>4 DEF execute_amoadd, Runs, Increment, Words
<1>5. ASSUME NEW t \in Threads, Branch(t) PROVE TypeOK'
  BY <1>5 DEF Branch, Runs
<1>6. ASSUME NEW t \in Threads, Switch(t) PROVE TypeOK'
  BY <1>6 DEF Switch, AfterSc, ScSucceeds
<1> QED BY <1>1, <1>2, <1>3, <1>4, <1>5, <1>6 DEF Next

(* The reservation stays fresh: the running thread is the only one that    *)
(* writes, and a switch leaves no reservation behind.                      *)
LEMMA FreshStep ==
    ASSUME ClearBy = "pair"
    PROVE  Inv /\ [Next]_vars => ReservationIsFresh'
<1> SUFFICES ASSUME Inv, [Next]_vars PROVE ReservationIsFresh'
  OBVIOUS
<1> USE AtomicsAssumption DEF Inv, TypeOK, ReservationIsFresh
<1>1. CASE UNCHANGED vars
  BY <1>1 DEF vars
<1>2. ASSUME NEW t \in Threads, execute_lr(t) PROVE ReservationIsFresh'
  BY <1>2 DEF execute_lr, Runs
<1>3. ASSUME NEW t \in Threads, execute_sc(t) PROVE ReservationIsFresh'
  BY <1>3 DEF execute_sc, Runs
<1>4. ASSUME NEW t \in Threads, execute_amoadd(t) PROVE ReservationIsFresh'
  BY <1>4 DEF execute_amoadd, Runs
<1>5. ASSUME NEW t \in Threads, Branch(t) PROVE ReservationIsFresh'
  BY <1>5 DEF Branch, Runs
<1>6. ASSUME NEW t \in Threads, Switch(t) PROVE ReservationIsFresh'
  <2>1. s_reservation' = NoReservation
    BY <1>6 DEF Switch, AfterSc, ScSucceeds
  <2> QED BY <1>6, <2>1 DEF Switch, NoReservation
<1> QED BY <1>1, <1>2, <1>3, <1>4, <1>5, <1>6 DEF Next

(* A step from a state with a fresh reservation makes no stale SC.         *)
LEMMA AtomicStep ==
    Inv /\ [Next]_vars =>
        \A t \in Threads : pc[t] = "sc" /\ done'[t] # done[t] => seen[t] = words[Word[t]]
<1> SUFFICES ASSUME Inv, [Next]_vars, NEW t \in Threads, pc[t] = "sc", done'[t] # done[t]
             PROVE  seen[t] = words[Word[t]]
  OBVIOUS
<1> USE AtomicsAssumption DEF Inv, TypeOK, ReservationIsFresh
<1>1. PICK u \in Threads : execute_sc(u) \/ execute_amoadd(u)
  BY DEF Next, vars, execute_lr, Branch, Switch
<1>2. u = t
  BY <1>1 DEF execute_sc, execute_amoadd, Increment
<1>3. execute_sc(t) /\ ScSucceeds(Va[t], s_reservation)
  BY <1>1, <1>2 DEF execute_sc, execute_amoadd, Runs
<1> QED BY <1>3 DEF execute_sc, Runs, ScSucceeds

(* The type invariant, for either kernel.                                  *)
THEOREM TypeCorrect == Spec => []TypeOK
<1>1. Init => TypeOK
  BY InitInv DEF Inv
<1> QED BY <1>1, TypeStep, PTL DEF Spec

(* SC of exec_a.c succeeds only over the value its own thread loaded, if   *)
(* the kernel passes through a successful SC on every switch.              *)
THEOREM ScCorrect ==
    ASSUME ClearBy = "pair"
    PROVE  Spec => ScAtomic
<1>1. Inv /\ [Next]_vars => Inv'
  BY TypeStep, FreshStep DEF Inv
<1>2. Inv /\ [Next]_vars =>
        [\A t \in Threads : pc[t] = "sc" /\ done'[t] # done[t] => seen[t] = words[Word[t]]]_vars
  BY AtomicStep
<1> QED BY InitInv, <1>1, <1>2, PTL DEF Spec, ScAtomic

-----------------------------------------------------------------------------
(* Increments made to the word w, if thread t has made count[t] of its own.*)
Made(w, count) == {ti \in Threads \X (1 .. MaxIncr) : Word[ti[1]] = w /\ ti[2] <= count[ti[1]]}

(* There are finitely many of them.                                        *)
LEMMA MadeFinite ==
    ASSUME NEW w, NEW count
    PROVE  IsFiniteSet(Made(w, count)) /\ Cardinality(Made(w, count)) \in Nat
<1>1. IsFiniteSet(1 .. MaxIncr)
  BY FS_Interval, AtomicsAssumption
<1>2. IsFiniteSet(Threads \X (1 .. MaxIncr))
  BY <1>1, FS_Product, AtomicsAssumption
<1>3. Made(w, count) \subseteq Threads \X (1 .. MaxIncr)
  BY DEF Made
<1>4. IsFiniteSet(Made(w, count))
  BY <1>2, <1>3, FS_Subset
<1> QED
  BY <1>4, FS_CardinalityType

(* One more increment of t adds one to its word, and to no other.          *)
LEMMA MadeStep ==
    ASSUME NEW w, NEW t \in Threads
    PROVE  \A count, more \in [Threads -> 0 .. MaxIncr] :
              count[t] < MaxIncr /\ more = [count EXCEPT ![t] = @ + 1] =>
                 Cardinality(Made(w, more)) = Cardinality(Made(w, count)) + (IF w = Word[t] THEN 1 ELSE 0)
<1> SUFFICES ASSUME NEW count \in [Threads -> 0 .. MaxIncr], count[t] < MaxIncr
             PROVE  Cardinality(Made(w, [count EXCEPT ![t] = @ + 1]))
                       = Cardinality(Made(w, count)) + (IF w = Word[t] THEN 1 ELSE 0)
  OBVIOUS
<1> DEFINE more == [count EXCEPT ![t] = @ + 1]
           it   == <<t, count[t] + 1>>
<1>0. MaxIncr \in Nat
  BY AtomicsAssumption
<1>1. \A u \in Threads : more[u] = IF u = t THEN count[t] + 1 ELSE count[u]
  OBVIOUS
<1>2. it \in Threads \X (1 .. MaxIncr) /\ it[1] = t /\ it[2] = count[t] + 1
  BY <1>0
<1>3. ASSUME NEW u \in Threads, NEW i \in 1 .. MaxIncr
      PROVE  i <= more[u] <=> i <= count[u] \/ <<u, i>> = it
  BY <1>0, <1>1
<1> HIDE DEF more
<1>4. CASE w = Word[t]
  <2>1. it \notin Made(w, count)
    BY <1>0, <1>2 DEF Made
  <2>2. ASSUME NEW ti \in Threads \X (1 .. MaxIncr)
        PROVE  ti \in Made(w, more) <=> ti \in Made(w, count) \cup {it}
    <3>1. PICK u \in Threads, i \in 1 .. MaxIncr : ti = <<u, i>>
      OBVIOUS
    <3>2. i <= more[u] <=> i <= count[u] \/ ti = it
      BY <1>3, <3>1
    <3>3. ti = it => Word[u] = w
      BY <1>2, <1>4, <3>1
    <3> HIDE DEF it
    <3> QED
      BY <3>1, <3>2, <3>3 DEF Made
  <2>3. Made(w, more) = Made(w, count) \cup {it}
    <3>1. Made(w, more) \subseteq Threads \X (1 .. MaxIncr) /\ Made(w, count) \subseteq Threads \X (1 .. MaxIncr)
      BY DEF Made
    <3> HIDE DEF it
    <3> QED
      BY <1>2, <2>2, <3>1
  <2> HIDE DEF it
  <2>4. Cardinality(Made(w, count) \cup {it}) = Cardinality(Made(w, count)) + 1
    BY <2>1, MadeFinite, FS_AddElement
  <2> QED
    BY <1>4, <2>3, <2>4 DEF more
<1>5. CASE w # Word[t]
  <2>1. ASSUME NEW ti \in Threads \X (1 .. MaxIncr)
        PROVE  ti \in Made(w, more) <=> ti \in Made(w, count)
    <3>1. PICK u \in Threads, i \in 1 .. MaxIncr : ti = <<u, i>>
      OBVIOUS
    <3>2. u # t => (i <= more[u] <=> i <= count[u])
      BY <1>1, <3>1
    <3> QED
      BY <1>5, <3>1, <3>2 DEF Made
  <2>2. Made(w, more) = Made(w, count)
    BY <2>1 DEF Made
  <2>3. Cardinality(Made(w, count)) \in Nat
    BY MadeFinite
  <2> QED
    BY <1>5, <2>2, <2>3 DEF more
<1> QED
  BY <1>4, <1>5

(* The inductive invariant for the words: besides Inv, no thread counts    *)
(* past its last increment.                                                *)
CountInv == Inv /\ done \in [Threads -> 0 .. MaxIncr] /\ NoLostUpdate

(* An increment of the value that is in the word is counted.               *)
LEMMA IncrementCounts ==
    ASSUME CountInv, NEW t \in Threads, done[t] < MaxIncr, Increment(t, words[Word[t]])
    PROVE  done' \in [Threads -> 0 .. MaxIncr] /\ NoLostUpdate'
<1> USE AtomicsAssumption DEF CountInv, Inv, TypeOK
<1>1. done' = [done EXCEPT ![t] = @ + 1] /\ words' = [words EXCEPT ![Word[t]] = words[Word[t]] + 1]
  BY DEF Increment
<1>2. done' \in [Threads -> 0 .. MaxIncr]
  BY <1>1
<1>3. ASSUME NEW w \in Words PROVE words'[w] = Cardinality(Made(w, done'))
  <2>1. words[w] = Cardinality(Made(w, done)) /\ words[w] \in Nat
    BY DEF NoLostUpdate, Made
  <2>2. Cardinality(Made(w, done')) = Cardinality(Made(w, done)) + (IF w = Word[t] THEN 1 ELSE 0)
    <3>1. done \in [Threads -> 0 .. MaxIncr] /\ done[t] < MaxIncr
      OBVIOUS
    <3> HIDE DEF CountInv, Inv, TypeOK
    <3>2. \A count, more \in [Threads -> 0 .. MaxIncr] :
             count[t] < MaxIncr /\ more = [count EXCEPT ![t] = @ + 1] =>
                Cardinality(Made(w, more)) = Cardinality(Made(w, count)) + (IF w = Word[t] THEN 1 ELSE 0)
      BY MadeStep
    <3> QED
      BY <1>1, <1>2, <3>1, <3>2
  <2>3. words'[w] = words[w] + (IF w = Word[t] THEN 1 ELSE 0)
    BY <1>1, <2>1
  <2> QED
    BY <2>1, <2>2, <2>3
<1>4. NoLostUpdate'
  BY <1>3 DEF NoLostUpdate, Made, Words
<1> QED
  BY <1>2, <1>4

(* Every step keeps the count.                                             *)
LEMMA CountStep ==
    ASSUME ClearBy = "pair"
    PROVE  CountInv /\ [Next]_vars => CountInv'
<1> SUFFICES ASSUME CountInv, [Next]_vars PROVE CountInv'
  OBVIOUS
<1>1. Inv'
  BY TypeStep, FreshStep DEF CountInv, Inv
<1>2. CASE words' = words /\ done' = done
  BY <1>1, <1>2 DEF CountInv, NoLostUpdate, Words
<1>3. ASSUME NEW t \in Threads, done[t] < MaxIncr, Increment(t, words[Word[t]])
      PROVE  CountInv'
  BY <1>1, <1>3, IncrementCounts DEF CountInv
<1>4. ASSUME NEW t \in Threads, execute_sc(t) PROVE CountInv'
  <2>1. CASE ScSucceeds(Va[t], s_reservation)
    <3>1. done[t] < MaxIncr /\ Increment(t, seen[t]) /\ cur = t /\ pc[t] = "sc" /\ s_reservation = Va[t]
      BY <1>4, <2>1 DEF execute_sc, Runs, ScSucceeds
    <3>2. seen[t] = words[Word[t]]
      BY <3>1 DEF CountInv, Inv, ReservationIsFresh
    <3> QED
      BY <1>3, <3>1, <3>2
  <2>2. CASE ~ScSucceeds(Va[t], s_reservation)
    BY <1>2, <1>4, <2>2 DEF execute_sc
  <2> QED
    BY <2>1, <2>2
<1>5. ASSUME NEW t \in Threads, execute_amoadd(t) PROVE CountInv'
  BY <1>3, <1>5 DEF execute_amoadd, Runs
<1> QED
  BY <1>2, <1>4, <1>5 DEF Next, vars, execute_lr, Branch, Switch

(* No increment is lost, by LR and SC or by AMO, in any mix of threads,    *)
(* words and virtual addresses: with the kernel that atomics_linux         *)
(* replaces by one that loses updates.                                     *)
THEOREM UpdatesAreKept ==
    ASSUME ClearBy = "pair"
    PROVE  Spec => []NoLostUpdate
<1>1. Init => CountInv
  <2> SUFFICES ASSUME Init PROVE done \in [Threads -> 0 .. MaxIncr] /\ NoLostUpdate
    BY InitInv DEF CountInv
  <2>1. done \in [Threads -> 0 .. MaxIncr]
    BY AtomicsAssumption DEF Init
  <2>2. ASSUME NEW w \in Words PROVE words[w] = Cardinality(Made(w, done))
    <3>1. Made(w, done) = {}
      BY AtomicsAssumption DEF Made, Init
    <3>2. words[w] = 0
      BY DEF Init
    <3> QED
      BY <3>1, <3>2, FS_EmptySet
  <2> QED
    BY <2>1, <2>2 DEF NoLostUpdate, Made
<1>2. CountInv => NoLostUpdate
  BY DEF CountInv
<1> QED
  BY <1>1, <1>2, CountStep, PTL DEF Spec

=============================================================================
