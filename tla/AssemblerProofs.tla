---------------------------- MODULE AssemblerProofs ----------------------------
(***************************************************************************)
(* Proofs about Assembler, for words of any width and any texts. What its   *)
(* loops compute is proved by induction: there is a least counterexample,   *)
(* or none.                                                                *)
(***************************************************************************)
EXTENDS Assembler, WellFoundedInduction, TLAPS

-----------------------------------------------------------------------------
(* Induction and recursion on the natural numbers.                         *)

\* A set of natural numbers has a least element.
LEMMA LeastNatural ==
  ASSUME NEW T \in SUBSET Nat, T # {}
  PROVE  \E m \in T : \A k \in T : m <= k
<1>. DEFINE R == {ss \in Nat \X Nat : ss[1] < ss[2]}
<1>1. IsWellFoundedOn(R, Nat)
  BY NatLessThanWellFounded DEF OpToRel
<1>. HIDE DEF R
<1>2. PICK m \in T : \A k \in T : ~ <<k, m>> \in R
  BY <1>1, WFMin
<1>3. \A k \in T : ~ (k < m)
  BY <1>2 DEF R
<1>. QED
  BY <1>3

\* Induction, for a property given as the set of its numbers.
LEMMA SetInduction ==
  ASSUME NEW T \in SUBSET Nat, 0 \in T, \A n \in Nat : n \in T => n + 1 \in T
  PROVE  T = Nat
<1>1. SUFFICES ASSUME Nat \ T # {} PROVE FALSE
  OBVIOUS
<1>2. PICK m \in Nat \ T : \A k \in Nat \ T : m <= k
  BY <1>1, LeastNatural
<1>3. m - 1 \in Nat /\ m - 1 \in T
  BY <1>2
<1>. QED
  BY <1>2, <1>3

\* Recursion to the number n exists: step[k][x] follows x.
Recursive(g, b, step, n) ==
  /\ g[0] = b
  /\ \A k \in 1 .. n : g[k] = step[k][g[k - 1]]

LEMMA RecursionTo ==
  ASSUME NEW S, NEW b \in S, NEW step \in [Nat -> [S -> S]]
  PROVE  \A n \in Nat : \E g \in [0 .. n -> S] : Recursive(g, b, step, n)
<1>. DEFINE T == {n \in Nat : \E g \in [0 .. n -> S] : Recursive(g, b, step, n)}
<1>1. 0 \in T
  <2>1. [k \in 0 .. 0 |-> b] \in [0 .. 0 -> S] /\ Recursive([k \in 0 .. 0 |-> b], b, step, 0)
    BY DEF Recursive
  <2>. QED
    BY <2>1
<1>2. ASSUME NEW n \in Nat, n \in T PROVE n + 1 \in T
  <2>1. PICK g \in [0 .. n -> S] : Recursive(g, b, step, n)
    BY <1>2
  <2>. DEFINE h == [k \in 0 .. n + 1 |-> IF k <= n THEN g[k] ELSE step[n + 1][g[n]]]
  <2>2. h \in [0 .. n + 1 -> S]
    <3>1. step[n + 1][g[n]] \in S
      OBVIOUS
    <3>2. \A k \in 0 .. n + 1 : k <= n => g[k] \in S
      OBVIOUS
    <3>. QED
      BY <3>1, <3>2
  <2>3. ASSUME NEW k \in 1 .. n + 1 PROVE h[k] = step[k][h[k - 1]]
    <3>1. CASE k <= n
      BY <2>1, <3>1 DEF Recursive
    <3>2. CASE k = n + 1
      BY <3>2
    <3>. QED
      BY <3>1, <3>2
  <2>4. h[0] = b
    BY <2>1 DEF Recursive
  <2>. HIDE DEF h
  <2>5. Recursive(h, b, step, n + 1)
    BY <2>3, <2>4 DEF Recursive
  <2>. QED
    BY <2>2, <2>5
<1>. HIDE DEF T
<1>3. T \in SUBSET Nat
  BY DEF T
<1>4. T = Nat
  BY <1>1, <1>2, <1>3, SetInduction
<1>. QED
  BY <1>4 DEF T

\* It is unique.
LEMMA RecursionUnique ==
  ASSUME NEW g, NEW h, NEW b, NEW step, NEW m \in Nat, NEW n \in Nat,
         Recursive(g, b, step, m), Recursive(h, b, step, n), m <= n
  PROVE  \A k \in 0 .. m : g[k] = h[k]
<1>. DEFINE T == {k \in Nat : k <= m => g[k] = h[k]}
<1>1. 0 \in T
  BY DEF Recursive
<1>2. ASSUME NEW k \in Nat, k \in T PROVE k + 1 \in T
  <2>1. CASE k + 1 <= m
    <3>1. k + 1 \in 1 .. m /\ k + 1 \in 1 .. n /\ (k + 1) - 1 = k /\ g[k] = h[k]
      BY <1>2, <2>1
    <3>2. g[k + 1] = step[k + 1][g[k]] /\ h[k + 1] = step[k + 1][h[k]]
      BY <3>1 DEF Recursive
    <3>. QED
      BY <3>1, <3>2
  <2>. QED
    BY <2>1
<1>. HIDE DEF T
<1>3. T \in SUBSET Nat
  BY DEF T
<1>4. T = Nat
  BY <1>1, <1>2, <1>3, SetInduction
<1>. QED
  BY <1>4 DEF T

\* Recursion on all numbers exists.
Endless(g, b, step) ==
  /\ g[0] = b
  /\ \A n \in Nat : g[n + 1] = step[n + 1][g[n]]

LEMMA Recursion ==
  ASSUME NEW S, NEW b \in S, NEW step \in [Nat -> [S -> S]]
  PROVE  \E g \in [Nat -> S] : Endless(g, b, step)
<1>. DEFINE G(n) == CHOOSE g \in [0 .. n -> S] : Recursive(g, b, step, n)
            h == [n \in Nat |-> G(n)[n]]
<1>1. ASSUME NEW n \in Nat PROVE G(n) \in [0 .. n -> S] /\ Recursive(G(n), b, step, n)
  BY RecursionTo
<1>. HIDE DEF G
<1>2. h \in [Nat -> S]
  BY <1>1
<1>3. h[0] = b
  BY <1>1 DEF Recursive
<1>4. ASSUME NEW n \in Nat PROVE h[n + 1] = step[n + 1][h[n]]
  <2>1. G(n + 1)[n + 1] = step[n + 1][G(n + 1)[n]]
    <3>1. n + 1 \in 1 .. n + 1 /\ (n + 1) - 1 = n
      OBVIOUS
    <3>2. Recursive(G(n + 1), b, step, n + 1)
      BY <1>1
    <3>. QED
      BY <3>1, <3>2 DEF Recursive
  <2>2. Recursive(G(n), b, step, n) /\ Recursive(G(n + 1), b, step, n + 1)
    BY <1>1
  <2>3. n <= n + 1 /\ n \in 0 .. n /\ n + 1 \in Nat
    OBVIOUS
  <2>4. G(n)[n] = G(n + 1)[n]
    BY <2>2, <2>3, RecursionUnique
  <2>. QED
    BY <2>1, <2>4
<1>. HIDE DEF h
<1>5. Endless(h, b, step)
  BY <1>3, <1>4 DEF Endless
<1>. QED
  BY <1>2, <1>5

\* Induction to the number L.
LEMMA InductionTo ==
  ASSUME NEW L \in Nat, NEW T, 0 \in T, \A n \in 0 .. L - 1 : n \in T => n + 1 \in T
  PROVE  \A n \in 0 .. L : n \in T
<1>. DEFINE U == {n \in Nat : n <= L => n \in T}
<1>1. 0 \in U /\ U \in SUBSET Nat
  OBVIOUS
<1>2. ASSUME NEW n \in Nat, n \in U PROVE n + 1 \in U
  <2>1. CASE n + 1 <= L
    <3>1. n \in 0 .. L - 1 /\ n \in T
      BY <1>2, <2>1
    <3>. QED
      BY <3>1
  <2>. QED
    BY <2>1
<1>. HIDE DEF U
<1>3. U = Nat
  BY <1>1, <1>2, SetInduction
<1>. QED
  BY <1>3 DEF U

\* What the steps keep, all values have.
LEMMA StaysIn ==
  ASSUME NEW S, NEW L \in Nat, NEW q, q[0] \in S,
         \A n \in 0 .. L - 1 : q[n] \in S => q[n + 1] \in S
  PROVE  \A n \in 0 .. L : q[n] \in S
<1>. DEFINE T == {n \in Nat : q[n] \in S}
<1>1. 0 \in T /\ \A n \in 0 .. L - 1 : n \in T => n + 1 \in T
  OBVIOUS
<1>. HIDE DEF T
<1>2. \A n \in 0 .. L : n \in T
  BY <1>1, InductionTo
<1>. QED
  BY <1>2 DEF T

\* The powers of b.
LEMMA PowersDefined ==
  ASSUME NEW b \in Nat
  PROVE  /\ Powers(b)[0] = 1
         /\ \A n \in Nat : Powers(b)[n] \in Nat /\ Powers(b)[n + 1] = b * Powers(b)[n]
<1>. DEFINE step == [k \in Nat |-> [x \in Nat |-> b * x]]
            one == 1
            Def(f) == f = [n \in Nat |-> IF n = 0 THEN 1 ELSE b * f[n - 1]]
            q == Powers(b)
<1>1. step \in [Nat -> [Nat -> Nat]] /\ one \in Nat
  OBVIOUS
<1>2. one = 1 /\ \A k \in Nat, x \in Nat : step[k][x] = b * x
  OBVIOUS
<1>. HIDE DEF step, one
<1>3. PICK g \in [Nat -> Nat] : Endless(g, one, step)
  <2>. DEFINE M == Nat
  <2>1. step \in [Nat -> [M -> M]] /\ one \in M
    BY <1>1
  <2>. HIDE DEF M
  <2>2. \E g \in [Nat -> M] : Endless(g, one, step)
    BY <2>1, Recursion
  <2>. QED
    BY <2>2 DEF M
<1>4. ASSUME NEW n \in Nat
      PROVE  g[n] = IF n = 0 THEN 1 ELSE b * g[n - 1]
  <2>1. CASE n # 0
    <3>1. n - 1 \in Nat /\ (n - 1) + 1 = n /\ g[n - 1] \in Nat
      BY <2>1
    <3>2. g[(n - 1) + 1] = step[(n - 1) + 1][g[n - 1]]
      BY <1>3, <3>1 DEF Endless
    <3>. QED
      BY <1>2, <2>1, <3>1, <3>2
  <2>. QED
    BY <1>2, <1>3, <2>1 DEF Endless
<1>5. Def(g)
  BY <1>4
<1>6. q = CHOOSE f : Def(f)
  BY DEF Powers
<1>. HIDE DEF Def, q
<1>7. Def(q)
  BY <1>5, <1>6
<1>8. q = [n \in Nat |-> IF n = 0 THEN 1 ELSE b * q[n - 1]]
  BY <1>7 DEF Def
<1>9. q[0] = 1 /\ \A n \in Nat : q[n + 1] = b * q[n]
  BY <1>8
<1>10. ASSUME NEW n \in Nat PROVE q[n] \in Nat
  <2>1. q[0] \in Nat /\ \A k \in 0 .. n - 1 : q[k] \in Nat => q[k + 1] \in Nat
    BY <1>9
  <2>2. \A k \in 0 .. n : q[k] \in Nat
    <3>. DEFINE M == Nat
    <3>1. q[0] \in M /\ \A k \in 0 .. n - 1 : q[k] \in M => q[k + 1] \in M
      BY <2>1
    <3>. HIDE DEF M
    <3>2. \A k \in 0 .. n : q[k] \in M
      BY <3>1, StaysIn
    <3>. QED
      BY <3>2 DEF M
  <2>. QED
    BY <2>2
<1>. QED
  BY <1>9, <1>10 DEF q

LEMMA PowerTypes ==
  ASSUME NEW b \in Nat \ {0}
  PROVE  /\ Power(b, 0) = 1
         /\ \A n \in Nat : Power(b, n) \in Nat \ {0} /\ Power(b, n + 1) = b * Power(b, n)
<1>. DEFINE q == Powers(b)
            T == {n \in Nat : q[n] # 0}
<1>1. q[0] = 1 /\ \A n \in Nat : q[n] \in Nat /\ q[n + 1] = b * q[n]
  BY PowersDefined
<1>. HIDE DEF q
<1>2. \A x \in Nat \ {0} : b * x # 0
  OBVIOUS
<1>3. 0 \in T /\ \A n \in Nat : n \in T => n + 1 \in T
  BY <1>1, <1>2
<1>. HIDE DEF T
<1>4. T \in SUBSET Nat
  BY DEF T
<1>5. T = Nat
  BY <1>3, <1>4, SetInduction
<1>6. \A n \in Nat : q[n] # 0
  BY <1>5 DEF T
<1>. QED
  BY <1>1, <1>6 DEF q, Power

\* Powers of a sum.
LEMMA PowerSum ==
  ASSUME NEW b \in Nat \ {0}, NEW m \in Nat, NEW n \in Nat
  PROVE  Power(b, m + n) = Power(b, m) * Power(b, n)
<1>. DEFINE P(k) == Power(b, k)
            T == {k \in Nat : P(m + k) = P(m) * P(k)}
<1>1. P(0) = 1 /\ \A k \in Nat : P(k) \in Nat \ {0} /\ P(k + 1) = b * P(k)
  BY PowerTypes
<1>. HIDE DEF P
<1>2. 0 \in T
  BY <1>1
<1>3. ASSUME NEW k \in Nat, k \in T PROVE k + 1 \in T
  <2>1. m + k \in Nat /\ m + (k + 1) = (m + k) + 1
    OBVIOUS
  <2>2. P((m + k) + 1) = b * P(m + k) /\ P(k + 1) = b * P(k) /\ P(m + k) = P(m) * P(k)
    BY <1>1, <1>3, <2>1
  <2>3. \A x, y \in Nat : b * (x * y) = x * (b * y)
    OBVIOUS
  <2>4. P(m + (k + 1)) = P(m) * P(k + 1)
    BY <1>1, <2>1, <2>2, <2>3
  <2>. QED
    BY <2>4
<1>. HIDE DEF T
<1>4. T \in SUBSET Nat
  BY DEF T
<1>5. T = Nat
  BY <1>2, <1>3, <1>4, SetInduction
<1>6. P(m + n) = P(m) * P(n)
  BY <1>5 DEF T
<1>. QED
  BY <1>6 DEF P

LEMMA TwoPowers ==
  /\ Power(2, 0) = 1
  /\ \A n \in Nat : Power(2, n) \in Nat \ {0} /\ Power(2, n + 1) = 2 * Power(2, n)
  /\ \A m, n \in Nat : Power(2, m + n) = Power(2, m) * Power(2, n)
<1>. DEFINE two == 2
<1>1. two \in Nat \ {0}
  OBVIOUS
<1>. HIDE DEF two
<1>2. /\ Power(two, 0) = 1
      /\ \A n \in Nat : Power(two, n) \in Nat \ {0} /\ Power(two, n + 1) = two * Power(two, n)
  BY <1>1, PowerTypes
<1>3. \A m, n \in Nat : Power(two, m + n) = Power(two, m) * Power(two, n)
  BY <1>1, PowerSum
<1>. QED
  BY <1>2, <1>3 DEF two

\* The values of the last digits of a constant.
LEMMA ValuesDefined ==
  ASSUME NEW c, c.digits \in Seq(Int), SV_BASE_CHARS[c.base] \in Nat \ {0}
  PROVE  /\ Values(c)[0] = 0
         /\ \A n \in 0 .. Len(c.digits) : Values(c)[n] \in Int
         /\ \A n \in 0 .. Len(c.digits) - 1 :
              Values(c)[n + 1] = Values(c)[n]
                + Power(SV_BASE_CHARS[c.base], n) * c.digits[Len(c.digits) - n]
<1>. DEFINE L == Len(c.digits)
            term(n) == Power(SV_BASE_CHARS[c.base], n - 1) * c.digits[L - n + 1]
            step == [k \in Nat |-> [x \in Int |-> IF k \in 1 .. L THEN x + term(k) ELSE x]]
            Def(f) == f = [n \in 0 .. L |-> IF n = 0 THEN 0 ELSE f[n - 1] + term(n)]
            q == Values(c)
<1>1. L \in Nat
  OBVIOUS
<1>2. ASSUME NEW n \in 1 .. L PROVE term(n) \in Int
  <2>1. n - 1 \in Nat /\ L - n + 1 \in 1 .. L
    BY <1>1
  <2>2. c.digits[L - n + 1] \in Int
    BY <2>1
  <2>3. Power(SV_BASE_CHARS[c.base], n - 1) \in Int
    <3>. DEFINE B == SV_BASE_CHARS[c.base]
    <3>. HIDE DEF B
    <3>1. B \in Nat \ {0} => Power(B, n - 1) \in Int
      BY <2>1, PowerTypes
    <3>. QED
      BY <3>1 DEF B
  <2>4. \A x, y \in Int : x * y \in Int
    OBVIOUS
  <2>. QED
    BY <2>2, <2>3, <2>4
<1>3. \A n \in 0 .. L - 1 : term(n + 1) = Power(SV_BASE_CHARS[c.base], n) * c.digits[L - n]
  <2>1. ASSUME NEW n \in 0 .. L - 1 PROVE (n + 1) - 1 = n /\ L - (n + 1) + 1 = L - n
    BY <1>1
  <2>. QED
    BY <2>1
<1>4. q = CHOOSE f : Def(f)
  BY DEF Values
<1>. HIDE DEF L, term
<1>5. step \in [Nat -> [Int -> Int]] /\ 0 \in Int
  BY <1>2
<1>6. \A k \in 1 .. L, x \in Int : step[k][x] = x + term(k)
  BY <1>1
<1>. HIDE DEF step
<1>7. PICK g \in [0 .. L -> Int] : Recursive(g, 0, step, L)
  <2>. DEFINE zero == 0
  <2>1. zero \in Int
    OBVIOUS
  <2>. HIDE DEF zero
  <2>2. \E g \in [0 .. L -> Int] : Recursive(g, zero, step, L)
    BY <1>1, <1>5, <2>1, RecursionTo
  <2>. QED
    BY <2>2 DEF zero
<1>8. ASSUME NEW n \in 0 .. L
      PROVE  g[n] = IF n = 0 THEN 0 ELSE g[n - 1] + term(n)
  <2>1. CASE n # 0
    <3>1. n \in 1 .. L /\ n - 1 \in 0 .. L
      BY <1>1, <2>1
    <3>2. g[n - 1] \in Int
      BY <3>1
    <3>3. g[n] = step[n][g[n - 1]]
      BY <1>7, <3>1 DEF Recursive
    <3>. QED
      BY <1>6, <2>1, <3>1, <3>2, <3>3
  <2>. QED
    BY <1>7, <2>1 DEF Recursive
<1>9. Def(g)
  BY <1>8
<1>. HIDE DEF Def, q
<1>10. Def(q)
  BY <1>4, <1>9
<1>11. q = [n \in 0 .. L |-> IF n = 0 THEN 0 ELSE q[n - 1] + term(n)]
  BY <1>10 DEF Def
<1>12. q[0] = 0
  BY <1>1, <1>11
<1>13. ASSUME NEW n \in 0 .. L - 1 PROVE q[n + 1] = q[n] + term(n + 1)
  <2>1. n + 1 \in 0 .. L /\ n + 1 # 0 /\ (n + 1) - 1 = n
    BY <1>1
  <2>. QED
    BY <1>11, <2>1
<1>14. \A n \in 0 .. L : q[n] \in Int
  <2>. DEFINE M == Int
  <2>1. ASSUME NEW n \in 0 .. L - 1, q[n] \in M PROVE q[n + 1] \in M
    <3>1. n + 1 \in 1 .. L
      BY <1>1
    <3>. QED
      BY <1>2, <1>13, <2>1, <3>1
  <2>2. q[0] \in M
    BY <1>12
  <2>. HIDE DEF M
  <2>3. \A n \in 0 .. L : q[n] \in M
    BY <1>1, <2>1, <2>2, StaysIn
  <2>. QED
    BY <2>3 DEF M
<1>. QED
  BY <1>3, <1>12, <1>13, <1>14 DEF q, L

\* The values of the first digits of a numeral.
LEMMA NumeralsDefined ==
  ASSUME NEW digits \in Seq(Int), NEW base \in Nat
  PROVE  /\ Numerals(digits, base)[0] = 0
         /\ \A n \in 0 .. Len(digits) : Numerals(digits, base)[n] \in Int
         /\ \A n \in 0 .. Len(digits) - 1 :
              Numerals(digits, base)[n + 1] = Numerals(digits, base)[n] * base + digits[n + 1]
<1>. DEFINE L == Len(digits)
            next(n, x) == x * base + digits[n]
            step == [k \in Nat |-> [x \in Int |-> IF k \in 1 .. L THEN next(k, x) ELSE x]]
            Def(f) == f = [n \in 0 .. L |-> IF n = 0 THEN 0 ELSE next(n, f[n - 1])]
            q == Numerals(digits, base)
<1>1. L \in Nat
  OBVIOUS
<1>2. \A n \in 1 .. L, x \in Int : next(n, x) \in Int
  <2>1. \A n \in 1 .. L : digits[n] \in Int
    OBVIOUS
  <2>2. \A x \in Int : x * base \in Int
    OBVIOUS
  <2>. QED
    BY <2>1, <2>2
<1>3. \A n \in 0 .. L - 1, x \in Int : next(n + 1, x) = x * base + digits[n + 1]
  OBVIOUS
<1>4. q = CHOOSE f : Def(f)
  BY DEF Numerals
<1>. HIDE DEF L, next
<1>5. step \in [Nat -> [Int -> Int]]
  BY <1>2
<1>6. \A k \in 1 .. L, x \in Int : step[k][x] = next(k, x)
  BY <1>1
<1>. HIDE DEF step
<1>7. PICK g \in [0 .. L -> Int] : Recursive(g, 0, step, L)
  <2>. DEFINE zero == 0
  <2>1. zero \in Int
    OBVIOUS
  <2>. HIDE DEF zero
  <2>2. \E g \in [0 .. L -> Int] : Recursive(g, zero, step, L)
    BY <1>1, <1>5, <2>1, RecursionTo
  <2>. QED
    BY <2>2 DEF zero
<1>8. ASSUME NEW n \in 0 .. L
      PROVE  g[n] = IF n = 0 THEN 0 ELSE next(n, g[n - 1])
  <2>1. CASE n # 0
    <3>1. n \in 1 .. L /\ n - 1 \in 0 .. L
      BY <1>1, <2>1
    <3>2. g[n - 1] \in Int
      BY <3>1
    <3>3. g[n] = step[n][g[n - 1]]
      BY <1>7, <3>1 DEF Recursive
    <3>. QED
      BY <1>6, <2>1, <3>1, <3>2, <3>3
  <2>. QED
    BY <1>7, <2>1 DEF Recursive
<1>9. Def(g)
  BY <1>8
<1>. HIDE DEF Def, q
<1>10. Def(q)
  BY <1>4, <1>9
<1>11. q = [n \in 0 .. L |-> IF n = 0 THEN 0 ELSE next(n, q[n - 1])]
  BY <1>10 DEF Def
<1>12. q[0] = 0
  BY <1>1, <1>11
<1>13. ASSUME NEW n \in 0 .. L - 1 PROVE q[n + 1] = next(n + 1, q[n])
  <2>1. n + 1 \in 0 .. L /\ n + 1 # 0 /\ (n + 1) - 1 = n
    BY <1>1
  <2>. QED
    BY <1>11, <2>1
<1>14. \A n \in 0 .. L : q[n] \in Int
  <2>. DEFINE M == Int
  <2>1. ASSUME NEW n \in 0 .. L - 1, q[n] \in M PROVE q[n + 1] \in M
    <3>1. n + 1 \in 1 .. L
      BY <1>1
    <3>. QED
      BY <1>2, <1>13, <2>1, <3>1
  <2>2. q[0] \in M
    BY <1>12
  <2>. HIDE DEF M
  <2>3. \A n \in 0 .. L : q[n] \in M
    BY <1>1, <2>1, <2>2, StaysIn
  <2>. QED
    BY <2>3 DEF M
<1>15. \A n \in 0 .. L - 1 : q[n + 1] = q[n] * base + digits[n + 1]
  <2>1. ASSUME NEW n \in 0 .. L - 1 PROVE n \in 0 .. L
    BY <1>1
  <2>. QED
    BY <1>3, <1>13, <1>14, <2>1
<1>. QED
  BY <1>12, <1>14, <1>15 DEF q, L

\* The widths of the last fields.
LEMMA WidthsDefined ==
  ASSUME NEW consts, Len(consts) \in Nat, \A f \in 1 .. Len(consts) : consts[f].bits \in Nat
  PROVE  /\ Widths(consts)[0] = 0
         /\ \A n \in 0 .. Len(consts) : Widths(consts)[n] \in Nat
         /\ \A n \in 0 .. Len(consts) - 1 :
              Widths(consts)[n + 1] = Widths(consts)[n] + consts[Len(consts) - n].bits
<1>. DEFINE L == Len(consts)
            term(n) == consts[L - n + 1].bits
            step == [k \in Nat |-> [x \in Nat |-> IF k \in 1 .. L THEN x + term(k) ELSE x]]
            Def(f) == f = [n \in 0 .. L |-> IF n = 0 THEN 0 ELSE f[n - 1] + term(n)]
            q == Widths(consts)
<1>1. L \in Nat
  OBVIOUS
<1>2. ASSUME NEW n \in 1 .. L PROVE term(n) \in Nat
  <2>1. L - n + 1 \in 1 .. L
    BY <1>1
  <2>. QED
    BY <2>1
<1>3. \A n \in 0 .. L - 1 : term(n + 1) = consts[L - n].bits
  <2>1. ASSUME NEW n \in 0 .. L - 1 PROVE L - (n + 1) + 1 = L - n
    BY <1>1
  <2>. QED
    BY <2>1
<1>4. q = CHOOSE f : Def(f)
  BY DEF Widths
<1>. HIDE DEF L, term
<1>5. step \in [Nat -> [Nat -> Nat]]
  BY <1>2
<1>6. \A k \in 1 .. L, x \in Nat : step[k][x] = x + term(k)
  BY <1>1
<1>. HIDE DEF step
<1>7. PICK g \in [0 .. L -> Nat] : Recursive(g, 0, step, L)
  <2>. DEFINE zero == 0
              M == Nat
  <2>1. zero \in M /\ step \in [Nat -> [M -> M]]
    BY <1>5
  <2>. HIDE DEF zero, M
  <2>2. \E g \in [0 .. L -> M] : Recursive(g, zero, step, L)
    BY <1>1, <2>1, RecursionTo
  <2>. QED
    BY <2>2 DEF zero, M
<1>8. ASSUME NEW n \in 0 .. L
      PROVE  g[n] = IF n = 0 THEN 0 ELSE g[n - 1] + term(n)
  <2>1. CASE n # 0
    <3>1. n \in 1 .. L /\ n - 1 \in 0 .. L
      BY <1>1, <2>1
    <3>2. g[n - 1] \in Nat
      BY <3>1
    <3>3. g[n] = step[n][g[n - 1]]
      BY <1>7, <3>1 DEF Recursive
    <3>. QED
      BY <1>6, <2>1, <3>1, <3>2, <3>3
  <2>. QED
    BY <1>7, <2>1 DEF Recursive
<1>9. Def(g)
  BY <1>8
<1>. HIDE DEF Def, q
<1>10. Def(q)
  BY <1>4, <1>9
<1>11. q = [n \in 0 .. L |-> IF n = 0 THEN 0 ELSE q[n - 1] + term(n)]
  BY <1>10 DEF Def
<1>12. q[0] = 0
  BY <1>1, <1>11
<1>13. ASSUME NEW n \in 0 .. L - 1 PROVE q[n + 1] = q[n] + term(n + 1)
  <2>1. n + 1 \in 0 .. L /\ n + 1 # 0 /\ (n + 1) - 1 = n
    BY <1>1
  <2>. QED
    BY <1>11, <2>1
<1>14. \A n \in 0 .. L : q[n] \in Nat
  <2>. DEFINE M == Nat
  <2>1. ASSUME NEW n \in 0 .. L - 1, q[n] \in M PROVE q[n + 1] \in M
    <3>1. n + 1 \in 1 .. L
      BY <1>1
    <3>. QED
      BY <1>2, <1>13, <2>1, <3>1
  <2>2. q[0] \in M
    BY <1>12
  <2>. HIDE DEF M
  <2>3. \A n \in 0 .. L : q[n] \in M
    BY <1>1, <2>1, <2>2, StaysIn
  <2>. QED
    BY <2>3 DEF M
<1>. QED
  BY <1>3, <1>12, <1>13, <1>14 DEF q, L

-----------------------------------------------------------------------------
(* Words.                                                                  *)

\* The word so far.
Acc == [value32 : Int, num_bits : Nat, error : BOOLEAN, ended : BOOLEAN]
Start == [value32 |-> 0, num_bits |-> 0, error |-> FALSE, ended |-> FALSE]

LEMMA DigitsInt ==
  ASSUME NEW digits \in Seq(-1 .. 15)
  PROVE  digits \in Seq(Int)
<1>1. Len(digits) \in Nat /\ DOMAIN digits = 1 .. Len(digits)
  OBVIOUS
<1>2. \A k \in 1 .. Len(digits) : digits[k] \in Int
  <2>1. \A k \in 1 .. Len(digits) : digits[k] \in -1 .. 15
    OBVIOUS
  <2>. QED
    BY <2>1
<1>. QED
  BY <1>1, <1>2

LEMMA Bases ==
  ASSUME NEW c \in Const, c.kind = "const"
  PROVE  /\ c.bits \in Nat
         /\ c.digits \in Seq(Int)
         /\ c.digits \in Seq(-1 .. 15)
         /\ SV_BASE_CHARS[c.base] \in Nat \ {0}
<1>1. c \in [kind : {"const"}, bits : Nat, base : {"b", "d", "h"}, digits : Seq(-1 .. 15)]
  BY DEF Const
<1>2. c.bits \in Nat /\ c.base \in {"b", "d", "h"} /\ c.digits \in Seq(-1 .. 15)
  BY <1>1
<1>3. c.digits \in Seq(Int)
  BY <1>2, DigitsInt
<1>4. SV_BASE_CHARS[c.base] \in Nat \ {0}
  BY <1>2 DEF SV_BASE_CHARS
<1>. QED
  BY <1>2, <1>3, <1>4

LEMMA PopTypes ==
  ASSUME NEW c \in Const, NEW acc \in Acc
  PROVE  Pop(c, acc) \in Acc
<1>1. CASE Pop(c, acc) = [acc EXCEPT !.value32 = @ + ConstValue(c) * Shift(acc.num_bits),
                                     !.num_bits = @ + c.bits]
           /\ c.kind = "const"
  <2>1. c.bits \in Nat /\ c.digits \in Seq(Int) /\ SV_BASE_CHARS[c.base] \in Nat \ {0}
    BY <1>1, Bases
  <2>2. ConstValue(c) \in Int
    <3>1. Len(c.digits) \in 0 .. Len(c.digits)
      BY <2>1
    <3>. QED
      BY <2>1, <3>1, ValuesDefined DEF ConstValue
  <2>3. Shift(acc.num_bits) \in Int
    <3>1. acc.num_bits \in Nat /\ Width \in Nat \ {0, 1}
      BY AssemblerAssumption DEF Acc
    <3>2. acc.num_bits % Width \in Nat /\ Width - 1 \in Nat
      BY <3>1
    <3>3. \A n \in Nat : Power(2, n) \in Nat
      BY PowerTypes
    <3>. QED
      BY <3>1, <3>2, <3>3 DEF Shift
  <2>4. \A x, y \in Int : x * y \in Int
    OBVIOUS
  <2>5. acc.value32 + ConstValue(c) * Shift(acc.num_bits) \in Int /\ acc.num_bits + c.bits \in Nat
    BY <2>1, <2>2, <2>3, <2>4 DEF Acc
  <2>. QED
    BY <1>1, <2>5 DEF Acc
<1>2. c.kind \in {"const", "bad", "empty"}
  BY DEF Const
<1>3. CASE ~ (Pop(c, acc) = [acc EXCEPT !.value32 = @ + ConstValue(c) * Shift(acc.num_bits),
                                     !.num_bits = @ + c.bits]
              /\ c.kind = "const")
  <2>1. Pop(c, acc) \in {acc, [acc EXCEPT !.ended = TRUE], [acc EXCEPT !.error = TRUE]}
    BY <1>2, <1>3 DEF Pop
  <2>. QED
    BY <2>1 DEF Acc
<1>. QED
  BY <1>1, <1>3

LEMMA PoppedDefined ==
  ASSUME NEW consts \in Seq(Const)
  PROVE  /\ Popped(consts)[0] = Start
         /\ \A n \in 0 .. Len(consts) : Popped(consts)[n] \in Acc
         /\ \A n \in 0 .. Len(consts) - 1 :
              Popped(consts)[n + 1] = Pop(consts[Len(consts) - n], Popped(consts)[n])
<1>. DEFINE L == Len(consts)
            next(n, x) == Pop(consts[L - n + 1], x)
            step == [k \in Nat |-> [x \in Acc |-> IF k \in 1 .. L THEN next(k, x) ELSE x]]
            Def(f) == f = [n \in 0 .. L |-> IF n = 0 THEN Start ELSE next(n, f[n - 1])]
            q == Popped(consts)
<1>1. L \in Nat
  OBVIOUS
<1>2. ASSUME NEW n \in 1 .. L, NEW x \in Acc PROVE next(n, x) \in Acc
  <2>1. L - n + 1 \in 1 .. L
    BY <1>1
  <2>2. consts[L - n + 1] \in Const
    BY <2>1
  <2>. QED
    BY <2>2, PopTypes
<1>3. ASSUME NEW n \in 0 .. L - 1, NEW x PROVE next(n + 1, x) = Pop(consts[L - n], x)
  <2>1. L - (n + 1) + 1 = L - n
    BY <1>1
  <2>. QED
    BY <2>1
<1>4. q = CHOOSE f : Def(f)
  BY DEF Popped, Start
<1>. HIDE DEF L, next
<1>5. step \in [Nat -> [Acc -> Acc]] /\ Start \in Acc
  <2>1. Start \in Acc
    BY DEF Start, Acc
  <2>. QED
    BY <1>2, <2>1
<1>6. \A k \in 1 .. L, x \in Acc : step[k][x] = next(k, x)
  BY <1>1
<1>. HIDE DEF step
<1>7. PICK g \in [0 .. L -> Acc] : Recursive(g, Start, step, L)
  BY <1>1, <1>5, RecursionTo
<1>8. ASSUME NEW n \in 0 .. L
      PROVE  g[n] = IF n = 0 THEN Start ELSE next(n, g[n - 1])
  <2>1. CASE n # 0
    <3>1. n \in 1 .. L /\ n - 1 \in 0 .. L
      BY <1>1, <2>1
    <3>2. g[n - 1] \in Acc
      BY <3>1
    <3>3. g[n] = step[n][g[n - 1]]
      BY <1>7, <3>1 DEF Recursive
    <3>. QED
      BY <1>6, <2>1, <3>1, <3>2, <3>3
  <2>. QED
    BY <1>7, <2>1 DEF Recursive
<1>9. Def(g)
  BY <1>8
<1>. HIDE DEF Def, q
<1>10. Def(q)
  BY <1>4, <1>9
<1>11. q = [n \in 0 .. L |-> IF n = 0 THEN Start ELSE next(n, q[n - 1])]
  BY <1>10 DEF Def
<1>12. q[0] = Start
  BY <1>1, <1>11
<1>13. ASSUME NEW n \in 0 .. L - 1 PROVE q[n + 1] = next(n + 1, q[n])
  <2>1. n + 1 \in 0 .. L /\ n + 1 # 0 /\ (n + 1) - 1 = n
    BY <1>1
  <2>. QED
    BY <1>11, <2>1
<1>14. \A n \in 0 .. L : q[n] \in Acc
  <2>1. ASSUME NEW n \in 0 .. L - 1, q[n] \in Acc PROVE q[n + 1] \in Acc
    <3>1. n + 1 \in 1 .. L
      BY <1>1
    <3>. QED
      BY <1>2, <1>13, <2>1, <3>1
  <2>2. q[0] \in Acc
    BY <1>5, <1>12
  <2>. QED
    BY <1>1, <2>1, <2>2, StaysIn
<1>. QED
  BY <1>3, <1>12, <1>13, <1>14 DEF q, L

\* The loop over the digits computes the numeral: to the left of the digits that
\* it has taken is the value of the others.
LEMMA ConstIsNumeral ==
  ASSUME NEW c, c.digits \in Seq(Int), SV_BASE_CHARS[c.base] \in Nat \ {0}
  PROVE  ConstValue(c) = Numeral(c.digits, SV_BASE_CHARS[c.base])
<1>. DEFINE B == SV_BASE_CHARS[c.base]
            d == c.digits
            L == Len(d)
            val == Values(c)
            num == Numerals(d, B)
            P(n) == Power(B, n)
            T == {n \in Nat : num[L] = num[L - n] * P(n) + val[n]}
<1>1. L \in Nat /\ B \in Nat \ {0} /\ d \in Seq(Int)
  OBVIOUS
<1>2. /\ val[0] = 0
      /\ \A n \in 0 .. L : val[n] \in Int
      /\ \A n \in 0 .. L - 1 : val[n + 1] = val[n] + P(n) * d[L - n]
  BY ValuesDefined
<1>. HIDE DEF B, d
<1>3. /\ num[0] = 0
      /\ \A n \in 0 .. L : num[n] \in Int
      /\ \A n \in 0 .. L - 1 : num[n + 1] = num[n] * B + d[n + 1]
  BY <1>1, NumeralsDefined
<1>4. P(0) = 1 /\ \A n \in Nat : P(n) \in Nat \ {0} /\ P(n + 1) = B * P(n)
  BY <1>1, PowerTypes
<1>5. \A n \in 1 .. L : d[n] \in Int
  BY <1>1
<1>. HIDE DEF val, num, P, L
<1>6. 0 \in T
  <2>1. L - 0 = L /\ L \in 0 .. L /\ num[L] \in Int
    BY <1>1, <1>3
  <2>2. \A x \in Int : x = x * 1 + 0
    OBVIOUS
  <2>3. num[L] = num[L - 0] * P(0) + val[0]
    BY <1>2, <1>4, <2>1, <2>2
  <2>. QED
    BY <2>3
<1>7. ASSUME NEW n \in 0 .. L - 1, n \in T PROVE n + 1 \in T
  <2>1. /\ n \in Nat /\ n \in 0 .. L /\ L - (n + 1) \in 0 .. L - 1 /\ L - (n + 1) \in 0 .. L
        /\ (L - (n + 1)) + 1 = L - n /\ L - n \in 1 .. L
    BY <1>1
  <2>2. num[L - n] = num[L - (n + 1)] * B + d[L - n]
    BY <1>3, <2>1
  <2>3. val[n + 1] = val[n] + P(n) * d[L - n]
    BY <1>2
  <2>4. num[L] = num[L - n] * P(n) + val[n]
    BY <1>7
  <2>5. \A x, y, v \in Int, p \in Nat : (x * B + y) * p + v = x * (B * p) + (v + p * y)
    BY <1>1
  <2>6. num[L - (n + 1)] \in Int /\ d[L - n] \in Int /\ val[n] \in Int /\ P(n) \in Nat
    BY <1>2, <1>3, <1>4, <1>5, <2>1
  <2>7. (num[L - (n + 1)] * B + d[L - n]) * P(n) + val[n]
          = num[L - (n + 1)] * (B * P(n)) + (val[n] + P(n) * d[L - n])
    <3>1. PICK x \in Int, y \in Int, v \in Int, p \in Nat :
            x = num[L - (n + 1)] /\ y = d[L - n] /\ v = val[n] /\ p = P(n)
      BY <2>6
    <3>2. (x * B + y) * p + v = x * (B * p) + (v + p * y)
      BY <2>5
    <3>. QED
      BY <3>1, <3>2
  <2>8. num[L] = num[L - (n + 1)] * P(n + 1) + val[n + 1]
    BY <1>4, <2>1, <2>2, <2>3, <2>4, <2>7
  <2>. QED
    BY <2>1, <2>8
<1>8. L \in T
  <2>. HIDE DEF T
  <2>1. \A n \in 0 .. L : n \in T
    BY <1>1, <1>6, <1>7, InductionTo
  <2>. QED
    BY <1>1, <2>1
<1>9. num[L] = val[L]
  <2>1. L - L = 0 /\ L \in 0 .. L
    BY <1>1
  <2>2. num[L] = num[0] * P(L) + val[L]
    BY <1>8, <2>1
  <2>3. num[0] = 0 /\ P(L) \in Nat /\ val[L] \in Int
    BY <1>1, <1>2, <1>3, <1>4, <1>5, <2>1
  <2>4. \A p \in Nat, v \in Int : 0 * p + v = v
    OBVIOUS
  <2>. HIDE DEF num, val, P, L, T
  <2>5. num[L] = 0 * P(L) + val[L]
    BY <2>2, <2>3
  <2>. QED
    BY <2>3, <2>4, <2>5
<1>. QED
  BY <1>9 DEF val, num, L, d, B, ConstValue, Numeral

LEMMA NumeralIsNatural ==
  ASSUME NEW digits \in Seq(Int), NEW base \in Nat, \A k \in 1 .. Len(digits) : digits[k] >= 0
  PROVE  Numeral(digits, base) \in Nat
<1>. DEFINE L == Len(digits)
            num == Numerals(digits, base)
            M == Nat
<1>1. L \in Nat /\ \A k \in 1 .. L : digits[k] \in Nat
  OBVIOUS
<1>2. num[0] = 0 /\ \A n \in 0 .. L - 1 : num[n + 1] = num[n] * base + digits[n + 1]
  BY NumeralsDefined
<1>. HIDE DEF num, L
<1>3. ASSUME NEW n \in 0 .. L - 1, num[n] \in M PROVE num[n + 1] \in M
  <2>1. n + 1 \in 1 .. L
    BY <1>1
  <2>2. num[n] * base \in Nat
    BY <1>3
  <2>3. num[n + 1] = num[n] * base + digits[n + 1] /\ digits[n + 1] \in Nat
    BY <1>1, <1>2, <2>1
  <2>4. num[n] * base + digits[n + 1] \in Nat
    BY <2>2, <2>3
  <2>. QED
    BY <2>3, <2>4
<1>4. num[0] \in M
  BY <1>2
<1>. HIDE DEF M
<1>5. \A n \in 0 .. L : num[n] \in M
  BY <1>1, <1>3, <1>4, StaysIn
<1>. QED
  BY <1>1, <1>5 DEF M, num, L, Numeral

\* A legal constant is taken whole, into the bits above those of the others.
LEMMA LegalPopped ==
  ASSUME NEW c \in Const, Legal(c), NEW acc \in Acc, ~ acc.error, ~ acc.ended,
         acc.num_bits < Width
  PROVE  LET num == Numeral(c.digits, SV_BASE_CHARS[c.base]) IN
         /\ num \in 0 .. Power(2, c.bits) - 1
         /\ Pop(c, acc) = [value32 |-> acc.value32 + num * Power(2, acc.num_bits),
                           num_bits |-> acc.num_bits + c.bits,
                           error |-> FALSE, ended |-> FALSE]
<1>1. c.kind = "const" /\ c.bits \in Nat /\ c.digits \in Seq(Int) /\ SV_BASE_CHARS[c.base] \in Nat \ {0}
  BY Bases DEF Legal
<1>2. \A k \in DOMAIN c.digits : ~ IllegalDigit(c.digits[k], SV_BASE_CHARS[c.base])
  <2>1. \A k \in DOMAIN c.digits : c.digits[k] \in 0 .. SV_BASE_CHARS[c.base] - 1
    BY DEF Legal
  <2>. DEFINE B == SV_BASE_CHARS[c.base]
  <2>2. B \in Nat
    BY <1>1
  <2>. HIDE DEF B
  <2>3. \A x \in 0 .. B - 1 : ~ IllegalDigit(x, B)
    BY <2>2 DEF IllegalDigit
  <2>. QED
    BY <2>1, <2>3 DEF B
<1>3. Numeral(c.digits, SV_BASE_CHARS[c.base]) \in 0 .. Power(2, c.bits) - 1
  <2>1. \A k \in 1 .. Len(c.digits) : c.digits[k] >= 0
    BY <1>1 DEF Legal
  <2>2. Numeral(c.digits, SV_BASE_CHARS[c.base]) \in Nat
    BY <1>1, <2>1, NumeralIsNatural
  <2>3. Numeral(c.digits, SV_BASE_CHARS[c.base]) < Power(2, c.bits)
    BY DEF Legal
  <2>4. \A n \in Nat : Power(2, n) \in Nat
    BY PowerTypes
  <2>5. Power(2, c.bits) \in Nat
    BY <1>1, <2>4
  <2>. QED
    BY <2>2, <2>3, <2>5
<1>4. Shift(acc.num_bits) = Power(2, acc.num_bits)
  <2>1. acc.num_bits \in Nat /\ Width \in Nat \ {0, 1}
    BY AssemblerAssumption DEF Acc
  <2>2. acc.num_bits % Width = acc.num_bits
    BY <2>1
  <2>. QED
    BY <2>1, <2>2 DEF Shift
<1>5. ConstValue(c) = Numeral(c.digits, SV_BASE_CHARS[c.base])
  BY <1>1, ConstIsNumeral
<1>6. Pop(c, acc) = [acc EXCEPT !.value32 = @ + ConstValue(c) * Shift(acc.num_bits),
                                !.num_bits = @ + c.bits]
  BY <1>1, <1>2 DEF Pop
<1>. QED
  BY <1>3, <1>4, <1>5, <1>6 DEF Acc

\* What the fields of a legal line add to the word, one after the other.
FieldValue(c) == Numeral(c.digits, SV_BASE_CHARS[c.base])

LEMMA LegalWidths ==
  ASSUME NEW consts \in Seq(Const), \A f \in DOMAIN consts : Legal(consts[f]),
         SumBits(consts) = Width
  PROVE  /\ Widths(consts)[0] = 0 /\ Widths(consts)[Len(consts)] = Width
         /\ \A n \in 0 .. Len(consts) : Widths(consts)[n] \in Nat
         /\ \A n \in 0 .. Len(consts) - 1 :
              /\ Widths(consts)[n + 1] = Widths(consts)[n] + consts[Len(consts) - n].bits
              /\ consts[Len(consts) - n].bits \in Nat
              /\ Widths(consts)[n] < Width
<1>. DEFINE L == Len(consts)
            w == Widths(consts)
<1>1. L \in Nat /\ \A f \in 1 .. L : consts[f].bits \in Nat \ {0}
  <2>1. ASSUME NEW f \in 1 .. L PROVE consts[f].bits \in Nat \ {0}
    <3>1. consts[f] \in Const /\ Legal(consts[f])
      OBVIOUS
    <3>. QED
      BY <3>1, Bases DEF Legal
  <2>. QED
    BY <2>1
<1>2. /\ w[0] = 0
      /\ \A n \in 0 .. L : w[n] \in Nat
      /\ \A n \in 0 .. L - 1 : w[n + 1] = w[n] + consts[L - n].bits
  BY <1>1, WidthsDefined
<1>3. w[L] = Width
  BY DEF SumBits
<1>. HIDE DEF w, L
<1>. DEFINE T == {n \in Nat : w[L - n] <= Width}
<1>4. 0 \in T
  <2>1. Width \in Nat /\ L - 0 = L
    BY <1>1, AssemblerAssumption
  <2>. QED
    BY <1>3, <2>1
<1>5. ASSUME NEW n \in 0 .. L - 1, n \in T PROVE n + 1 \in T
  <2>1. /\ n \in Nat /\ L - (n + 1) \in 0 .. L - 1 /\ L - (n + 1) \in 0 .. L /\ L - n \in 0 .. L
        /\ (L - (n + 1)) + 1 = L - n /\ L - (L - (n + 1)) = n + 1 /\ n + 1 \in 1 .. L
    BY <1>1
  <2>2. w[L - n] = w[L - (n + 1)] + consts[n + 1].bits
    BY <1>2, <2>1
  <2>3. w[L - n] \in Nat /\ w[L - (n + 1)] \in Nat /\ consts[n + 1].bits \in Nat /\ w[L - n] <= Width
        /\ Width \in Nat
    BY <1>1, <1>2, <1>5, <2>1, AssemblerAssumption
  <2>4. w[L - (n + 1)] <= Width
    BY <2>2, <2>3
  <2>. QED
    BY <2>1, <2>4
<1>6. ASSUME NEW n \in 0 .. L PROVE w[n] <= Width
  <2>. HIDE DEF T
  <2>1. \A k \in 0 .. L : k \in T
    BY <1>1, <1>4, <1>5, InductionTo
  <2>2. L - n \in 0 .. L /\ L - (L - n) = n
    BY <1>1
  <2>. QED
    BY <2>1, <2>2 DEF T
<1>7. ASSUME NEW n \in 0 .. L - 1 PROVE consts[L - n].bits \in Nat /\ w[n] < Width
  <2>1. n \in 0 .. L /\ n + 1 \in 0 .. L /\ L - n \in 1 .. L
    BY <1>1
  <2>2. w[n + 1] <= Width /\ w[n + 1] = w[n] + consts[L - n].bits /\ consts[L - n].bits \in Nat \ {0}
        /\ w[n] \in Nat /\ Width \in Nat
    BY <1>1, <1>2, <1>6, <2>1, AssemblerAssumption
  <2>. QED
    BY <2>2
<1>. QED
  BY <1>2, <1>3, <1>7 DEF w, L

LEMMA LegalAccs ==
  ASSUME NEW consts \in Seq(Const), \A f \in DOMAIN consts : Legal(consts[f]),
         SumBits(consts) = Width
  PROVE  /\ Popped(consts)[0] = Start
         /\ \A n \in 0 .. Len(consts) :
              /\ Popped(consts)[n] \in Acc
              /\ ~ Popped(consts)[n].error /\ ~ Popped(consts)[n].ended
              /\ Popped(consts)[n].num_bits = Widths(consts)[n]
         /\ \A n \in 0 .. Len(consts) - 1 :
              /\ FieldValue(consts[Len(consts) - n]) \in 0 .. Power(2, consts[Len(consts) - n].bits) - 1
              /\ Popped(consts)[n + 1].value32 = Popped(consts)[n].value32
                   + FieldValue(consts[Len(consts) - n]) * Power(2, Widths(consts)[n])
<1>. DEFINE L == Len(consts)
            w == Widths(consts)
            q == Popped(consts)
            T == {n \in Nat : ~ q[n].error /\ ~ q[n].ended /\ q[n].num_bits = w[n]}
<1>1. L \in Nat /\ \A f \in 1 .. L : consts[f] \in Const /\ Legal(consts[f])
  OBVIOUS
<1>2. /\ w[0] = 0
      /\ \A n \in 0 .. L - 1 : w[n + 1] = w[n] + consts[L - n].bits /\ w[n] < Width
  BY LegalWidths
<1>3. /\ q[0] = Start
      /\ \A n \in 0 .. L : q[n] \in Acc
      /\ \A n \in 0 .. L - 1 : q[n + 1] = Pop(consts[L - n], q[n])
  BY PoppedDefined
<1>. HIDE DEF L, w, q
<1>4. 0 \in T
  BY <1>2, <1>3 DEF Start
<1>5. ASSUME NEW n \in 0 .. L - 1, n \in T
      PROVE  /\ n + 1 \in T
             /\ FieldValue(consts[L - n]) \in 0 .. Power(2, consts[L - n].bits) - 1
             /\ q[n + 1].value32 = q[n].value32 + FieldValue(consts[L - n]) * Power(2, w[n])
  <2>1. n \in Nat /\ n \in 0 .. L /\ L - n \in 1 .. L
    BY <1>1
  <2>2. consts[L - n] \in Const /\ Legal(consts[L - n]) /\ q[n] \in Acc
    BY <1>1, <1>3, <2>1
  <2>3. ~ q[n].error /\ ~ q[n].ended /\ q[n].num_bits = w[n] /\ q[n].num_bits < Width
    BY <1>2, <1>5
  <2>4. /\ FieldValue(consts[L - n]) \in 0 .. Power(2, consts[L - n].bits) - 1
        /\ Pop(consts[L - n], q[n]) =
             [value32 |-> q[n].value32 + FieldValue(consts[L - n]) * Power(2, q[n].num_bits),
              num_bits |-> q[n].num_bits + consts[L - n].bits,
              error |-> FALSE, ended |-> FALSE]
    BY <2>2, <2>3, LegalPopped DEF FieldValue
  <2>5. q[n + 1] = Pop(consts[L - n], q[n])
    BY <1>3
  <2>6. w[n + 1] = w[n] + consts[L - n].bits
    BY <1>2
  <2>7. ~ q[n + 1].error /\ ~ q[n + 1].ended /\ q[n + 1].num_bits = w[n + 1]
    BY <2>3, <2>4, <2>5, <2>6
  <2>8. q[n + 1].value32 = q[n].value32 + FieldValue(consts[L - n]) * Power(2, w[n])
    BY <2>3, <2>4, <2>5
  <2>. QED
    BY <2>1, <2>4, <2>7, <2>8
<1>. HIDE DEF T
<1>6. \A n \in 0 .. L : n \in T
  BY <1>1, <1>4, <1>5, InductionTo
<1>7. ASSUME NEW n \in 0 .. L PROVE ~ q[n].error /\ ~ q[n].ended /\ q[n].num_bits = w[n]
  BY <1>6 DEF T
<1>8. ASSUME NEW n \in 0 .. L - 1
      PROVE  /\ FieldValue(consts[L - n]) \in 0 .. Power(2, consts[L - n].bits) - 1
             /\ q[n + 1].value32 = q[n].value32 + FieldValue(consts[L - n]) * Power(2, w[n])
  <2>1. n \in 0 .. L
    BY <1>1
  <2>. QED
    BY <1>5, <1>6, <2>1
<1>. QED
  BY <1>3, <1>7, <1>8 DEF L, w, q

\* A field above others: the sum is below the power of their bits together.
LEMMA FieldFits ==
  ASSUME NEW D \in Nat, NEW Q \in Nat, NEW v \in 0 .. D - 1, NEW m \in 0 .. Q - 1
  PROVE  v + m * D \in 0 .. D * Q - 1
<1>1. PICK r \in Nat : Q - 1 = m + r
  <2>1. Q - 1 - m \in Nat /\ Q - 1 = m + (Q - 1 - m)
    OBVIOUS
  <2>. QED
    BY <2>1
<1>2. D * Q = D * (m + r + 1)
  BY <1>1
<1>3. D * (m + r + 1) = m * D + D * r + D
  BY <1>1
<1>4. D * r >= 0 /\ m * D >= 0
  BY <1>1
<1>. QED
  BY <1>2, <1>3, <1>4

LEMMA LegalValues ==
  ASSUME NEW consts \in Seq(Const), \A f \in DOMAIN consts : Legal(consts[f]),
         SumBits(consts) = Width
  PROVE  \A n \in 0 .. Len(consts) :
           Popped(consts)[n].value32 \in 0 .. Power(2, Widths(consts)[n]) - 1
<1>. DEFINE L == Len(consts)
            w == Widths(consts)
            q == Popped(consts)
            m(n) == FieldValue(consts[L - n])
            e(n) == consts[L - n].bits
            P(n) == Power(2, n)
            T == {n \in Nat : q[n].value32 \in 0 .. P(w[n]) - 1}
<1>1. L \in Nat
  OBVIOUS
<1>2. /\ w[0] = 0
      /\ \A n \in 0 .. L : w[n] \in Nat
      /\ \A n \in 0 .. L - 1 : w[n + 1] = w[n] + e(n) /\ e(n) \in Nat
  BY LegalWidths
<1>3. /\ q[0] = Start
      /\ \A n \in 0 .. L - 1 : m(n) \in 0 .. P(e(n)) - 1 /\ q[n + 1].value32 = q[n].value32 + m(n) * P(w[n])
  BY LegalAccs
<1>4. P(0) = 1 /\ \A n \in Nat : P(n) \in Nat
  BY TwoPowers
<1>5. \A j, k \in Nat : P(j + k) = P(j) * P(k)
  BY TwoPowers
<1>. HIDE DEF L, w, q, m, e, P
<1>6. 0 \in T
  BY <1>2, <1>3, <1>4 DEF Start
<1>7. ASSUME NEW n \in 0 .. L - 1, n \in T PROVE n + 1 \in T
  <2>1. n \in Nat /\ n \in 0 .. L
    BY <1>1
  <2>2. P(w[n]) \in Nat /\ P(e(n)) \in Nat /\ P(w[n + 1]) = P(w[n]) * P(e(n))
    BY <1>2, <1>4, <1>5, <2>1
  <2>3. q[n].value32 \in 0 .. P(w[n]) - 1 /\ m(n) \in 0 .. P(e(n)) - 1
    BY <1>3, <1>7
  <2>4. q[n].value32 + m(n) * P(w[n]) \in 0 .. P(w[n]) * P(e(n)) - 1
    BY <2>2, <2>3, FieldFits
  <2>5. q[n + 1].value32 = q[n].value32 + m(n) * P(w[n])
    BY <1>3
  <2>. QED
    BY <2>1, <2>2, <2>4, <2>5
<1>. HIDE DEF T
<1>8. \A n \in 0 .. L : n \in T
  BY <1>1, <1>6, <1>7, InductionTo
<1>9. \A n \in 0 .. L : q[n].value32 \in 0 .. P(w[n]) - 1
  BY <1>8 DEF T
<1>. QED
  BY <1>9 DEF L, w, q, P

-----------------------------------------------------------------------------
(* Bits.                                                                   *)

LEMMA Quotient ==
  ASSUME NEW D \in Nat \ {0}, NEW q \in Int, NEW r \in 0 .. D - 1
  PROVE  (q * D + r) \div D = q /\ (q * D + r) % D = r
OBVIOUS

LEMMA Division ==
  ASSUME NEW D \in Nat \ {0}, NEW n \in Nat
  PROVE  n = (n \div D) * D + (n % D) /\ n \div D \in Nat /\ n % D \in 0 .. D - 1
OBVIOUS

\* A bit of a field, with other fields above it and below it.
LEMMA FieldBits ==
  ASSUME NEW off \in Nat, NEW bits \in Nat, NEW b \in 0 .. bits - 1,
         NEW a \in 0 .. Power(2, off) - 1, NEW N \in Nat, NEW r \in Nat
  PROVE  Bit(a + (N + r * Power(2, bits)) * Power(2, off), off + b) = Bit(N, b)
<1>. DEFINE D == Power(2, off)
            B == Power(2, b)
            E == Power(2, bits - b - 1)
            x == N + r * Power(2, bits)
<1>1. off \in Nat /\ b \in Nat /\ bits - b - 1 \in Nat /\ bits = b + ((bits - b - 1) + 1)
  OBVIOUS
<1>2. D \in Nat \ {0} /\ B \in Nat \ {0} /\ E \in Nat /\ Power(2, off + b) = D * B
  BY <1>1, TwoPowers
<1>3. Power(2, bits) = B * (2 * E)
  <2>1. Power(2, (bits - b - 1) + 1) = 2 * E /\ (bits - b - 1) + 1 \in Nat
    BY <1>1, TwoPowers
  <2>2. Power(2, b + ((bits - b - 1) + 1)) = B * Power(2, (bits - b - 1) + 1)
    BY <1>1, <2>1, TwoPowers
  <2>. QED
    BY <1>1, <2>1, <2>2
<1>4. a \in 0 .. D - 1 /\ x = N + r * (B * (2 * E))
  BY <1>3
<1>. HIDE DEF D, B, E, x
<1>5. x \in Nat
  <2>1. B * (2 * E) \in Nat
    BY <1>2
  <2>2. r * (B * (2 * E)) \in Nat
    BY <2>1
  <2>. QED
    BY <1>4, <2>2
<1>6. x \div B = N \div B + (r * E) * 2
  <2>1. N = (N \div B) * B + (N % B) /\ N \div B \in Nat /\ N % B \in 0 .. B - 1
    BY <1>2, Division
  <2>2. PICK u \in Nat, v \in 0 .. B - 1 : u = N \div B /\ v = N % B
    BY <2>1
  <2>3. r * E \in Nat
    BY <1>2
  <2>4. x = (u + (r * E) * 2) * B + v
    <3>1. N = u * B + v
      BY <2>1, <2>2
    <3>2. (u * B + v) + r * (B * (2 * E)) = (u + (r * E) * 2) * B + v
      BY <1>2
    <3>. QED
      BY <1>4, <3>1, <3>2
  <2>5. u + (r * E) * 2 \in Int
    BY <2>3
  <2>6. x \div B = u + (r * E) * 2
    BY <1>2, <2>4, <2>5, Quotient
  <2>. QED
    BY <2>2, <2>6
<1>7. (a + x * D) \div (D * B) = x \div B
  <2>1. x = (x \div B) * B + (x % B) /\ x \div B \in Nat /\ x % B \in 0 .. B - 1
    BY <1>2, <1>5, Division
  <2>2. PICK u \in Nat, v \in 0 .. B - 1 : u = x \div B /\ v = x % B
    BY <2>1
  <2>3. a + v * D \in 0 .. D * B - 1
    BY <1>2, <1>4, FieldFits
  <2>4. a + x * D = u * (D * B) + (a + v * D)
    <3>1. x = u * B + v
      BY <2>1, <2>2
    <3>2. a + (u * B + v) * D = u * (D * B) + (a + v * D)
      BY <1>2, <1>4
    <3>. QED
      BY <3>1, <3>2
  <2>5. D * B \in Nat \ {0}
    BY <1>2
  <2>6. (a + x * D) \div (D * B) = u
    BY <2>3, <2>4, <2>5, Quotient
  <2>. QED
    BY <2>2, <2>6
<1>8. (N \div B + (r * E) * 2) % 2 = (N \div B) % 2
  <2>1. N \div B \in Nat /\ r * E \in Nat
    BY <1>2
  <2>2. \A y, z \in Nat : (y + z * 2) % 2 = y % 2
    OBVIOUS
  <2>. QED
    BY <2>1, <2>2
<1>9. ((a + x * D) \div (D * B)) % 2 = (N \div B) % 2
  BY <1>6, <1>7, <1>8
<1>. QED
  BY <1>2, <1>9 DEF Bit, D, B, x

\* The word of a legal line, split at one of its fields, number k from the right.
LEMMA LegalSum ==
  ASSUME NEW consts \in Seq(Const), \A f \in DOMAIN consts : Legal(consts[f]),
         SumBits(consts) = Width, NEW k \in 0 .. Len(consts) - 1
  PROVE  \E r \in Nat :
           Word(consts).value32 = Popped(consts)[k].value32
             + (FieldValue(consts[Len(consts) - k])
                  + r * Power(2, consts[Len(consts) - k].bits)) * Power(2, Widths(consts)[k])
<1>. DEFINE L == Len(consts)
            w == Widths(consts)
            q == Popped(consts)
            m(n) == FieldValue(consts[L - n])
            e(n) == consts[L - n].bits
            P(n) == Power(2, n)
            a == q[k].value32
            Split(n, r, x) == /\ q[n].value32 = a + (m(k) + r * P(e(k))) * P(w[k])
                              /\ w[n] = w[k] + e(k) + x
            T == {j \in Nat : \E r \in Nat, x \in Nat : Split(k + 1 + j, r, x)}
<1>1. L \in Nat /\ k \in Nat /\ k \in 0 .. L - 1 /\ k \in 0 .. L
  OBVIOUS
<1>2. /\ w[0] = 0
      /\ \A n \in 0 .. L : w[n] \in Nat
      /\ \A n \in 0 .. L - 1 : w[n + 1] = w[n] + e(n) /\ e(n) \in Nat
  BY LegalWidths
<1>3. /\ \A n \in 0 .. L : q[n] \in Acc
      /\ \A n \in 0 .. L - 1 : m(n) \in 0 .. P(e(n)) - 1 /\ q[n + 1].value32 = q[n].value32 + m(n) * P(w[n])
  BY LegalAccs
<1>4. \A n \in Nat : P(n) \in Nat
  BY TwoPowers
<1>5. \A i1, j1 \in Nat : P(i1 + j1) = P(i1) * P(j1)
  BY TwoPowers
<1>. HIDE DEF L, w, q, m, e, P
<1>6. ASSUME NEW n \in 0 .. L - 1 PROVE m(n) \in Nat /\ e(n) \in Nat
  <2>1. e(n) \in Nat /\ m(n) \in 0 .. P(e(n)) - 1
    BY <1>2, <1>3
  <2>2. P(e(n)) \in Nat
    BY <1>4, <2>1
  <2>. QED
    BY <2>1, <2>2
<1>7. a \in Int
  BY <1>1, <1>3 DEF Acc
<1>8. a \in Int /\ m(k) \in Nat /\ P(e(k)) \in Nat /\ P(w[k]) \in Nat /\ e(k) \in Nat /\ w[k] \in Nat
  <2>1. m(k) \in Nat /\ e(k) \in Nat /\ w[k] \in Nat
    BY <1>1, <1>2, <1>6
  <2>. HIDE DEF a
  <2>. QED
    BY <1>4, <1>7, <2>1
<1>. HIDE DEF a
<1>9. 0 \in T
  <2>1. q[k + 1].value32 = q[k].value32 + m(k) * P(w[k]) /\ w[k + 1] = w[k] + e(k)
    BY <1>1, <1>2, <1>3
  <2>2. m(k) + 0 * P(e(k)) = m(k) /\ w[k] + e(k) + 0 = w[k] + e(k) /\ k + 1 + 0 = k + 1
    BY <1>1, <1>8
  <2>3. Split(k + 1 + 0, 0, 0)
    BY <2>1, <2>2 DEF a
  <2>. HIDE DEF Split
  <2>. QED
    BY <2>3
<1>10. ASSUME NEW j \in 0 .. L - k - 1 - 1, j \in T PROVE j + 1 \in T
  <2>. DEFINE n == k + 1 + j
  <2>1. j \in Nat /\ n \in 0 .. L - 1 /\ n \in 0 .. L /\ k + 1 + (j + 1) = n + 1
    BY <1>1
  <2>2. PICK r \in Nat, x \in Nat : Split(n, r, x)
    BY <1>10
  <2>. HIDE DEF n
  <2>3. m(n) \in Nat /\ e(n) \in Nat /\ P(x) \in Nat
    BY <1>4, <1>6, <2>1
  <2>4. w[n] = w[k] + e(k) + x
    BY <2>2
  <2>5. P(w[n]) = (P(w[k]) * P(e(k))) * P(x)
    <3>1. w[k] + e(k) \in Nat /\ w[n] = (w[k] + e(k)) + x
      BY <1>8, <2>4
    <3>2. P((w[k] + e(k)) + x) = P(w[k] + e(k)) * P(x)
      BY <1>5, <3>1
    <3>3. P(w[k] + e(k)) = P(w[k]) * P(e(k))
      BY <1>5, <1>8
    <3>. QED
      BY <3>1, <3>2, <3>3
  <2>6. q[n + 1].value32 = a + (m(k) + (r + m(n) * P(x)) * P(e(k))) * P(w[k])
    <3>1. q[n + 1].value32 = q[n].value32 + m(n) * P(w[n])
      BY <1>3, <2>1
    <3>2. PICK a1 \in Int, mk \in Nat, Ek \in Nat, Wk \in Nat, mn \in Nat, X \in Nat :
            a1 = a /\ mk = m(k) /\ Ek = P(e(k)) /\ Wk = P(w[k]) /\ mn = m(n) /\ X = P(x)
      BY <1>8, <2>3
    <3>3. (a1 + (mk + r * Ek) * Wk) + mn * ((Wk * Ek) * X) = a1 + (mk + (r + mn * X) * Ek) * Wk
      OBVIOUS
    <3>4. q[n].value32 = a1 + (mk + r * Ek) * Wk
      BY <2>2, <3>2
    <3>. QED
      BY <2>5, <3>1, <3>2, <3>3, <3>4
  <2>7. w[n + 1] = w[k] + e(k) + (x + e(n))
    <3>1. w[n + 1] = w[n] + e(n)
      BY <1>2, <2>1
    <3>. QED
      BY <1>8, <2>3, <2>4, <3>1
  <2>8. r + m(n) * P(x) \in Nat /\ x + e(n) \in Nat
    <3>1. m(n) * P(x) \in Nat
      BY <2>3
    <3>. QED
      BY <2>3, <3>1
  <2>9. Split(n + 1, r + m(n) * P(x), x + e(n))
    BY <2>6, <2>7
  <2>. HIDE DEF Split
  <2>10. Split(k + 1 + (j + 1), r + m(n) * P(x), x + e(n))
    BY <2>1, <2>9
  <2>. QED
    BY <2>1, <2>8, <2>10
<1>11. L - k - 1 \in T
  <2>. HIDE DEF T
  <2>1. L - k - 1 \in Nat /\ L - k - 1 \in 0 .. L - k - 1
    BY <1>1
  <2>. DEFINE M == L - k - 1
  <2>2. M \in Nat /\ \A j \in 0 .. M - 1 : j \in T => j + 1 \in T
    BY <1>10, <2>1
  <2>. HIDE DEF M
  <2>3. \A j \in 0 .. M : j \in T
    BY <1>9, <2>2, InductionTo
  <2>. QED
    BY <2>1, <2>3 DEF M
<1>12. PICK r \in Nat, x \in Nat : Split(k + 1 + (L - k - 1), r, x)
  BY <1>11
<1>13. k + 1 + (L - k - 1) = L
  BY <1>1
<1>14. q[L].value32 = a + (m(k) + r * P(e(k))) * P(w[k])
  BY <1>12, <1>13
<1>. QED
  BY <1>14 DEF Word, L, w, q, m, e, P, a

\* A legal line makes a word with the bits of its fields.
LEMMA LegalWord ==
  ASSUME NEW consts \in Seq(Const), \A f \in DOMAIN consts : Legal(consts[f]),
         SumBits(consts) = Width
  PROVE  /\ ~ Word(consts).error /\ Word(consts).num_bits = Width
         /\ Word(consts).value32 \in 0 .. Power(2, Width) - 1
         /\ \A f \in 1 .. Len(consts) : \A b \in 0 .. consts[f].bits - 1 :
              Bit(Word(consts).value32, Widths(consts)[Len(consts) - f] + b)
                = Bit(Numeral(consts[f].digits, SV_BASE_CHARS[consts[f].base]), b)
<1>. DEFINE L == Len(consts)
<1>1. L \in Nat /\ L \in 0 .. L
  OBVIOUS
<1>2. /\ Widths(consts)[L] = Width
      /\ \A n \in 0 .. L : Widths(consts)[n] \in Nat
      /\ \A n \in 0 .. L - 1 : consts[L - n].bits \in Nat
  BY LegalWidths
<1>3. /\ \A n \in 0 .. L : /\ ~ Popped(consts)[n].error
                           /\ Popped(consts)[n].num_bits = Widths(consts)[n]
      /\ \A n \in 0 .. L - 1 : FieldValue(consts[L - n]) \in 0 .. Power(2, consts[L - n].bits) - 1
  BY LegalAccs
<1>4. \A n \in 0 .. L : Popped(consts)[n].value32 \in 0 .. Power(2, Widths(consts)[n]) - 1
  BY LegalValues
<1>5. ASSUME NEW f \in 1 .. L, NEW b \in 0 .. consts[f].bits - 1
      PROVE  Bit(Word(consts).value32, Widths(consts)[L - f] + b) = Bit(FieldValue(consts[f]), b)
  <2>. DEFINE k == L - f
              off == Widths(consts)[k]
              a == Popped(consts)[k].value32
              N == FieldValue(consts[f])
              bits == consts[f].bits
  <2>1. k \in 0 .. L - 1 /\ k \in 0 .. L /\ L - k = f
    BY <1>1
  <2>2. off \in Nat /\ a \in 0 .. Power(2, off) - 1
    BY <1>2, <1>4, <2>1
  <2>3. bits \in Nat /\ N \in 0 .. Power(2, bits) - 1
    BY <1>2, <1>3, <2>1
  <2>. HIDE DEF k
  <2>4. PICK r \in Nat :
          Word(consts).value32 = Popped(consts)[k].value32
             + (FieldValue(consts[L - k])
                  + r * Power(2, consts[L - k].bits)) * Power(2, Widths(consts)[k])
    BY <2>1, LegalSum
  <2>5. Word(consts).value32 = a + (N + r * Power(2, bits)) * Power(2, off)
    BY <2>1, <2>4
  <2>6. b \in 0 .. bits - 1
    OBVIOUS
  <2>. HIDE DEF a, N, bits, off
  <2>7. N \in Nat
    BY <2>3, TwoPowers
  <2>8. Bit(a + (N + r * Power(2, bits)) * Power(2, off), off + b) = Bit(N, b)
    BY <2>2, <2>3, <2>6, <2>7, FieldBits
  <2>. QED
    BY <2>5, <2>8 DEF k, off, N
<1>. QED
  BY <1>1, <1>2, <1>3, <1>4, <1>5 DEF Word, FieldValue

\* Fields that all parse make a word of their widths, or an error.
LEMMA ParsedWord ==
  ASSUME NEW consts \in Seq(Const), \A f \in DOMAIN consts : consts[f].kind = "const"
  PROVE  Word(consts).error \/ Word(consts).num_bits = SumBits(consts)
<1>. DEFINE L == Len(consts)
            w == Widths(consts)
            q == Popped(consts)
            T == {n \in Nat : q[n].error \/ (~ q[n].ended /\ q[n].num_bits = w[n])}
<1>1. L \in Nat /\ \A f \in 1 .. L : consts[f] \in Const /\ consts[f].kind = "const"
  OBVIOUS
<1>2. \A f \in 1 .. L : consts[f].bits \in Nat
  BY <1>1, Bases
<1>3. /\ w[0] = 0
      /\ \A n \in 0 .. L - 1 : w[n + 1] = w[n] + consts[L - n].bits
  BY <1>1, <1>2, WidthsDefined
<1>4. /\ q[0] = Start
      /\ \A n \in 0 .. L : q[n] \in Acc
      /\ \A n \in 0 .. L - 1 : q[n + 1] = Pop(consts[L - n], q[n])
  BY PoppedDefined
<1>. HIDE DEF L, w, q
<1>5. 0 \in T
  BY <1>3, <1>4 DEF Start
<1>6. ASSUME NEW n \in 0 .. L - 1, n \in T PROVE n + 1 \in T
  <2>1. n \in Nat /\ n \in 0 .. L /\ L - n \in 1 .. L /\ n + 1 \in Nat
    BY <1>1
  <2>2. /\ consts[L - n].kind = "const" /\ q[n] \in Acc
        /\ q[n + 1] = Pop(consts[L - n], q[n]) /\ w[n + 1] = w[n] + consts[L - n].bits
    BY <1>1, <1>3, <1>4, <2>1
  <2>3. q[n].error \/ (~ q[n].ended /\ q[n].num_bits = w[n])
    BY <1>6
  <2>4. CASE q[n].error
    <3>1. q[n + 1] = q[n]
      BY <2>2, <2>4 DEF Pop
    <3>. QED
      BY <2>1, <2>4, <3>1
  <2>5. CASE ~ q[n].error
    <3>1. \/ q[n + 1] = [q[n] EXCEPT !.error = TRUE]
          \/ q[n + 1] = [q[n] EXCEPT !.value32 = @ + ConstValue(consts[L - n]) * Shift(q[n].num_bits),
                                     !.num_bits = @ + consts[L - n].bits]
      BY <2>2, <2>3, <2>5 DEF Pop
    <3>2. q[n + 1].error \/ (~ q[n + 1].ended /\ q[n + 1].num_bits = w[n + 1])
      BY <2>2, <2>3, <2>5, <3>1 DEF Acc
    <3>. QED
      BY <2>1, <3>2
  <2>. QED
    BY <2>4, <2>5
<1>. HIDE DEF T
<1>7. \A n \in 0 .. L : n \in T
  BY <1>1, <1>5, <1>6, InductionTo
<1>8. L \in T
  BY <1>1, <1>7
<1>. QED
  BY <1>8 DEF T, L, w, q, Word, SumBits

\* A field that does not parse is an error, if no empty one hides it.
LEMMA BadWord ==
  ASSUME NEW consts \in Seq(Const), NEW f \in DOMAIN consts, consts[f].kind = "bad",
         \A g \in DOMAIN consts : consts[g].kind # "empty"
  PROVE  Word(consts).error
<1>. DEFINE L == Len(consts)
            q == Popped(consts)
            T == {n \in Nat : ~ q[n].ended /\ (n > L - f => q[n].error)}
<1>1. L \in Nat /\ f \in 1 .. L /\ \A g \in 1 .. L : consts[g].kind # "empty"
  OBVIOUS
<1>2. /\ q[0] = Start
      /\ \A n \in 0 .. L : q[n] \in Acc
      /\ \A n \in 0 .. L - 1 : q[n + 1] = Pop(consts[L - n], q[n])
  BY PoppedDefined
<1>. HIDE DEF L, q
<1>3. 0 \in T
  BY <1>1, <1>2 DEF Start
<1>4. ASSUME NEW n \in 0 .. L - 1, n \in T PROVE n + 1 \in T
  <2>1. n \in Nat /\ n \in 0 .. L /\ L - n \in 1 .. L /\ n + 1 \in Nat
    BY <1>1
  <2>2. /\ consts[L - n].kind # "empty" /\ q[n] \in Acc
        /\ q[n + 1] = Pop(consts[L - n], q[n])
    BY <1>1, <1>2, <2>1
  <2>3. ~ q[n].ended /\ (n > L - f => q[n].error)
    BY <1>4
  <2>4. ~ q[n + 1].ended
    BY <2>2, <2>3 DEF Pop, Acc
  <2>5. q[n].error => q[n + 1].error
    BY <2>2 DEF Pop
  <2>6. n = L - f => q[n + 1].error
    <3>1. SUFFICES ASSUME n = L - f PROVE q[n + 1].error
      OBVIOUS
    <3>2. consts[L - n].kind = "bad"
      BY <1>1, <3>1
    <3>. QED
      BY <2>2, <2>3, <3>2 DEF Pop, Acc
  <2>. QED
    BY <1>1, <2>1, <2>3, <2>4, <2>5, <2>6
<1>. HIDE DEF T
<1>5. \A n \in 0 .. L : n \in T
  BY <1>1, <1>3, <1>4, InductionTo
<1>6. L \in T /\ L > L - f
  BY <1>1, <1>5
<1>. QED
  BY <1>6 DEF T, L, q, Word

-----------------------------------------------------------------------------
(* The conversion.                                                         *)

Chunk == [addr : Nat, data : Int]

TypeInv ==
  /\ verilog_lines \in Program
  /\ i \in 0 .. Len(verilog_lines)
  /\ pc \in {"begin", "program", "done"}
  /\ pc # "done" => i < Len(verilog_lines)
  /\ instr_cnt \in Nat
  /\ ret \in Seq(Chunk) /\ Len(ret) <= instr_cnt

\* The lines that make a chunk.
Converted(line) ==
  line.kind = "instr" /\ ~ Word(line.consts).error /\ Word(line.consts).num_bits = Width

LEMMA LinesDefined ==
  ASSUME verilog_lines \in Program
  PROVE  /\ Len(verilog_lines) \in Nat \ {0}
         /\ \A k \in 0 .. Len(verilog_lines) - 1 :
              Line(k) \in TextLine /\ Line(k) = verilog_lines[k + 1]
<1>1. verilog_lines \in Seq(TextLine) /\ verilog_lines # <<>>
  BY AssemblerAssumption
<1>2. Len(verilog_lines) \in Nat \ {0}
  BY <1>1
<1>3. ASSUME NEW k \in 0 .. Len(verilog_lines) - 1
      PROVE  Line(k) \in TextLine /\ Line(k) = verilog_lines[k + 1]
  <2>1. k + 1 \in 1 .. Len(verilog_lines) /\ k < Len(verilog_lines)
    BY <1>2
  <2>. QED
    BY <1>1, <2>1 DEF Line
<1>. QED
  BY <1>2, <1>3

LEMMA EmptyWord == Word(<<>>) = Start
<1>1. <<>> \in Seq(Const) /\ Len(<<>>) = 0
  OBVIOUS
<1>. QED
  BY <1>1, PoppedDefined DEF Word

LEMMA WordTypes ==
  ASSUME NEW consts \in Seq(Const)
  PROVE  Word(consts) \in Acc
<1>1. Len(consts) \in 0 .. Len(consts)
  OBVIOUS
<1>. QED
  BY <1>1, PoppedDefined DEF Word

LEMMA InstrConsts ==
  ASSUME NEW line \in TextLine, line.kind = "instr"
  PROVE  line.consts \in Seq(Const)
<1>1. line \in [kind : {"instr"}, consts : Seq(Const)]
  BY DEF TextLine
<1>. QED
  BY <1>1

LEMMA LegalConverts ==
  ASSUME NEW line \in TextLine, LegalLine(line)
  PROVE  Converted(line)
<1>1. /\ line.kind = "instr" /\ \A k \in DOMAIN line.consts : Legal(line.consts[k])
      /\ SumBits(line.consts) = Width
  BY DEF LegalLine
<1>2. line.consts \in Seq(Const)
  BY <1>1, InstrConsts
<1>3. ~ Word(line.consts).error /\ Word(line.consts).num_bits = Width
  BY <1>1, <1>2, LegalWord
<1>. QED
  BY <1>1, <1>3 DEF Converted

\* What InPlace takes for a line that must not be written.
Hopeless(line) ==
  \/ line.kind # "instr"
  \/ \E f \in DOMAIN line.consts :
       /\ line.consts[f].kind = "bad"
       /\ \A g \in DOMAIN line.consts : line.consts[g].kind # "empty"
  \/ /\ \A f \in DOMAIN line.consts : line.consts[f].kind = "const"
     /\ SumBits(line.consts) # Width

LEMMA HopelessFails ==
  ASSUME NEW line \in TextLine, Hopeless(line)
  PROVE  ~ Converted(line)
<1>1. CASE line.kind # "instr"
  BY <1>1 DEF Converted
<1>2. CASE line.kind = "instr"
  <2>1. line.consts \in Seq(Const)
    BY <1>2, InstrConsts
  <2>2. CASE \E f \in DOMAIN line.consts :
               /\ line.consts[f].kind = "bad"
               /\ \A g \in DOMAIN line.consts : line.consts[g].kind # "empty"
    <3>1. PICK f \in DOMAIN line.consts :
            /\ line.consts[f].kind = "bad"
            /\ \A g \in DOMAIN line.consts : line.consts[g].kind # "empty"
      BY <2>2
    <3>2. Word(line.consts).error
      BY <2>1, <3>1, BadWord
    <3>. QED
      BY <3>2 DEF Converted
  <2>3. CASE /\ \A f \in DOMAIN line.consts : line.consts[f].kind = "const"
             /\ SumBits(line.consts) # Width
    <3>1. Word(line.consts).error \/ Word(line.consts).num_bits = SumBits(line.consts)
      BY <2>1, <2>3, ParsedWord
    <3>. QED
      BY <2>3, <3>1 DEF Converted
  <2>. QED
    BY <1>2, <2>2, <2>3 DEF Hopeless
<1>. QED
  BY <1>1, <1>2

\* What ProcessLine does, said with Converted.
LEMMA LineProcessed ==
  ASSUME TypeInv, ProcessLine
  PROVE  /\ pc = "program" /\ i \in 0 .. Len(verilog_lines) - 1
         /\ Line(i) \in TextLine /\ Line(i).kind # "end"
         /\ Converted(Line(i)) =>
              /\ Word(Line(i).consts).value32 \in Int
              /\ ret' = Append(ret, [addr |-> instr_cnt, data |-> Word(Line(i).consts).value32])
         /\ ~ Converted(Line(i)) => ret' = ret /\ error' # "none"
         /\ error # "none" => error' # "none"
         /\ Converted(Line(i)) /\ i + 1 < Len(verilog_lines) => error' = error
         /\ pc' = (IF i + 1 < Len(verilog_lines) THEN "program" ELSE "done")
         /\ i' = i + 1 /\ instr_cnt' = instr_cnt + 1 /\ verilog_lines' = verilog_lines
<1>. DEFINE word == IF Line(i).kind = "instr" THEN Word(Line(i).consts) ELSE Word(<<>>)
            bad == word.error \/ word.num_bits # Width
            last == i + 1 >= Len(verilog_lines)
<1>1. /\ pc = "program" /\ Line(i).kind # "end"
      /\ ret' = IF bad THEN ret
                ELSE Append(ret, [addr |-> instr_cnt, data |-> word.value32])
      /\ error' = IF last THEN "no end" ELSE IF bad THEN "line" ELSE error
      /\ pc' = IF last THEN "done" ELSE pc
      /\ i' = i + 1 /\ instr_cnt' = instr_cnt + 1 /\ verilog_lines' = verilog_lines
  BY DEF ProcessLine
<1>2. Len(verilog_lines) \in Nat /\ i \in 0 .. Len(verilog_lines) - 1 /\ Line(i) \in TextLine
  <2>1. Len(verilog_lines) \in Nat
    BY LinesDefined DEF TypeInv
  <2>2. i \in 0 .. Len(verilog_lines) - 1
    <3>1. pc # "done"
      BY <1>1
    <3>. QED
      BY <2>1, <3>1 DEF TypeInv
  <2>. QED
    BY <2>1, <2>2, LinesDefined DEF TypeInv
<1>3. bad <=> ~ Converted(Line(i))
  <2>1. CASE Line(i).kind = "instr"
    BY <2>1 DEF Converted
  <2>2. CASE Line(i).kind # "instr"
    <3>1. word.num_bits = 0 /\ Width # 0
      BY <2>2, EmptyWord, AssemblerAssumption DEF Start
    <3>. QED
      BY <2>2, <3>1 DEF Converted
  <2>. QED
    BY <2>1, <2>2
<1>4. Converted(Line(i)) => word = Word(Line(i).consts) /\ Word(Line(i).consts).value32 \in Int
  <2>1. SUFFICES ASSUME Line(i).kind = "instr"
                 PROVE  Word(Line(i).consts).value32 \in Int
    BY DEF Converted
  <2>2. Word(Line(i).consts) \in Acc
    BY <1>2, <2>1, InstrConsts, WordTypes
  <2>. QED
    BY <2>2 DEF Acc
<1>5. last <=> ~ (i + 1 < Len(verilog_lines))
  BY <1>2
<1>. HIDE DEF word, bad, last
<1>. QED
  BY <1>1, <1>2, <1>3, <1>4, <1>5

LEMMA TypesKept ==
  ASSUME TypeInv, [Next]_vars
  PROVE  TypeInv'
<1>1. CASE FindBegin
  <2>1. Len(verilog_lines) \in Nat
    BY LinesDefined DEF TypeInv
  <2>2. i < Len(verilog_lines) /\ i \in Nat
    <3>1. pc # "done"
      BY <1>1 DEF FindBegin
    <3>. QED
      BY <2>1, <3>1 DEF TypeInv
  <2>3. /\ verilog_lines' = verilog_lines /\ instr_cnt' = instr_cnt /\ ret' = ret /\ i' = i + 1
        /\ pc' \in {"begin", "program", "done"}
        /\ pc' # "done" => ~ (i' >= Len(verilog_lines))
    BY <1>1 DEF FindBegin
  <2>. QED
    BY <2>1, <2>2, <2>3 DEF TypeInv
<1>2. CASE FindEnd
  BY <1>2 DEF FindEnd, TypeInv
<1>3. CASE ProcessLine
  <2>1. Len(verilog_lines) \in Nat
    BY LinesDefined DEF TypeInv
  <2>2. /\ i \in 0 .. Len(verilog_lines) - 1
        /\ pc' = (IF i + 1 < Len(verilog_lines) THEN "program" ELSE "done")
        /\ i' = i + 1 /\ instr_cnt' = instr_cnt + 1 /\ verilog_lines' = verilog_lines
    BY <1>3, LineProcessed
  <2>3. ret' \in Seq(Chunk) /\ Len(ret') <= instr_cnt'
    <3>1. CASE Converted(Line(i))
      <4>. DEFINE new == [addr |-> instr_cnt, data |-> Word(Line(i).consts).value32]
      <4>1. new \in Chunk /\ ret' = Append(ret, new)
        BY <1>3, <3>1, LineProcessed DEF Chunk, TypeInv
      <4>. HIDE DEF new
      <4>. QED
        BY <2>2, <4>1 DEF TypeInv
    <3>2. CASE ~ Converted(Line(i))
      <4>1. ret' = ret
        BY <1>3, <3>2, LineProcessed
      <4>. QED
        BY <2>2, <4>1 DEF TypeInv
    <3>. QED
      BY <3>1, <3>2
  <2>. QED
    BY <2>1, <2>2, <2>3 DEF TypeInv
<1>4. CASE Done \/ UNCHANGED vars
  BY <1>4 DEF Done, vars, TypeInv
<1>. QED
  BY <1>1, <1>2, <1>3, <1>4 DEF Next

LEMMA TypesAlways == Spec => []TypeInv
<1>1. Init => TypeInv
  <2>1. SUFFICES ASSUME Init PROVE TypeInv
    OBVIOUS
  <2>2. Len(verilog_lines) \in Nat \ {0}
    BY <2>1, LinesDefined DEF Init
  <2>. QED
    BY <2>1, <2>2 DEF Init, TypeInv
<1>. QED
  BY <1>1, TypesKept, PTL DEF Spec

\* The indices stay within the text and no more chunks are made than lines were
\* counted (the two loops of verilogToChunks).
THEOREM AssemblerTypes == Spec => []AssemblerTypeOK
<1>1. TypeInv => AssemblerTypeOK
  BY DEF TypeInv, AssemblerTypeOK
<1>. QED
  BY <1>1, TypesAlways, PTL

-----------------------------------------------------------------------------
(* The inductive invariant: the lines that were counted are the last ones  *)
(* before i, the first of them is behind the mark, and each made its chunk  *)
(* or an error.                                                            *)
IsBegin(k) ==
  /\ k \in 0 .. Len(verilog_lines) - 1
  /\ Line(k).kind = "begin"
  /\ \A j \in 0 .. k - 1 : Line(j).kind # "begin"

Counted(a) == Line(i - instr_cnt + a)

MarkInv ==
  /\ pc = "begin" => instr_cnt = 0 /\ \A j \in 0 .. i - 1 : Line(j).kind # "begin"
  /\ pc = "program" \/ instr_cnt > 0 => \E k \in Nat : IsBegin(k) /\ i = k + 1 + instr_cnt

ChunkInv ==
  \A k \in 1 .. Len(ret) :
    /\ ret[k].addr \in 0 .. instr_cnt - 1
    /\ \A j \in 1 .. k - 1 : ret[j].addr < ret[k].addr
    /\ Converted(Counted(ret[k].addr))
    /\ ret[k].data = Word(Counted(ret[k].addr).consts).value32

LineInv ==
  \A a \in 0 .. instr_cnt - 1 :
    /\ Converted(Counted(a)) => \E k \in 1 .. Len(ret) : ret[k].addr = a
    /\ ~ Converted(Counted(a)) => error # "none"

ConvInv == TypeInv /\ MarkInv /\ ChunkInv /\ LineInv

LEMMA BeginFound ==
  ASSUME NEW k \in Nat, verilog_lines \in Program, IsBegin(k)
  PROVE  Begin = k
<1>1. Len(verilog_lines) \in Nat
  BY LinesDefined
<1>2. IsBegin(Begin)
  BY DEF IsBegin, Begin
<1>3. Begin \in Nat /\ ~ (Begin < k) /\ ~ (k < Begin)
  BY <1>1, <1>2 DEF IsBegin
<1>. QED
  BY <1>3

LEMMA ConversionKept ==
  ASSUME ConvInv, [Next]_vars
  PROVE  ConvInv'
<1>0. TypeInv'
  BY TypesKept DEF ConvInv
<1>1. Len(verilog_lines) \in Nat /\ i \in Nat /\ instr_cnt \in Nat /\ i <= Len(verilog_lines)
  BY LinesDefined DEF ConvInv, TypeInv
<1>2. verilog_lines' = verilog_lines
  BY DEF Next, FindBegin, FindEnd, ProcessLine, Done, vars
<1>3. \A k : Line(k)' = Line(k)
  BY <1>2 DEF Line
<1>4. \A k : IsBegin(k)' <=> IsBegin(k)
  BY <1>2, <1>3 DEF IsBegin
<1>5. CASE FindBegin
  <2>1. pc = "begin" /\ i' = i + 1 /\ instr_cnt' = instr_cnt /\ ret' = ret /\ instr_cnt = 0
    BY <1>5 DEF FindBegin, ConvInv, MarkInv
  <2>2. Len(ret) = 0 /\ i < Len(verilog_lines)
    BY <2>1 DEF ConvInv, TypeInv
  <2>3. ChunkInv' /\ LineInv'
    BY <2>1, <2>2 DEF ChunkInv, LineInv
  <2>4. \A j \in 0 .. i - 1 : Line(j).kind # "begin"
    BY <2>1 DEF ConvInv, MarkInv
  <2>5. CASE pc' = "begin"
    <3>1. Line(i).kind # "begin"
      BY <1>5, <2>5 DEF FindBegin
    <3>2. \A j \in 0 .. i' - 1 : Line(j)'.kind # "begin"
      BY <1>1, <1>3, <2>1, <2>4, <3>1
    <3>3. MarkInv'
      BY <2>1, <2>5, <3>2 DEF MarkInv
    <3>. QED
      BY <1>0, <2>3, <3>3 DEF ConvInv
  <2>6. CASE pc' = "program"
    <3>1. Line(i).kind = "begin"
      BY <1>5, <2>6 DEF FindBegin
    <3>2. IsBegin(i)
      BY <1>1, <2>2, <2>4, <3>1 DEF IsBegin
    <3>3. i' = i + 1 + instr_cnt' /\ i \in Nat
      BY <1>1, <2>1
    <3>4. \E k \in Nat : IsBegin(k)' /\ i' = k + 1 + instr_cnt'
      BY <1>4, <3>2, <3>3
    <3>5. MarkInv'
      BY <2>6, <3>4 DEF MarkInv
    <3>. QED
      BY <1>0, <2>3, <3>5 DEF ConvInv
  <2>7. CASE pc' = "done"
    <3>1. MarkInv'
      BY <2>1, <2>7 DEF MarkInv
    <3>. QED
      BY <1>0, <2>3, <3>1 DEF ConvInv
  <2>. QED
    BY <1>0, <2>5, <2>6, <2>7 DEF TypeInv
<1>6. CASE FindEnd
  <2>1. /\ pc = "program" /\ pc' = "done"
        /\ i' = i /\ instr_cnt' = instr_cnt /\ ret' = ret /\ error' = error
    BY <1>6 DEF FindEnd
  <2>2. \A a : Counted(a)' = Counted(a)
    BY <1>3, <2>1 DEF Counted
  <2>3. MarkInv'
    BY <1>4, <2>1 DEF MarkInv, ConvInv
  <2>4. ChunkInv'
    BY <2>1, <2>2 DEF ChunkInv, ConvInv
  <2>5. LineInv'
    BY <2>1, <2>2 DEF LineInv, ConvInv
  <2>. QED
    BY <1>0, <2>3, <2>4, <2>5 DEF ConvInv
<1>7. CASE ProcessLine
  <2>1. /\ pc = "program" /\ i \in 0 .. Len(verilog_lines) - 1
        /\ pc' = (IF i + 1 < Len(verilog_lines) THEN "program" ELSE "done")
        /\ i' = i + 1 /\ instr_cnt' = instr_cnt + 1
        /\ error # "none" => error' # "none"
        /\ ~ Converted(Line(i)) => ret' = ret /\ error' # "none"
        /\ Converted(Line(i)) =>
             ret' = Append(ret, [addr |-> instr_cnt, data |-> Word(Line(i).consts).value32])
    BY <1>7, LineProcessed DEF ConvInv
  <2>2. i' - instr_cnt' = i - instr_cnt /\ i - instr_cnt + instr_cnt = i /\ pc' # "begin"
    BY <1>1, <2>1
  <2>3. \A a : Counted(a)' = Counted(a)
    BY <1>3, <2>2 DEF Counted
  <2>4. Counted(instr_cnt) = Line(i)
    BY <2>2 DEF Counted
  <2>5. MarkInv'
    <3>1. PICK k \in Nat : IsBegin(k) /\ i = k + 1 + instr_cnt
      BY <2>1 DEF ConvInv, MarkInv
    <3>2. IsBegin(k)' /\ i' = k + 1 + instr_cnt'
      BY <1>1, <1>4, <2>1, <3>1
    <3>. QED
      BY <2>2, <3>2 DEF MarkInv
  <2>6. ret \in Seq(Chunk) /\ Len(ret) \in Nat
    BY DEF ConvInv, TypeInv
  <2>7. CASE ~ Converted(Line(i))
    <3>1. ret' = ret /\ error' # "none"
      BY <2>1, <2>7
    <3>2. ChunkInv'
      BY <1>1, <2>1, <2>3, <3>1 DEF ChunkInv, ConvInv
    <3>3. ASSUME NEW a \in 0 .. instr_cnt' - 1
          PROVE  Converted(Counted(a)) => \E k \in 1 .. Len(ret) : ret[k].addr = a
      <4>1. CASE a = instr_cnt
        BY <2>4, <2>7, <4>1
      <4>2. CASE a # instr_cnt
        <5>1. a \in 0 .. instr_cnt - 1
          BY <1>1, <2>1, <4>2
        <5>. QED
          BY <5>1 DEF LineInv, ConvInv
      <4>. QED
        BY <4>1, <4>2
    <3>4. LineInv'
      BY <2>3, <3>1, <3>3 DEF LineInv
    <3>. QED
      BY <1>0, <2>5, <3>2, <3>4 DEF ConvInv
  <2>8. CASE Converted(Line(i))
    <3>. DEFINE new == [addr |-> instr_cnt, data |-> Word(Line(i).consts).value32]
    <3>1. ret' = Append(ret, new)
      BY <2>1, <2>8
    <3>2. new.addr = instr_cnt /\ new.data = Word(Line(i).consts).value32
      OBVIOUS
    <3>. HIDE DEF new
    <3>3. /\ Len(ret') = Len(ret) + 1 /\ ret'[Len(ret) + 1] = new
          /\ \A k \in 1 .. Len(ret) : ret'[k] = ret[k]
      BY <2>6, <3>1
    <3>4. ASSUME NEW k \in 1 .. Len(ret)
          PROVE  /\ ret'[k].addr \in 0 .. instr_cnt' - 1 /\ ret'[k].addr < instr_cnt
                 /\ \A j \in 1 .. k - 1 : ret'[j].addr < ret'[k].addr
                 /\ Converted(Counted(ret'[k].addr))
                 /\ ret'[k].data = Word(Counted(ret'[k].addr).consts).value32
      <4>1. /\ ret[k].addr \in 0 .. instr_cnt - 1
            /\ \A j \in 1 .. k - 1 : ret[j].addr < ret[k].addr
            /\ Converted(Counted(ret[k].addr))
            /\ ret[k].data = Word(Counted(ret[k].addr).consts).value32
        BY DEF ChunkInv, ConvInv
      <4>2. \A j \in 1 .. k - 1 : j \in 1 .. Len(ret)
        BY <2>6
      <4>3. ret'[k] = ret[k] /\ \A j \in 1 .. k - 1 : ret'[j] = ret[j]
        BY <3>3, <4>2
      <4>4. \A x \in 0 .. instr_cnt - 1 : x \in 0 .. instr_cnt' - 1 /\ x < instr_cnt
        BY <1>1, <2>1
      <4>5. ret'[k].addr \in 0 .. instr_cnt' - 1 /\ ret'[k].addr < instr_cnt
        BY <4>1, <4>3, <4>4
      <4>6. \A j \in 1 .. k - 1 : ret'[j].addr < ret'[k].addr
        BY <4>1, <4>3
      <4>. QED
        BY <4>1, <4>3, <4>5, <4>6
    <3>5. ChunkInv'
      <4>1. ASSUME NEW k \in 1 .. Len(ret')
            PROVE  /\ ret'[k].addr \in 0 .. instr_cnt' - 1
                   /\ \A j \in 1 .. k - 1 : ret'[j].addr < ret'[k].addr
                   /\ Converted(Counted(ret'[k].addr))
                   /\ ret'[k].data = Word(Counted(ret'[k].addr).consts).value32
        <5>1. CASE k = Len(ret) + 1
          <6>1. ret'[k] = new /\ \A j \in 1 .. k - 1 : j \in 1 .. Len(ret)
            BY <2>6, <3>3, <5>1
          <6>2. ret'[k].addr = instr_cnt /\ \A j \in 1 .. k - 1 : ret'[j].addr < instr_cnt
            BY <3>2, <3>4, <6>1
          <6>3. instr_cnt \in 0 .. instr_cnt' - 1
            BY <1>1, <2>1
          <6>. QED
            BY <2>4, <2>8, <3>2, <6>1, <6>2, <6>3
        <5>2. CASE k # Len(ret) + 1
          <6>1. k \in 1 .. Len(ret)
            BY <2>6, <3>3, <5>2
          <6>. QED
            BY <3>4, <6>1
        <5>. QED
          BY <5>1, <5>2
      <4>. QED
        BY <2>3, <4>1 DEF ChunkInv
    <3>6. LineInv'
      <4>1. ASSUME NEW a \in 0 .. instr_cnt' - 1
            PROVE  /\ Converted(Counted(a)) => \E k \in 1 .. Len(ret') : ret'[k].addr = a
                   /\ ~ Converted(Counted(a)) => error' # "none"
        <5>1. CASE a = instr_cnt
          <6>1. Len(ret) + 1 \in 1 .. Len(ret') /\ ret'[Len(ret) + 1].addr = a
            BY <2>6, <3>2, <3>3, <5>1
          <6>. QED
            BY <2>4, <2>8, <5>1, <6>1
        <5>2. CASE a # instr_cnt
          <6>1. a \in 0 .. instr_cnt - 1
            BY <1>1, <2>1, <5>2
          <6>2. /\ Converted(Counted(a)) => \E k \in 1 .. Len(ret) : ret[k].addr = a
                /\ ~ Converted(Counted(a)) => error # "none"
            BY <6>1 DEF LineInv, ConvInv
          <6>3. \A k \in 1 .. Len(ret) : k \in 1 .. Len(ret') /\ ret'[k] = ret[k]
            BY <2>6, <3>3
          <6>. QED
            BY <2>1, <6>2, <6>3
        <5>. QED
          BY <5>1, <5>2
      <4>. QED
        BY <2>3, <4>1 DEF LineInv
    <3>. QED
      BY <1>0, <2>5, <3>5, <3>6 DEF ConvInv
  <2>. QED
    BY <2>7, <2>8
<1>8. CASE Done \/ UNCHANGED vars
  <2>1. i' = i /\ instr_cnt' = instr_cnt /\ ret' = ret /\ error' = error /\ pc' = pc
    BY <1>8 DEF Done, vars
  <2>2. \A a : Counted(a)' = Counted(a)
    BY <1>3, <2>1 DEF Counted
  <2>3. MarkInv'
    BY <1>3, <1>4, <2>1 DEF MarkInv, ConvInv
  <2>4. ChunkInv'
    BY <2>1, <2>2 DEF ChunkInv, ConvInv
  <2>5. LineInv'
    BY <2>1, <2>2 DEF LineInv, ConvInv
  <2>. QED
    BY <1>0, <2>3, <2>4, <2>5 DEF ConvInv
<1>. QED
  BY <1>5, <1>6, <1>7, <1>8 DEF Next

LEMMA ConversionAlways == Spec => []ConvInv
<1>1. Init => ConvInv
  <2>1. SUFFICES ASSUME Init PROVE ConvInv
    OBVIOUS
  <2>2. Len(verilog_lines) \in Nat \ {0}
    BY <2>1, LinesDefined DEF Init
  <2>3. TypeInv
    BY <2>1, <2>2 DEF Init, TypeInv
  <2>4. MarkInv
    BY <2>1 DEF Init, MarkInv
  <2>5. ChunkInv /\ LineInv
    BY <2>1 DEF Init, ChunkInv, LineInv
  <2>. QED
    BY <2>3, <2>4, <2>5 DEF ConvInv
<1>. QED
  BY <1>1, ConversionKept, PTL DEF Spec

\* The line of an address, as the properties name it.
LEMMA CountedLines ==
  ASSUME ConvInv, NEW a \in 0 .. instr_cnt - 1
  PROVE  Counted(a) = Line(Begin + 1 + a) /\ Counted(a) \in TextLine
<1>1. /\ Len(verilog_lines) \in Nat /\ i \in Nat /\ i <= Len(verilog_lines) /\ instr_cnt \in Nat
      /\ verilog_lines \in Program
  BY LinesDefined DEF ConvInv, TypeInv
<1>2. PICK k \in Nat : IsBegin(k) /\ i = k + 1 + instr_cnt
  BY <1>1 DEF ConvInv, MarkInv
<1>3. Begin = k
  BY <1>1, <1>2, BeginFound
<1>4. i - instr_cnt + a = k + 1 + a /\ k + 1 + a \in 0 .. Len(verilog_lines) - 1
  BY <1>1, <1>2
<1>5. Line(k + 1 + a) \in TextLine
  BY <1>1, <1>4, LinesDefined
<1>. QED
  BY <1>3, <1>4, <1>5 DEF Counted

\* The chunk of a legal line holds every bit of every field in its place, and no
\* more than Width bits (the loops of verilogToChunks that pop the constants).
THEOREM WordsExact == Spec => []ExactWords
<1>1. ASSUME ConvInv PROVE ExactWords
  <2>1. SUFFICES ASSUME NEW k \in 1 .. Len(ret), LegalLine(LineOf(ret[k]))
                 PROVE  LET consts == LineOf(ret[k]).consts
                            right(f) == Widths(consts)[Len(consts) - f] IN
                        /\ ret[k].data \in 0 .. Power(2, Width) - 1
                        /\ \A f \in 1 .. Len(consts) : \A b \in 0 .. consts[f].bits - 1 :
                             Bit(ret[k].data, right(f) + b)
                               = Bit(Numeral(consts[f].digits, SV_BASE_CHARS[consts[f].base]), b)
    BY DEF ExactWords
  <2>. DEFINE line == LineOf(ret[k])
  <2>2. /\ ret[k].addr \in 0 .. instr_cnt - 1
        /\ ret[k].data = Word(Counted(ret[k].addr).consts).value32
    BY <1>1 DEF ConvInv, ChunkInv
  <2>3. Counted(ret[k].addr) = line /\ line \in TextLine
    BY <1>1, <2>2, CountedLines DEF LineOf
  <2>4. LegalLine(line)
    BY <2>1
  <2>. HIDE DEF line
  <2>5. /\ line.kind = "instr" /\ \A f \in DOMAIN line.consts : Legal(line.consts[f])
        /\ SumBits(line.consts) = Width
    BY <2>4 DEF LegalLine
  <2>. DEFINE consts == line.consts
  <2>6. consts \in Seq(Const)
    BY <2>3, <2>5, InstrConsts
  <2>7. ret[k].data = Word(consts).value32
    BY <2>2, <2>3
  <2>. HIDE DEF consts
  <2>8. (\A f \in DOMAIN consts : Legal(consts[f])) /\ SumBits(consts) = Width
    BY <2>5 DEF consts
  <2>9. /\ Word(consts).value32 \in 0 .. Power(2, Width) - 1
        /\ \A f \in 1 .. Len(consts) : \A b \in 0 .. consts[f].bits - 1 :
             Bit(Word(consts).value32, Widths(consts)[Len(consts) - f] + b)
               = Bit(Numeral(consts[f].digits, SV_BASE_CHARS[consts[f].base]), b)
    BY <2>6, <2>8, LegalWord
  <2>. QED
    BY <2>7, <2>9 DEF consts, line
<1>. QED
  BY <1>1, ConversionAlways, PTL

\* Each address holds the word of the line at its place, also behind lines that
\* failed, and what makes no word is written nowhere and reported (the catch of
\* verilogToChunks, after which instr_cnt goes on).
THEOREM WordsInPlace == Spec => []InPlace
<1>1. ASSUME ConvInv PROVE InPlace
  <2>1. \A k \in 1 .. Len(ret) : \A j \in 1 .. k - 1 : ret[j].addr < ret[k].addr
    BY <1>1 DEF ConvInv, ChunkInv
  <2>2. ASSUME NEW a \in 0 .. instr_cnt - 1
        PROVE  LET line == Line(Begin + 1 + a)
                   written == \E k \in 1 .. Len(ret) : ret[k].addr = a IN
               /\ LegalLine(line) => written
               /\ Hopeless(line) => ~ written /\ error # "none"
    <3>. DEFINE line == Line(Begin + 1 + a)
    <3>1. Counted(a) = line /\ line \in TextLine
      BY <1>1, CountedLines
    <3>. HIDE DEF line
    <3>2. /\ Converted(line) => \E k \in 1 .. Len(ret) : ret[k].addr = a
          /\ ~ Converted(line) => error # "none"
      BY <1>1, <3>1 DEF ConvInv, LineInv
    <3>3. \A k \in 1 .. Len(ret) : ret[k].addr = a => Converted(line)
      BY <1>1, <3>1 DEF ConvInv, ChunkInv
    <3>4. LegalLine(line) => Converted(line)
      BY <3>1, LegalConverts
    <3>5. Hopeless(line) => ~ Converted(line)
      BY <3>1, HopelessFails
    <3>. QED
      BY <3>2, <3>3, <3>4, <3>5 DEF line
  <2>. QED
    BY <2>1, <2>2 DEF InPlace, Hopeless
<1>. QED
  BY <1>1, ConversionAlways, PTL

-----------------------------------------------------------------------------
(* Programs of legal lines between marks.                                  *)
Marked ==
  /\ Len(verilog_lines) >= 3
  /\ verilog_lines[1].kind = "begin" /\ Line(Len(verilog_lines) - 1).kind = "end"
  /\ \A j \in 2 .. Len(verilog_lines) - 1 : LegalLine(verilog_lines[j])

MarkedInv ==
  /\ TypeInv
  /\ Marked =>
       /\ error = "none"
       /\ pc = "begin" => i = 0 /\ instr_cnt = 0
       /\ pc # "begin" => i = 1 + instr_cnt /\ Len(ret) = instr_cnt
       /\ pc # "begin" => i <= Len(verilog_lines) - 1
       /\ pc = "done" => i = Len(verilog_lines) - 1

LEMMA MarkedKept ==
  ASSUME MarkedInv, [Next]_vars
  PROVE  MarkedInv'
<1>0. TypeInv /\ TypeInv'
  BY TypesKept DEF MarkedInv
<1>1. /\ Len(verilog_lines) \in Nat /\ i \in Nat /\ instr_cnt \in Nat /\ ret \in Seq(Chunk)
      /\ Len(ret) \in Nat
  BY <1>0, LinesDefined DEF TypeInv
<1>2. verilog_lines' = verilog_lines
  BY DEF Next, FindBegin, FindEnd, ProcessLine, Done, vars
<1>3. \A k : Line(k)' = Line(k)
  BY <1>2 DEF Line
<1>4. Marked' <=> Marked
  BY <1>2, <1>3 DEF Marked
<1>5. SUFFICES ASSUME Marked
               PROVE  /\ error' = "none"
                      /\ pc' = "begin" => i' = 0 /\ instr_cnt' = 0
                      /\ pc' # "begin" => i' = 1 + instr_cnt' /\ Len(ret') = instr_cnt'
                      /\ pc' # "begin" => i' <= Len(verilog_lines) - 1
                      /\ pc' = "done" => i' = Len(verilog_lines) - 1
  BY <1>0, <1>2, <1>4 DEF MarkedInv
<1>6. /\ Len(verilog_lines) >= 3
      /\ Line(0).kind = "begin" /\ Line(Len(verilog_lines) - 1).kind = "end"
      /\ \A k \in 1 .. Len(verilog_lines) - 2 : LegalLine(Line(k))
  <2>1. Len(verilog_lines) >= 3 /\ verilog_lines[1].kind = "begin"
        /\ Line(Len(verilog_lines) - 1).kind = "end"
        /\ \A j \in 2 .. Len(verilog_lines) - 1 : LegalLine(verilog_lines[j])
    BY <1>5 DEF Marked
  <2>2. \A k \in 0 .. Len(verilog_lines) - 1 : Line(k) = verilog_lines[k + 1]
    BY <1>0, LinesDefined DEF TypeInv
  <2>3. ASSUME NEW k \in 1 .. Len(verilog_lines) - 2 PROVE LegalLine(Line(k))
    <3>1. k + 1 \in 2 .. Len(verilog_lines) - 1 /\ k \in 0 .. Len(verilog_lines) - 1
      BY <1>1
    <3>. QED
      BY <2>1, <2>2, <3>1
  <2>4. 0 \in 0 .. Len(verilog_lines) - 1 /\ 0 + 1 = 1
    BY <1>1, <2>1
  <2>5. Line(0) = verilog_lines[1]
    BY <2>2, <2>4
  <2>. QED
    BY <2>1, <2>3, <2>5
<1>7. /\ error = "none"
      /\ pc = "begin" => i = 0 /\ instr_cnt = 0
      /\ pc # "begin" => i = 1 + instr_cnt /\ Len(ret) = instr_cnt
      /\ pc # "begin" => i <= Len(verilog_lines) - 1
      /\ pc = "done" => i = Len(verilog_lines) - 1
  BY <1>5 DEF MarkedInv
<1>8. CASE FindBegin
  <2>1. pc = "begin" /\ i' = i + 1
    BY <1>8 DEF FindBegin
  <2>2. pc = "begin" /\ i = 0 /\ i' = 1 /\ ~ (i' >= Len(verilog_lines))
    BY <1>1, <1>6, <1>7, <2>1
  <2>3. pc' = "program" /\ error' = error /\ instr_cnt' = instr_cnt /\ ret' = ret
    BY <1>6, <1>8, <2>2 DEF FindBegin
  <2>4. instr_cnt = 0 /\ Len(ret) = 0
    BY <1>0, <1>1, <1>7, <2>2 DEF TypeInv
  <2>. QED
    BY <1>1, <1>6, <1>7, <2>2, <2>3, <2>4
<1>9. CASE FindEnd
  <2>1. /\ pc = "program" /\ Line(i).kind = "end" /\ pc' = "done"
        /\ i' = i /\ instr_cnt' = instr_cnt /\ ret' = ret /\ error' = error
    BY <1>9 DEF FindEnd
  <2>2. i = Len(verilog_lines) - 1
    <3>1. ~ i \in 1 .. Len(verilog_lines) - 2
      BY <1>6, <2>1 DEF LegalLine
    <3>. QED
      BY <1>1, <1>7, <2>1, <3>1
  <2>. QED
    BY <1>7, <2>1, <2>2
<1>10. CASE ProcessLine
  <2>1. /\ pc = "program" /\ i \in 0 .. Len(verilog_lines) - 1
        /\ Line(i) \in TextLine /\ Line(i).kind # "end"
    BY <1>0, <1>10, LineProcessed
  <2>2. i \in 1 .. Len(verilog_lines) - 2
    <3>1. i # Len(verilog_lines) - 1
      BY <1>6, <2>1
    <3>. QED
      BY <1>1, <1>7, <2>1, <3>1
  <2>3. Converted(Line(i)) /\ i + 1 < Len(verilog_lines)
    BY <1>1, <1>6, <2>1, <2>2, LegalConverts
  <2>4. /\ ret' = Append(ret, [addr |-> instr_cnt, data |-> Word(Line(i).consts).value32])
        /\ error' = error /\ pc' = "program" /\ i' = i + 1 /\ instr_cnt' = instr_cnt + 1
    BY <1>0, <1>10, <2>3, LineProcessed
  <2>5. Len(ret') = Len(ret) + 1
    BY <1>1, <2>4
  <2>. QED
    BY <1>1, <1>7, <2>1, <2>2, <2>4, <2>5
<1>11. CASE Done \/ UNCHANGED vars
  BY <1>2, <1>7, <1>11 DEF Done, vars
<1>. QED
  BY <1>8, <1>9, <1>10, <1>11 DEF Next

\* A program of legal lines between marks that is converted is converted without
\* error, to a chunk per line (what Converts promises besides termination).
THEOREM MarkedProgramsConvert == Spec => [](pc = "done" => Complete)
<1>1. Init => MarkedInv
  <2>1. SUFFICES ASSUME Init PROVE MarkedInv
    OBVIOUS
  <2>2. Len(verilog_lines) \in Nat \ {0}
    BY <2>1, LinesDefined DEF Init
  <2>3. TypeInv
    BY <2>1, <2>2 DEF Init, TypeInv
  <2>. QED
    BY <2>1, <2>3 DEF Init, MarkedInv
<1>2. ASSUME MarkedInv PROVE pc = "done" => Complete
  <2>1. SUFFICES ASSUME pc = "done", NEW k \in 1 .. Len(verilog_lines) - 2,
                        verilog_lines[1].kind = "begin",
                        Line(Len(verilog_lines) - 1).kind = "end",
                        \A j \in 2 .. Len(verilog_lines) - 1 : LegalLine(verilog_lines[j])
                 PROVE  error = "none" /\ Len(ret) = Len(verilog_lines) - 2
    BY DEF Complete
  <2>2. Len(verilog_lines) \in Nat /\ instr_cnt \in Nat
    BY <1>2, LinesDefined DEF MarkedInv, TypeInv
  <2>3. Marked
    BY <2>1, <2>2 DEF Marked
  <2>. QED
    BY <1>2, <2>1, <2>2, <2>3 DEF MarkedInv
<1>. QED
  BY <1>1, <1>2, MarkedKept, PTL DEF Spec

=============================================================================
