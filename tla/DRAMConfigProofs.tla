-------------------------- MODULE DRAMConfigProofs --------------------------
(***************************************************************************)
(* What the constructor of DRAMConfig lets through, what memory that is    *)
(* and what becomes of its addresses, for integers of any width.  An       *)
(* argument of its own is needed for numbers that are computed bit by bit: *)
(* induction over the natural numbers, for sets, comes first, then powers  *)
(* of two and the numbers that sets of positions spell.                    *)
(***************************************************************************)
EXTENDS DRAMConfig, FiniteSetTheorems, TLAPS

-----------------------------------------------------------------------------
(* Induction *)

(* A set of natural numbers with 0 and every successor is Nat, as no       *)
(* finite sets of naturals get smaller for ever.                           *)
LEMMA SetInduction ==
  ASSUME NEW S, S \subseteq Nat, 0 \in S, \A n \in S : n + 1 \in S
  PROVE  S = Nat
<1> DEFINE Below(n) == 0 .. n - 1
           T == {Below(n) : n \in Nat \ S}
           R == StrictSubsetOrdering(Nat)
<1> SUFFICES ASSUME NEW k \in Nat \ S PROVE FALSE
  OBVIOUS
<1>1. IsWellFoundedOn(R, FiniteSubsetsOf(Nat))
  BY FS_StrictSubsetOrderingWellFounded
<1>2. \A n \in Nat : Below(n) \subseteq Nat /\ IsFiniteSet(Below(n))
  BY FS_Interval
<1>3. T \subseteq FiniteSubsetsOf(Nat) /\ Below(k) \in T
  BY <1>2 DEF FiniteSubsetsOf
<1>4. \E x \in T : \A y \in T : ~ (<<y, x>> \in R)
  <2> HIDE DEF R, T, Below
  <2> QED BY <1>1, <1>3, WFMin, Zenon
<1>5. PICK m \in Nat \ S : \A n \in Nat \ S : ~ (<<Below(n), Below(m)>> \in R)
  BY <1>4
<1>6. m - 1 \in Nat /\ m - 1 \notin S
  OBVIOUS
<1>7. /\ Below(m - 1) \in SUBSET Nat /\ Below(m) \in SUBSET Nat
      /\ Below(m - 1) \subseteq Below(m)
  BY <1>6
<1>8. m - 1 \in Below(m) /\ m - 1 \notin Below(m - 1)
  BY <1>6
<1>9. <<Below(m - 1), Below(m)>> \in R
  <2> HIDE DEF Below
  <2> QED BY <1>7, <1>8 DEF StrictSubsetOrdering
<1>10. QED
  BY <1>5, <1>6, <1>9

(* Every set of natural numbers that is not empty has a least element. *)
LEMMA LeastElement ==
  ASSUME NEW S, S \subseteq Nat, S # {}
  PROVE  \E x \in S : \A y \in S : x <= y
<1> SUFFICES ASSUME \A x \in S : \E y \in S : y < x PROVE FALSE
  OBVIOUS
<1> DEFINE T == {n \in Nat : \A i \in 0 .. n : i \notin S}
<1>1. 0 \in T
  OBVIOUS
<1>2. ASSUME NEW n \in T PROVE n + 1 \in T
  <2>1. n \in Nat /\ \A i \in 0 .. n + 1 : i \in 0 .. n \/ i = n + 1
    OBVIOUS
  <2>2. \A y \in S : y < n + 1 => y \in 0 .. n
    OBVIOUS
  <2>3. n + 1 \notin S
    BY <2>2
  <2>4. QED
    BY <2>1, <2>3
<1>3. T = Nat
  BY <1>1, <1>2, SetInduction
<1>4. \A n \in Nat : n \in 0 .. n
  OBVIOUS
<1>5. QED
  BY <1>3, <1>4

(* A function on Nat can be defined by its first value and a step. *)
LEMMA Recursion ==
  ASSUME NEW base \in Nat, NEW step \in [Nat \X Nat -> Nat]
  PROVE  \E f \in [Nat -> Nat] :
           f[0] = base /\ \A n \in Nat : f[n + 1] = step[<<n, f[n]>>]
<1> DEFINE Upto(n, g) == /\ g \in [0 .. n -> Nat] /\ g[0] = base
                         /\ \A k \in 0 .. n - 1 : g[k + 1] = step[<<k, g[k]>>]
<1>1. \A n \in Nat : \E g : Upto(n, g)
  <2> DEFINE S == {n \in Nat : \E g : Upto(n, g)}
  <2>1. 0 \in S
    <3>1. Upto(0, [k \in 0 .. 0 |-> base])
      OBVIOUS
    <3>2. QED
      BY <3>1
  <2>2. ASSUME NEW n \in S PROVE n + 1 \in S
    <3>1. PICK g : Upto(n, g)
      OBVIOUS
    <3> DEFINE h == [k \in 0 .. n + 1 |-> IF k <= n THEN g[k] ELSE step[<<n, g[n]>>]]
    <3>2. h \in [0 .. n + 1 -> Nat] /\ h[0] = base
      BY <3>1
    <3>3. ASSUME NEW k \in 0 .. n PROVE h[k + 1] = step[<<k, h[k]>>]
      <4>1. k \in Nat /\ n \in Nat /\ k <= n /\ k \in 0 .. n + 1 /\ k + 1 \in 0 .. n + 1
        OBVIOUS
      <4>2. h[k] = g[k]
        BY <4>1
      <4>3. CASE k = n
        BY <4>1, <4>2, <4>3
      <4>4. CASE k # n
        <5>1. k \in 0 .. n - 1 /\ k + 1 <= n
          BY <4>1, <4>4
        <5>2. h[k + 1] = g[k + 1]
          BY <4>1, <5>1
        <5>3. QED
          BY <3>1, <4>2, <5>1, <5>2
      <4>5. QED
        BY <4>3, <4>4
    <3>4. Upto(n + 1, h)
      <4> HIDE DEF h
      <4> QED BY <3>2, <3>3
    <3>5. n + 1 \in Nat
      OBVIOUS
    <3>6. QED
      <4> HIDE DEF Upto
      <4> QED BY <3>4, <3>5
  <2>3. S = Nat
    <3> HIDE DEF Upto
    <3>1. S \subseteq Nat
      OBVIOUS
    <3> HIDE DEF S
    <3>2. QED
      BY <2>1, <2>2, <3>1, SetInduction
  <2>4. QED
    BY <2>3
<1>2. ASSUME NEW n \in Nat, NEW g, NEW h, Upto(n, g), Upto(n + 1, h)
      PROVE  \A k \in 0 .. n : g[k] = h[k]
  <2> DEFINE S == {k \in Nat : k <= n => g[k] = h[k]}
  <2>1. 0 \in S
    BY <1>2
  <2>2. ASSUME NEW k \in S PROVE k + 1 \in S
    <3>1. CASE k + 1 <= n
      <4>1. k \in 0 .. n - 1 /\ k \in 0 .. n /\ k <= n
        BY <3>1
      <4>2. g[k] = h[k]
        BY <4>1
      <4>3. g[k + 1] = step[<<k, g[k]>>] /\ h[k + 1] = step[<<k, h[k]>>]
        BY <1>2, <4>1
      <4>4. QED
        BY <4>2, <4>3
    <3>2. QED
      BY <3>1
  <2>3. S = Nat
    BY <2>1, <2>2, SetInduction
  <2>4. QED
    BY <2>3
<1> DEFINE G(n) == CHOOSE g : Upto(n, g)
           f == [n \in Nat |-> G(n)[n]]
<1>3. \A n \in Nat : Upto(n, G(n))
  <2> HIDE DEF Upto
  <2> QED BY <1>1
<1>4. \A n \in Nat : G(n)[n] = G(n + 1)[n]
  <2> HIDE DEF Upto, G
  <2>1. \A n \in Nat : \A k \in 0 .. n : G(n)[k] = G(n + 1)[k]
    BY <1>2, <1>3
  <2>2. QED
    BY <2>1
<1>5. f \in [Nat -> Nat] /\ f[0] = base
  <2> HIDE DEF G
  <2> QED BY <1>3
<1>6. ASSUME NEW n \in Nat PROVE f[n + 1] = step[<<n, f[n]>>]
  <2> HIDE DEF G
  <2>1. n + 1 \in Nat /\ n \in 0 .. (n + 1) - 1
    OBVIOUS
  <2>2. Upto(n + 1, G(n + 1))
    <3> HIDE DEF Upto
    <3> QED BY <1>3, <2>1
  <2>3. G(n + 1)[n + 1] = step[<<n, G(n + 1)[n]>>]
    BY <2>1, <2>2
  <2>4. G(n)[n] = G(n + 1)[n]
    BY <1>4
  <2>5. f[n + 1] = G(n + 1)[n + 1] /\ f[n] = G(n)[n]
    BY <2>1
  <2>6. QED
    <3> HIDE DEF f
    <3> QED BY <2>3, <2>4, <2>5
<1>7. QED
  <2> HIDE DEF f
  <2> QED BY <1>5, <1>6

-----------------------------------------------------------------------------
(* Division *)

(* A multiple of b divides by b without a remainder. *)
LEMMA Multiple ==
  ASSUME NEW q \in Nat, NEW b \in Nat, b > 0
  PROVE  (q * b) % b = 0 /\ (q * b) \div b = q
<1>1. b \in Int /\ q \in Int /\ q * b \in Int
  BY SMT
<1>2. (q * b) % b \in 0 .. b - 1 /\ q * b = b * ((q * b) \div b) + ((q * b) % b) /\ (q * b) \div b \in Int
  BY <1>1, SMT
<1> QED BY SMT

(* Quotient and remainder of natural numbers. *)
LEMMA Division ==
  ASSUME NEW a \in Nat, NEW b \in Nat, b > 0
  PROVE  /\ a \div b \in Nat /\ a % b \in 0 .. b - 1
         /\ b * (a \div b) <= a /\ a < b * (a \div b) + b
         /\ a = b * (a \div b) + (a % b)
<1>1. a \in Int /\ b \in Int
  OBVIOUS
<1>2. a % b \in 0 .. b - 1 /\ a \div b \in Int /\ a = b * (a \div b) + (a % b)
  BY <1>1, SMT
<1>3. QED
  BY <1>2, SMT

(* Where q times b fits, the quotient by b is q or more. *)
LEMMA AtLeastQuotient ==
  ASSUME NEW a \in Nat, NEW b \in Nat, b > 0, NEW q \in Nat, q * b <= a
  PROVE  q <= a \div b
<1>1. a \div b \in Nat /\ a < b * (a \div b) + b
  BY Division
<1>2. \A x \in Nat : x < q => b * x + b <= q * b
  BY SMT
<1>3. QED
  BY <1>1, <1>2, SMT

-----------------------------------------------------------------------------
(* Powers of two: what shifts and masks of single bits compute *)

(* pow2 is the function its recursive definition means. *)
LEMMA PowersOfTwo ==
  /\ pow2 \in [Nat -> Nat] /\ pow2[0] = 1
  /\ \A n \in Nat : pow2[n + 1] = 2 * pow2[n]
<1> DEFINE step == [p \in Nat \X Nat |-> 2 * p[2]]
<1>1. step \in [Nat \X Nat -> Nat]
  OBVIOUS
<1>2. PICK f \in [Nat -> Nat] : f[0] = 1 /\ \A n \in Nat : f[n + 1] = step[<<n, f[n]>>]
  <2>1. 1 \in Nat
    OBVIOUS
  <2> HIDE DEF step
  <2> QED BY <1>1, <2>1, Recursion
<1>3. \A n \in Nat : f[n + 1] = 2 * f[n]
  BY <1>2
<1>4. ASSUME NEW n \in Nat PROVE f[n] = IF n = 0 THEN 1 ELSE 2 * f[n - 1]
  <2>1. CASE n # 0
    <3>1. n - 1 \in Nat /\ n = (n - 1) + 1
      BY <2>1
    <3>2. QED
      BY <2>1, <3>1, <1>3
  <2>2. QED
    BY <2>1, <1>2
<1>5. f = [n \in Nat |-> IF n = 0 THEN 1 ELSE 2 * f[n - 1]]
  <2>1. f = [n \in Nat |-> f[n]]
    OBVIOUS
  <2>2. QED
    BY <2>1, <1>4
<1>6. pow2 = [n \in Nat |-> IF n = 0 THEN 1 ELSE 2 * pow2[n - 1]]
  BY <1>5 DEF pow2
<1>7. \A n \in Nat : pow2[n] = IF n = 0 THEN 1 ELSE 2 * pow2[n - 1]
  <2> DEFINE p == pow2
  <2>1. p = [n \in Nat |-> IF n = 0 THEN 1 ELSE 2 * p[n - 1]]
    BY <1>6
  <2> HIDE DEF p
  <2>2. \A n \in Nat : p[n] = IF n = 0 THEN 1 ELSE 2 * p[n - 1]
    BY <2>1
  <2>3. QED
    BY <2>2 DEF p
<1>8. pow2[0] = 1 /\ \A n \in Nat : pow2[n + 1] = 2 * pow2[n]
  BY <1>7
<1>9. \A n \in Nat : pow2[n] \in Nat
  <2> DEFINE S == {n \in Nat : pow2[n] \in Nat}
  <2>1. 0 \in S
    BY <1>8
  <2>2. ASSUME NEW n \in S PROVE n + 1 \in S
    BY <1>8
  <2>3. S = Nat
    BY <2>1, <2>2, SetInduction
  <2>4. QED
    BY <2>3
<1>10. QED
  <2> DEFINE p == pow2
  <2>1. p = [n \in Nat |-> IF n = 0 THEN 1 ELSE 2 * p[n - 1]]
    BY <1>6
  <2>2. \A n \in Nat : p[n] \in Nat
    BY <1>9
  <2> HIDE DEF p
  <2>3. p \in [Nat -> Nat]
    BY <2>1, <2>2
  <2>4. QED
    BY <2>3, <1>8 DEF p

(* Powers of two are positive, and each is twice the one before. *)
LEMMA PowerTyped ==
  ASSUME NEW n \in Nat
  PROVE  pow2[n] \in Nat /\ pow2[n] >= 1 /\ pow2[n + 1] = 2 * pow2[n]
<1> DEFINE S == {m \in Nat : pow2[m] >= 1}
<1>1. 0 \in S
  BY PowersOfTwo
<1>2. ASSUME NEW m \in S PROVE m + 1 \in S
  <2>1. pow2[m] \in Nat /\ pow2[m + 1] = 2 * pow2[m]
    BY PowersOfTwo
  <2>2. QED
    BY <2>1
<1>3. S = Nat
  BY <1>1, <1>2, SetInduction
<1>4. pow2[n] \in Nat /\ pow2[n + 1] = 2 * pow2[n]
  BY PowersOfTwo
<1>5. QED
  BY <1>3, <1>4

(* Shifting by a sum is shifting twice. *)
LEMMA PowerOfSum ==
  ASSUME NEW m \in Nat, NEW n \in Nat
  PROVE  pow2[m + n] = pow2[m] * pow2[n]
<1> DEFINE S == {k \in Nat : pow2[m + k] = pow2[m] * pow2[k]}
<1>1. 0 \in S
  BY PowersOfTwo, PowerTyped
<1>2. ASSUME NEW k \in S PROVE k + 1 \in S
  <2>1. k \in Nat /\ m + k \in Nat /\ m + (k + 1) = (m + k) + 1
    OBVIOUS
  <2>2. pow2[m + (k + 1)] = 2 * pow2[m + k]
    BY <2>1, PowerTyped
  <2>3. pow2[k + 1] = 2 * pow2[k] /\ pow2[k] \in Nat /\ pow2[m] \in Nat
    BY <2>1, PowerTyped
  <2>4. pow2[m + k] = pow2[m] * pow2[k]
    OBVIOUS
  <2>5. \A a, b \in Nat : 2 * (a * b) = a * (2 * b)
    BY SMT
  <2>6. pow2[m + (k + 1)] = pow2[m] * pow2[k + 1]
    BY <2>2, <2>3, <2>4, <2>5
  <2>7. QED
    BY <2>1, <2>6
<1>3. S = Nat
  BY <1>1, <1>2, SetInduction
<1>4. QED
  BY <1>3

(* A smaller power divides a larger one. *)
LEMMA PowerDivides ==
  ASSUME NEW m \in Nat, NEW n \in Nat, m <= n
  PROVE  /\ pow2[n] = pow2[n - m] * pow2[m]
         /\ pow2[n] % pow2[m] = 0 /\ pow2[n] \div pow2[m] = pow2[n - m]
<1>1. n - m \in Nat /\ (n - m) + m = n
  OBVIOUS
<1>2. pow2[n] = pow2[n - m] * pow2[m]
  BY <1>1, PowerOfSum
<1>3. pow2[m] \in Nat /\ pow2[m] > 0 /\ pow2[n - m] \in Nat
  BY <1>1, PowerTyped
<1>4. QED
  BY <1>2, <1>3, Multiple

(* Powers are in the order of their exponents, with gaps. *)
LEMMA PowerMonotone ==
  ASSUME NEW m \in Nat, NEW n \in Nat
  PROVE  (m <= n <=> pow2[m] <= pow2[n]) /\ (m < n <=> 2 * pow2[m] <= pow2[n])
<1>1. ASSUME NEW i \in Nat, NEW j \in Nat, i <= j PROVE pow2[i] <= pow2[j]
  <2>1. j - i \in Nat
    BY <1>1
  <2>2. pow2[j - i] \in Nat /\ pow2[j - i] >= 1 /\ pow2[i] \in Nat
    BY <2>1, PowerTyped
  <2>3. pow2[j] = pow2[j - i] * pow2[i]
    BY <1>1, PowerDivides
  <2>4. \A a, b \in Nat : a >= 1 => b <= a * b
    BY SMT
  <2>5. QED
    BY <2>2, <2>3, <2>4
<1>2. ASSUME NEW i \in Nat, NEW j \in Nat, i < j PROVE 2 * pow2[i] <= pow2[j]
  BY <1>2, <1>1, PowerTyped
<1>3. pow2[m] \in Nat /\ pow2[m] >= 1 /\ pow2[n] \in Nat /\ pow2[n] >= 1
  BY PowerTyped
<1>4. CASE m < n
  BY <1>1, <1>2, <1>3, <1>4
<1>5. CASE m = n
  BY <1>3, <1>5
<1>6. CASE n < m
  <2>1. 2 * pow2[n] <= pow2[m]
    BY <1>2, <1>6
  <2>2. QED
    BY <1>3, <1>6, <2>1
<1>7. QED
  BY <1>4, <1>5, <1>6

(* A smaller power is its own remainder modulo a larger one. *)
LEMMA PowerRemains ==
  ASSUME NEW m \in Nat, NEW n \in Nat, n < m
  PROVE  pow2[n] % pow2[m] = pow2[n] /\ pow2[n] \div pow2[m] = 0
<1>1. pow2[m] \in Nat /\ pow2[n] \in Nat /\ pow2[n] >= 1 /\ 2 * pow2[n] <= pow2[m]
  BY PowerMonotone, PowerTyped
<1>2. \A a, b \in Nat : a < b => a % b = a /\ a \div b = 0
  BY SMT
<1>3. QED
  BY <1>1, <1>2

(* A power of two is larger than its exponent. *)
LEMMA PowerAbove ==
  ASSUME NEW n \in Nat
  PROVE  pow2[n] > n
<1> DEFINE S == {m \in Nat : pow2[m] > m}
<1>1. 0 \in S
  BY PowersOfTwo
<1>2. ASSUME NEW m \in S PROVE m + 1 \in S
  BY PowerTyped
<1>3. S = Nat
  BY <1>1, <1>2, SetInduction
<1>4. QED
  BY <1>3

(* The powers the code has as literals. *)
LEMMA SmallPowers ==
  /\ pow2[0] = 1 /\ pow2[1] = 2 /\ pow2[2] = 4 /\ pow2[3] = 8
  /\ pow2[4] = 16 /\ pow2[5] = 32 /\ pow2[6] = 64
<1>1. pow2[0] = 1
  BY PowersOfTwo
<1>2. pow2[1] = 2
  BY <1>1, PowerTyped
<1>3. pow2[2] = 4
  BY <1>2, PowerTyped
<1>4. pow2[3] = 8
  BY <1>3, PowerTyped
<1>5. pow2[4] = 16
  BY <1>4, PowerTyped
<1>6. pow2[5] = 32
  BY <1>5, PowerTyped
<1>7. pow2[6] = 64
  BY <1>6, PowerTyped
<1>8. QED
  BY <1>1, <1>2, <1>3, <1>4, <1>5, <1>6, <1>7

-----------------------------------------------------------------------------
(* The number that a set of positions spells *)

(* low[n] is the number that the positions below n spell. *)
Spells(low, bits) ==
  /\ low \in [Nat -> Nat] /\ low[0] = 0
  /\ \A n \in Nat : low[n + 1] = low[n] + IF n \in bits THEN pow2[n] ELSE 0

(* Value has such a function to read it off. *)
LEMMA ValueIsSpelled ==
  ASSUME NEW bits
  PROVE  \E low : Spells(low, bits) /\ Value(bits) = low[Width64]
<1> DEFINE step == [p \in Nat \X Nat |-> p[2] + IF p[1] \in bits THEN pow2[p[1]] ELSE 0]
           Equation(g) ==
             g = [n \in Nat |-> IF n = 0 THEN 0
                                ELSE g[n - 1] + IF n - 1 \in bits THEN pow2[n - 1] ELSE 0]
<1>1. step \in [Nat \X Nat -> Nat]
  BY PowersOfTwo
<1>2. PICK f \in [Nat -> Nat] : f[0] = 0 /\ \A n \in Nat : f[n + 1] = step[<<n, f[n]>>]
  <2>1. 0 \in Nat
    OBVIOUS
  <2> HIDE DEF step
  <2> QED BY <1>1, <2>1, Recursion
<1>3. \A n \in Nat : f[n + 1] = f[n] + IF n \in bits THEN pow2[n] ELSE 0
  BY <1>2
<1>4. ASSUME NEW n \in Nat
      PROVE  f[n] = IF n = 0 THEN 0 ELSE f[n - 1] + IF n - 1 \in bits THEN pow2[n - 1] ELSE 0
  <2>1. CASE n # 0
    <3>1. n - 1 \in Nat /\ n = (n - 1) + 1
      BY <2>1
    <3>2. QED
      BY <2>1, <3>1, <1>3
  <2>2. QED
    BY <2>1, <1>2
<1>5. Equation(f)
  <2>1. f = [n \in Nat |-> f[n]]
    OBVIOUS
  <2>2. QED
    BY <2>1, <1>4
<1>6. \A g : Equation(g) => g = f
  <2> SUFFICES ASSUME NEW g, Equation(g) PROVE g = f
    OBVIOUS
  <2> DEFINE S == {n \in Nat : g[n] = f[n]}
  <2>1. \A n \in Nat : g[n] = IF n = 0 THEN 0
                              ELSE g[n - 1] + IF n - 1 \in bits THEN pow2[n - 1] ELSE 0
    OBVIOUS
  <2>2. 0 \in S
    BY <2>1, <1>2
  <2>3. ASSUME NEW n \in S PROVE n + 1 \in S
    <3>1. n \in Nat /\ n + 1 \in Nat /\ n + 1 # 0 /\ (n + 1) - 1 = n /\ g[n] = f[n]
      OBVIOUS
    <3>2. g[n + 1] = f[n + 1]
      BY <2>1, <1>4, <3>1
    <3>3. QED
      BY <3>1, <3>2
  <2>4. S = Nat
    BY <2>2, <2>3, SetInduction
  <2>5. \A n \in Nat : g[n] = f[n]
    BY <2>4
  <2>6. \E h : g = [n \in Nat |-> h[n]]
    <3>1. g = [n \in Nat |-> g[n]]
      OBVIOUS
    <3>2. QED
      BY <3>1
  <2> HIDE DEF Equation
  <2>7. QED
    BY <2>5, <2>6
<1>7. (CHOOSE g : Equation(g)) = f
  <2> HIDE DEF Equation
  <2>1. Equation(CHOOSE g : Equation(g))
    BY <1>5
  <2>2. QED
    BY <1>6, <2>1
<1>8. Value(bits) = f[Width64]
  BY <1>7 DEF Value
<1>9. QED
  BY <1>2, <1>3, <1>8 DEF Spells

(* What the position n adds. *)
LEMMA LowTyped ==
  ASSUME NEW low, NEW bits, Spells(low, bits), NEW n \in Nat
  PROVE  /\ low[n] \in Nat /\ low[0] = 0
         /\ n \in bits => low[n + 1] = low[n] + pow2[n]
         /\ n \notin bits => low[n + 1] = low[n]
<1>1. low \in [Nat -> Nat] /\ pow2[n] \in Nat
  BY PowerTyped DEF Spells
<1>2. QED
  BY <1>1 DEF Spells

(* n positions spell less than 2^n. *)
LEMMA LowBounded ==
  ASSUME NEW low, NEW bits, Spells(low, bits), NEW n \in Nat
  PROVE  low[n] < pow2[n]
<1> DEFINE S == {m \in Nat : low[m] < pow2[m]}
<1>1. 0 \in S
  BY LowTyped, PowersOfTwo
<1>2. ASSUME NEW m \in S PROVE m + 1 \in S
  BY LowTyped, PowerTyped
<1>3. S = Nat
  BY <1>1, <1>2, SetInduction
<1>4. QED
  BY <1>3

(* Each position is worth its power in the number. *)
LEMMA LowHolds ==
  ASSUME NEW low, NEW bits, Spells(low, bits), NEW n \in Nat, NEW k \in Nat
  PROVE  k \in bits /\ k < n => pow2[k] <= low[n]
<1> DEFINE S == {m \in Nat : k \in bits /\ k < m => pow2[k] <= low[m]}
<1>1. 0 \in S
  OBVIOUS
<1>2. ASSUME NEW m \in S PROVE m + 1 \in S
  <2>1. m \in Nat /\ pow2[m] \in Nat /\ pow2[k] \in Nat
    BY PowerTyped
  <2>2. /\ low[m] \in Nat /\ low[m + 1] \in Nat
        /\ low[m + 1] = low[m] \/ low[m + 1] = low[m] + pow2[m]
        /\ m \in bits => low[m + 1] = low[m] + pow2[m]
    BY <2>1, LowTyped
  <2>3. CASE k < m
    BY <2>1, <2>2, <2>3
  <2>4. CASE k = m
    BY <2>1, <2>2, <2>4
  <2>5. QED
    BY <2>1, <2>3, <2>4
<1>3. S = Nat
  BY <1>1, <1>2, SetInduction
<1>4. QED
  BY <1>3

(* Positions below k spell less than 2^k. *)
LEMMA LowEnds ==
  ASSUME NEW low, NEW bits, Spells(low, bits), NEW k \in Nat, bits \subseteq 0 .. k - 1,
         NEW n \in Nat
  PROVE  low[n] < pow2[k]
<1> DEFINE S == {m \in Nat : low[m] < pow2[k]}
<1>1. 0 \in S
  BY LowTyped, PowerTyped
<1>2. ASSUME NEW m \in S PROVE m + 1 \in S
  <2>1. CASE m < k
    <3>1. m + 1 <= k /\ m + 1 \in Nat
      BY <2>1
    <3>2. low[m + 1] < pow2[m + 1] /\ pow2[m + 1] <= pow2[k] /\ low[m + 1] \in Nat
      BY <3>1, LowBounded, PowerMonotone, LowTyped
    <3>3. QED
      BY <3>1, <3>2, PowerTyped
  <2>2. CASE m >= k
    <3>1. m \in Nat /\ m \notin bits
      BY <2>2
    <3>2. QED
      BY <3>1, LowTyped
  <2>3. QED
    BY <2>1, <2>2
<1>3. S = Nat
  BY <1>1, <1>2, SetInduction
<1>4. QED
  BY <1>3

(* Positions from k on spell a multiple of 2^k. *)
LEMMA LowMultiple ==
  ASSUME NEW low, NEW bits, Spells(low, bits), NEW k \in Nat, \A i \in bits : i \in Nat /\ k <= i,
         NEW n \in Nat
  PROVE  \E q \in Nat : low[n] = q * pow2[k]
<1> DEFINE S == {m \in Nat : \E q \in Nat : low[m] = q * pow2[k]}
<1>1. 0 \in S
  BY LowTyped, PowerTyped
<1>2. ASSUME NEW m \in S PROVE m + 1 \in S
  <2>1. PICK q \in Nat : low[m] = q * pow2[k]
    OBVIOUS
  <2>2. m \in Nat /\ m + 1 \in Nat
    OBVIOUS
  <2>3. CASE m \in bits
    <3>1. k <= m /\ m - k \in Nat
      BY <2>2, <2>3
    <3>2. pow2[m] = pow2[m - k] * pow2[k] /\ pow2[m - k] \in Nat /\ pow2[k] \in Nat
      BY <2>2, <3>1, PowerDivides, PowerTyped
    <3>3. low[m + 1] = low[m] + pow2[m]
      BY <2>2, <2>3, LowTyped
    <3>4. \A a, b, c \in Nat : a * c + b * c = (a + b) * c
      BY SMT
    <3>5. low[m + 1] = (q + pow2[m - k]) * pow2[k] /\ q + pow2[m - k] \in Nat
      BY <2>1, <3>2, <3>3, <3>4
    <3>6. QED
      BY <2>2, <3>5
  <2>4. CASE m \notin bits
    BY <2>1, <2>2, <2>4, LowTyped
  <2>5. QED
    BY <2>3, <2>4
<1>3. S = Nat
  BY <1>1, <1>2, SetInduction
<1>4. QED
  BY <1>3

(* Equal numbers have the same positions. *)
LEMMA LowUnique ==
  ASSUME NEW one, NEW ones, Spells(one, ones), NEW two, NEW twos, Spells(two, twos),
         NEW n \in Nat, one[n] = two[n]
  PROVE  \A i \in 0 .. n - 1 : i \in ones <=> i \in twos
<1> DEFINE S == {m \in Nat : one[m] = two[m] => \A i \in 0 .. m - 1 : i \in ones <=> i \in twos}
<1>1. 0 \in S
  OBVIOUS
<1>2. ASSUME NEW m \in S PROVE m + 1 \in S
  <2>1. m \in Nat /\ m + 1 \in Nat /\ (m + 1) - 1 = m
    OBVIOUS
  <2> SUFFICES ASSUME one[m + 1] = two[m + 1]
               PROVE  \A i \in 0 .. m : i \in ones <=> i \in twos
    BY <2>1
  <2>2. /\ one[m] \in Nat /\ two[m] \in Nat /\ one[m] < pow2[m] /\ two[m] < pow2[m]
        /\ pow2[m] \in Nat
        /\ m \in ones => one[m + 1] = one[m] + pow2[m]
        /\ m \notin ones => one[m + 1] = one[m]
        /\ m \in twos => two[m + 1] = two[m] + pow2[m]
        /\ m \notin twos => two[m + 1] = two[m]
    BY <2>1, LowTyped, LowBounded, PowerTyped
  <2>3. (m \in ones <=> m \in twos) /\ one[m] = two[m]
    BY <2>2
  <2>4. \A i \in 0 .. m - 1 : i \in ones <=> i \in twos
    BY <2>3
  <2>5. \A i \in 0 .. m : i = m \/ i \in 0 .. m - 1
    BY <2>1
  <2>6. QED
    BY <2>3, <2>4, <2>5
<1>3. S = Nat
  BY <1>1, <1>2, SetInduction
<1>4. QED
  BY <1>3

-----------------------------------------------------------------------------
(* Masks, and what extract() does with them *)

(* The limits of the integers are positive. *)
LEMMA WidthsTyped ==
  /\ Uint32 \in Nat /\ Uint32 >= 1 /\ Uint64 \in Nat /\ Uint64 >= 1
  /\ Width32 \in Nat /\ Width64 \in Nat
BY WidthsAssumption, PowerTyped DEF Uint32, Uint64

(* A mask has finitely many ones, and none only if it is empty. *)
LEMMA BitsFinite ==
  ASSUME NEW mask \in SUBSET Bits
  PROVE  /\ IsFiniteSet(mask) /\ Cardinality(mask) \in Nat
         /\ Cardinality(mask) = 0 <=> mask = {}
<1>1. IsFiniteSet(Bits)
  BY FS_Interval, WidthsAssumption DEF Bits
<1>2. IsFiniteSet(mask)
  BY <1>1, FS_Subset
<1>3. QED
  BY <1>2, FS_CardinalityType, FS_EmptySet

(* first_one_position finds the lowest one of a mask that has any. *)
LEMMA LowestOne ==
  ASSUME NEW mask \in SUBSET Bits, mask # {}
  PROVE  /\ first_one_position(mask) \in mask /\ first_one_position(mask) \in Nat
         /\ \A y \in mask : first_one_position(mask) <= y
<1>1. mask \subseteq Nat
  BY WidthsAssumption DEF Bits
<1>2. \E x \in mask : \A y \in mask : x <= y
  BY <1>1, LeastElement
<1>3. Min(mask) \in mask /\ \A y \in mask : Min(mask) <= y
  BY <1>2 DEF Min
<1>4. QED
  BY <1>1, <1>3 DEF first_one_position

(* What is extracted is a uint32, if the division does not trap. *)
LEMMA ExtractTyped ==
  ASSUME NEW address, NEW mask, first_one_position(mask) \in Nat \ {0}
  PROVE  Extract(address, mask) \in 0 .. Uint32 - 1
<1> DEFINE v == Value(address \cap mask)
           d == first_one_position(mask)
<1>1. v \in Nat
  BY ValueIsSpelled, LowTyped, WidthsTyped
<1>2. v \div d \in Nat
  <2> HIDE DEF v, d
  <2> QED BY <1>1, Division DEF d
<1>3. (v \div d) % Uint32 \in 0 .. Uint32 - 1
  <2> HIDE DEF v, d
  <2> QED BY <1>2, Division, WidthsTyped
<1>4. QED
  BY <1>3 DEF Extract

(* An address below 2^32 loses nothing to the cast to a uint32. *)
LEMMA ExtractUncut ==
  ASSUME NEW address, address \subseteq Low, NEW mask, first_one_position(mask) \in Nat \ {0}
  PROVE  Extract(address, mask) = Value(address \cap mask) \div first_one_position(mask)
<1> DEFINE v == Value(address \cap mask)
           d == first_one_position(mask)
<1>1. PICK low : Spells(low, address \cap mask) /\ v = low[Width64]
  BY ValueIsSpelled
<1>2. v \in Nat
  BY <1>1, LowTyped, WidthsTyped
<1>3. address \cap mask \subseteq 0 .. Width32 - 1
  BY DEF Low
<1>4. v < Uint32
  <2> HIDE DEF v
  <2> QED BY <1>1, <1>3, LowEnds, WidthsTyped DEF Uint32
<1>5. v \div d \in Nat /\ v \div d <= v
  <2> HIDE DEF v, d
  <2>1. d \in Nat /\ d > 0
    BY DEF d
  <2>2. v \div d \in Nat /\ d * (v \div d) <= v
    BY <1>2, <2>1, Division
  <2>3. \A x, y \in Nat : y > 0 => x <= y * x
    BY SMT
  <2>4. v \div d <= d * (v \div d)
    BY <2>1, <2>2, <2>3
  <2>5. d * (v \div d) \in Nat
    BY <2>1, <2>2
  <2>6. QED
    BY <1>2, <2>2, <2>4, <2>5
<1>6. \A x, y \in Nat : x < y => x % y = x
  BY SMT
<1>7. (v \div d) % Uint32 = v \div d
  <2> HIDE DEF v, d
  <2> QED BY <1>2, <1>4, <1>5, <1>6, WidthsTyped
<1>8. QED
  BY <1>7 DEF Extract

(* A field all ones gives more than its bits can count: with the lowest    *)
(* one at d and k ones, a position of d + k - 1 or more is set, which is   *)
(* worth 2^(d-1) * 2^k, and 2^(d-1) is not less than d.                    *)
LEMMA FieldTooLarge ==
  ASSUME NEW address, NEW mask \in SUBSET Bits, mask # {}, mask \subseteq address \cap Low,
         first_one_position(mask) # 0
  PROVE  (Value(mask) \div first_one_position(mask)) >= pow2[popcount(mask)]
<1> DEFINE d == first_one_position(mask)
           k == Cardinality(mask)
<1>1. d \in mask /\ d \in Nat /\ d >= 1 /\ \A y \in mask : d <= y
  BY LowestOne
<1>2. k \in Nat /\ k >= 1 /\ IsFiniteSet(mask)
  BY BitsFinite
<1>3. mask \subseteq Nat
  BY WidthsAssumption DEF Bits
<1> HIDE DEF d, k
<1>4. PICK top \in mask : top >= d + k - 1
  <2> SUFFICES ASSUME \A y \in mask : y < d + k - 1 PROVE FALSE
    BY <1>1, <1>2, <1>3
  <2>1. \A y \in mask : y \in Nat /\ d <= y /\ y < d + k - 1
    BY <1>1, <1>3
  <2>2. mask \subseteq d .. d + k - 2
    BY <1>1, <1>2, <2>1
  <2>3. IsFiniteSet(d .. d + k - 2) /\ Cardinality(d .. d + k - 2) = k - 1
    BY <1>1, <1>2, FS_Interval
  <2>4. Cardinality(mask) <= Cardinality(d .. d + k - 2)
    <3> DEFINE span == d .. d + k - 2
    <3> HIDE DEF span
    <3>1. mask \in SUBSET span /\ IsFiniteSet(span)
      BY <2>2, <2>3 DEF span
    <3>2. Cardinality(mask) <= Cardinality(span)
      BY <3>1, FS_Subset
    <3>3. QED
      BY <3>2 DEF span
  <2>5. QED
    BY <1>2, <2>3, <2>4 DEF k
<1>5. PICK low : Spells(low, mask) /\ Value(mask) = low[Width64]
  BY ValueIsSpelled
<1>6. Value(mask) \in Nat /\ pow2[top] <= Value(mask)
  <2>1. top \in Nat /\ top < Width64
    BY WidthsAssumption DEF Bits
  <2>2. QED
    BY <1>5, <2>1, LowHolds, LowTyped, WidthsTyped
<1>7. d - 1 \in Nat /\ (d - 1) + k = d + k - 1 /\ d + k - 1 \in Nat
  BY <1>1, <1>2
<1>8. pow2[d + k - 1] = pow2[d - 1] * pow2[k]
  BY <1>2, <1>7, PowerOfSum
<1>9. pow2[d - 1] \in Nat /\ pow2[d - 1] >= d /\ pow2[k] \in Nat
  BY <1>1, <1>2, <1>7, PowerAbove, PowerTyped
<1>10. pow2[d + k - 1] <= pow2[top] /\ pow2[top] \in Nat /\ pow2[d + k - 1] \in Nat
  BY <1>3, <1>4, <1>7, PowerMonotone, PowerTyped
<1>11. \A x, y, z \in Nat : x <= y => z * x <= y * z
  BY SMT
<1>12. pow2[k] * d <= pow2[d - 1] * pow2[k]
  BY <1>1, <1>9, <1>11
<1>13. pow2[k] * d <= Value(mask)
  BY <1>6, <1>8, <1>10, <1>12, <1>1, <1>9
<1>14. pow2[k] <= Value(mask) \div d
  BY <1>1, <1>6, <1>9, <1>13, AtLeastQuotient
<1>15. Value(mask) \div d \in Nat
  BY <1>1, <1>6, Division
<1>16. QED
  BY <1>9, <1>14, <1>15 DEF d, k, popcount

(* Dividing by d tells multiples of 2^d apart, as 2^d is larger than d. *)
LEMMA DifferentFields ==
  ASSUME NEW mask \in SUBSET Bits, mask # {}, first_one_position(mask) # 0,
         NEW a, NEW b, a \subseteq Low, b \subseteq Low,
         Extract(a, mask) = Extract(b, mask)
  PROVE  a \cap mask = b \cap mask
<1> DEFINE d == first_one_position(mask)
           one == a \cap mask
           two == b \cap mask
<1>1. d \in Nat /\ d >= 1 /\ d \in mask /\ \A y \in mask : d <= y
  BY LowestOne
<1>2. Value(one) \div d = Value(two) \div d
  BY <1>1, ExtractUncut
<1>3. one \subseteq Bits /\ two \subseteq Bits
  OBVIOUS
<1>4. (\A i \in one : i \in Nat /\ d <= i) /\ (\A i \in two : i \in Nat /\ d <= i)
  <2>1. mask \subseteq Nat
    BY WidthsAssumption DEF Bits
  <2> HIDE DEF d
  <2>2. \A i \in mask : i \in Nat /\ d <= i
    BY <1>1, <2>1
  <2>3. QED
    BY <2>2
<1> HIDE DEF d, one, two
<1>5. PICK low1 : Spells(low1, one) /\ Value(one) = low1[Width64]
  BY ValueIsSpelled
<1>6. PICK low2 : Spells(low2, two) /\ Value(two) = low2[Width64]
  BY ValueIsSpelled
<1>7. PICK p \in Nat : Value(one) = p * pow2[d]
  BY <1>1, <1>4, <1>5, LowMultiple, WidthsTyped
<1>8. PICK q \in Nat : Value(two) = q * pow2[d]
  BY <1>1, <1>4, <1>6, LowMultiple, WidthsTyped
<1>9. pow2[d] \in Nat /\ pow2[d] > d
  BY <1>1, PowerAbove, PowerTyped
<1>10. p = q
  <2>1. ASSUME NEW x \in Nat, NEW y \in Nat, x < y PROVE (x * pow2[d]) \div d # (y * pow2[d]) \div d
    <3> DEFINE u == x * pow2[d]
               v == y * pow2[d]
    <3>1. u \in Nat /\ v \in Nat /\ u + pow2[d] <= v
      <4>1. \A e \in Nat : x * e + e <= y * e /\ x * e \in Nat /\ y * e \in Nat
        BY <2>1, SMT
      <4>2. QED
        BY <4>1, <1>9
    <3> HIDE DEF u, v
    <3>2. u + d <= v
      BY <1>1, <1>9, <3>1
    <3>3. /\ d * (u \div d) <= u /\ v < d * (v \div d) + d
          /\ u \div d \in Nat /\ v \div d \in Nat
      BY <1>1, <3>1, Division
    <3>4. u \div d # v \div d
      <4> DEFINE r == d * (u \div d)
      <4>1. r \in Nat
        BY <1>1, <3>3
      <4> HIDE DEF r
      <4>2. SUFFICES ASSUME u \div d = v \div d PROVE FALSE
        OBVIOUS
      <4>3. r <= u /\ v < r + d
        BY <3>3, <4>2 DEF r
      <4>4. QED
        BY <1>1, <3>1, <3>2, <4>1, <4>3
    <3>5. QED
      BY <3>4 DEF u, v
  <2>2. (p * pow2[d]) \div d = (q * pow2[d]) \div d
    BY <1>2, <1>7, <1>8
  <2>3. QED
    BY <2>1, <2>2
<1>11. low1[Width64] = low2[Width64]
  BY <1>5, <1>6, <1>7, <1>8, <1>10
<1>12. \A i \in 0 .. Width64 - 1 : i \in one <=> i \in two
  BY <1>5, <1>6, <1>11, LowUnique, WidthsTyped
<1>13. QED
  BY <1>3, <1>12 DEF Bits, one, two

(* A mask over bit 0 makes extract() divide by zero. *)
LEMMA BitZeroTraps ==
  ASSUME NEW c \in Config, NEW mask \in {c.bank_mask, c.row_mask, c.col_mask}, 0 \in mask
  PROVE  DecodeTraps(c)
<1>1. mask \subseteq Nat
  BY WidthsAssumption DEF Config, Bits
<1>2. \A y \in mask : 0 <= y
  BY <1>1
<1>3. Min(mask) \in mask /\ \A y \in mask : Min(mask) <= y
  BY <1>2 DEF Min
<1>4. \A m \in Nat : m <= 0 => m = 0
  OBVIOUS
<1>5. Min(mask) = 0
  BY <1>1, <1>3, <1>4
<1>6. QED
  BY <1>5 DEF DecodeTraps, first_one_position

(* Without one, bit 0 of an address reaches no field. *)
LEMMA BitZeroLost ==
  ASSUME NEW c, 0 \notin c.bank_mask, 0 \notin c.row_mask, 0 \notin c.col_mask
  PROVE  Decoded(c, {}) = Decoded(c, {0})
<1>1. \A mask : 0 \notin mask => {} \cap mask = {0} \cap mask
  OBVIOUS
<1>2. \A mask : 0 \notin mask => Extract({}, mask) = Extract({0}, mask)
  BY <1>1 DEF Extract
<1>3. QED
  BY <1>2 DEF Decoded

-----------------------------------------------------------------------------
(* The numbers of a configuration that validate() lets through *)

(* The three popcounts are natural numbers. *)
LEMMA FieldsTyped ==
  ASSUME NEW c \in Config
  PROVE  bank_bits(c) \in Nat /\ row_bits(c) \in Nat /\ col_bits(c) \in Nat
BY BitsFinite DEF Config, bank_bits, row_bits, col_bits, popcount

(* No mask is empty if each has a bit. *)
LEMMA EmptyMask ==
  ASSUME NEW c \in Config
  PROVE  {} \notin {c.bank_mask, c.row_mask, c.col_mask}
           <=> bank_bits(c) >= 1 /\ row_bits(c) >= 1 /\ col_bits(c) >= 1
<1>1. c.bank_mask \in SUBSET Bits /\ c.row_mask \in SUBSET Bits /\ c.col_mask \in SUBSET Bits
  BY DEF Config
<1>2. \A mask \in SUBSET Bits : mask # {} <=> Cardinality(mask) >= 1
  BY BitsFinite
<1>3. QED
  BY <1>1, <1>2 DEF bank_bits, row_bits, col_bits, popcount

(* The exponents of a valid system and how they are ordered. *)
LEMMA SystemShape ==
  ASSUME NEW s \in System, SystemValid(s)
  PROVE  \E n \in 0 .. Width32 - 4, d \in 3 .. 6, e \in 0 .. 3 :
           /\ s.block_size = pow2[n] /\ s.data_bus_width = pow2[d] /\ s.word_size = pow2[e]
           /\ d <= n + 3 /\ e <= n /\ e + 3 <= d /\ d < Width32
           /\ s.address_bus_width \in 1 .. Width64
<1>1. Width32 \in Nat
  BY WidthsTyped
<1>2. PICK n \in 0 .. Width32 - 1 : s.block_size = pow2[n]
  BY DEF SystemValid, BlockFits, is_power_of_2
<1>3. PICK d \in 0 .. Width32 - 1 : s.data_bus_width = pow2[d]
  BY DEF SystemValid, is_power_of_2
<1>4. s.data_bus_width <= 64 /\ s.data_bus_width >= s.word_size * 8 /\ s.word_size \in {1, 2, 4, 8}
  BY DEF SystemValid, WordFits, System
<1>5. d \in 3 .. 6
  <2>1. pow2[3] <= pow2[d] /\ pow2[d] <= pow2[6] /\ pow2[d] \in Nat
    BY <1>1, <1>3, <1>4, SmallPowers, PowerTyped
  <2>2. QED
    BY <1>1, <2>1, PowerMonotone
<1>6. PICK e \in 0 .. 3 : s.word_size = pow2[e]
  <2>1. 0 \in 0 .. 3 /\ 1 \in 0 .. 3 /\ 2 \in 0 .. 3 /\ 3 \in 0 .. 3
    OBVIOUS
  <2>2. QED
    BY <1>4, <2>1, SmallPowers
<1>7. e + 3 <= d
  <2>1. pow2[e + 3] = pow2[e] * pow2[3]
    <3>1. e \in Nat /\ 3 \in Nat
      OBVIOUS
    <3>2. QED
      BY <3>1, PowerOfSum
  <2>2. pow2[e + 3] <= pow2[d]
    BY <1>3, <1>4, <1>6, <2>1, SmallPowers
  <2>3. QED
    BY <1>5, <2>2, PowerMonotone
<1>8. n + 3 < Width32 /\ BlockBits(s) = pow2[n + 3]
  <2>1. BlockBits(s) = pow2[n + 3] % pow2[Width32]
    <3>1. pow2[n + 3] = pow2[n] * pow2[3]
      BY <1>1, PowerOfSum
    <3>2. QED
      BY <1>2, <3>1, SmallPowers DEF BlockBits, Uint32
  <2>2. BlockBits(s) >= pow2[d] /\ pow2[d] \in Nat /\ pow2[d] >= 1
    BY <1>1, <1>3, PowerTyped DEF SystemValid, BlockFits
  <2>3. CASE Width32 <= n + 3
    <3>1. pow2[n + 3] % pow2[Width32] = 0
      BY <1>1, <2>3, PowerDivides
    <3>2. QED
      BY <2>1, <2>2, <3>1
  <2>4. CASE n + 3 < Width32
    BY <1>1, <2>1, <2>4, PowerRemains
  <2>5. QED
    BY <1>1, <2>3, <2>4
<1>9. d <= n + 3
  <2>1. pow2[d] <= pow2[n + 3]
    BY <1>3, <1>8, PowerTyped, <1>1 DEF SystemValid, BlockFits
  <2>2. QED
    BY <1>5, <2>1, <1>1, PowerMonotone
<1>10. e <= n
  <2>1. pow2[n] % pow2[e] = 0
    BY <1>2, <1>6 DEF SystemValid
  <2>2. pow2[n] \in Nat /\ pow2[n] >= 1
    BY <1>1, PowerTyped
  <2>3. n < e => pow2[n] % pow2[e] = pow2[n]
    BY <1>1, PowerRemains
  <2>4. QED
    BY <1>1, <2>1, <2>2, <2>3
<1>11. s.address_bus_width \in 1 .. Width64
  BY DEF SystemValid, BlockFits
<1>12. n \in 0 .. Width32 - 4
  BY <1>1, <1>8
<1>13. d < Width32
  BY <1>1
<1>14. QED
  BY <1>2, <1>3, <1>5, <1>6, <1>7, <1>9, <1>10, <1>11, <1>12, <1>13

(* Chips are a power of two too, at most the lines of the bus. *)
LEMMA ChipsShape ==
  ASSUME NEW c \in Config, NEW space, ChipsFit(c, space),
         NEW d \in Nat, c.sys.data_bus_width = pow2[d]
  PROVE  \E w \in 0 .. d : c.chip_width_bits = pow2[w] /\ number_of_chips(c) = pow2[d - w]
<1>1. PICK w \in 0 .. Width32 - 1 : c.chip_width_bits = pow2[w]
  BY DEF ChipsFit, is_power_of_2
<1>2. w \in Nat
  BY WidthsTyped
<1>3. w <= d
  BY <1>1, <1>2, PowerMonotone DEF ChipsFit
<1>4. number_of_chips(c) = pow2[d - w]
  BY <1>1, <1>2, <1>3, PowerDivides DEF number_of_chips
<1>5. QED
  BY <1>1, <1>2, <1>3, <1>4

(* The cast of the number of banks leaves all of it or nothing. *)
LEMMA BanksCount ==
  ASSUME NEW c \in Config
  PROVE  number_of_banks(c) = IF bank_bits(c) < Width32 THEN pow2[bank_bits(c)] ELSE 0
BY FieldsTyped, WidthsTyped, PowerDivides, PowerRemains DEF number_of_banks, Uint32

(* So do the casts of rows and columns, and of their product. *)
LEMMA CellsCount ==
  ASSUME NEW c \in Config
  PROVE  number_of_cells(c) = IF row_bits(c) + col_bits(c) < Width32
                              THEN pow2[row_bits(c) + col_bits(c)] ELSE 0
<1> DEFINE r == row_bits(c)
           k == col_bits(c)
<1>1. r \in Nat /\ k \in Nat /\ Width32 \in Nat
  BY FieldsTyped, WidthsTyped
<1>2. number_of_cells(c) = ((pow2[r] % pow2[Width32]) * (pow2[k] % pow2[Width32])) % pow2[Width32]
  BY DEF number_of_cells, Uint32
<1>3. 0 % pow2[Width32] = 0 /\ pow2[r] \in Nat /\ pow2[k] \in Nat
  <2>1. \A b \in Nat : b >= 1 => 0 % b = 0
    BY SMT
  <2>2. QED
    BY <1>1, <2>1, PowerTyped
<1> HIDE DEF r, k
<1>4. CASE Width32 <= r
  <2>1. pow2[r] % pow2[Width32] = 0
    BY <1>1, <1>4, PowerDivides
  <2>2. pow2[k] % pow2[Width32] \in Nat
    BY <1>1, <1>3, PowerTyped, Division
  <2>3. number_of_cells(c) = 0
    BY <1>2, <1>3, <2>1, <2>2
  <2>4. QED
    BY <1>1, <1>4, <2>3 DEF r, k
<1>5. CASE Width32 <= k
  <2>1. pow2[k] % pow2[Width32] = 0
    BY <1>1, <1>5, PowerDivides
  <2>2. pow2[r] % pow2[Width32] \in Nat
    BY <1>1, <1>3, PowerTyped, Division
  <2>3. number_of_cells(c) = 0
    BY <1>2, <1>3, <2>1, <2>2
  <2>4. QED
    BY <1>1, <1>5, <2>3 DEF r, k
<1>6. CASE r < Width32 /\ k < Width32
  <2>1. pow2[r] % pow2[Width32] = pow2[r] /\ pow2[k] % pow2[Width32] = pow2[k]
    BY <1>1, <1>6, PowerRemains
  <2>2. number_of_cells(c) = pow2[r + k] % pow2[Width32]
    BY <1>1, <1>2, <2>1, PowerOfSum
  <2>3. r + k < Width32 => number_of_cells(c) = pow2[r + k]
    BY <1>1, <2>2, PowerRemains
  <2>4. ~ r + k < Width32 => number_of_cells(c) = 0
    BY <1>1, <2>2, PowerDivides
  <2>5. QED
    BY <2>3, <2>4 DEF r, k
<1>7. QED
  BY <1>1, <1>4, <1>5, <1>6

(* Banks times the size of a subarray is an eighth of the address space,   *)
(* and at the widest address not less than two.                            *)
LEMMA BanksTimesSubarray ==
  ASSUME NEW c \in Config, NEW subarray \in size_of_subarray_bytes(c), MasksFit(c),
         bank_bits(c) < Width32, row_bits(c) + col_bits(c) >= 3
  PROVE  LET w == c.sys.address_bus_width IN
         /\ w < Width64 => (number_of_banks(c) * subarray) % Uint64 = pow2[w - 3]
         /\ w = Width64 => (number_of_banks(c) * subarray) % Uint64 >= 2
<1> DEFINE b == bank_bits(c)
           f == row_bits(c) + col_bits(c)
           w == c.sys.address_bus_width
<1>1. /\ b \in Nat /\ f \in Nat /\ b >= 1 /\ b < Width32 /\ f >= 3 /\ f < Width64 /\ w = b + f
      /\ Width64 \in Nat /\ Width64 >= 4
  <2>1. /\ b \in Nat /\ row_bits(c) \in Nat /\ col_bits(c) \in Nat
        /\ b \in 1 .. Width64 - 1
    BY FieldsTyped DEF MasksFit
  <2>2. QED
    BY <2>1, WidthsAssumption DEF MasksFit
<1>2. number_of_banks(c) = pow2[b]
  BY BanksCount
<1>3. subarray \in IF 2 * pow2[f] < Uint64 THEN {pow2[f] \div 8}
                   ELSE {pow2[f] \div 8, Uint64 - (pow2[f] \div 8)}
  BY DEF size_of_subarray_bytes
<1> HIDE DEF b, f, w
<1>4. pow2[f] \div 8 = pow2[f - 3] /\ f - 3 \in Nat /\ pow2[f - 3] \in Nat
  <2>1. 3 \in Nat /\ f - 3 \in Nat
    BY <1>1
  <2>2. pow2[f] \div pow2[3] = pow2[f - 3]
    BY <1>1, <2>1, PowerDivides
  <2>3. QED
    BY <2>1, <2>2, SmallPowers, PowerTyped
<1>5. pow2[b] * pow2[f - 3] = pow2[w - 3] /\ w - 3 \in Nat /\ w \in Nat
  <2>1. b + (f - 3) = w - 3
    BY <1>1
  <2>2. QED
    BY <1>1, <1>4, <2>1, PowerOfSum
<1>6. CASE subarray = pow2[f] \div 8
  <2>1. number_of_banks(c) * subarray = pow2[w - 3]
    BY <1>2, <1>4, <1>5, <1>6
  <2>2. w - 3 < Width64 => pow2[w - 3] % Uint64 = pow2[w - 3]
    BY <1>1, <1>5, PowerRemains DEF Uint64
  <2>3. w = Width64 => pow2[w - 3] >= 2
    <3>1. pow2[w - 3] \in Nat /\ (1 <= w - 3 => pow2[1] <= pow2[w - 3])
      BY <1>5, PowerMonotone, PowerTyped
    <3>2. w = Width64 => 1 <= w - 3
      BY <1>1
    <3>3. QED
      BY <3>1, <3>2, SmallPowers
  <2>4. QED
    BY <1>1, <1>5, <2>1, <2>2, <2>3 DEF w
<1>7. CASE subarray # pow2[f] \div 8
  <2>1. ~ 2 * pow2[f] < Uint64 /\ subarray = Uint64 - pow2[f - 3]
    BY <1>3, <1>4, <1>7
  <2>2. f = Width64 - 1
    <3>1. pow2[f + 1] = 2 * pow2[f] /\ pow2[f + 1] \in Nat /\ pow2[Width64] \in Nat
      BY <1>1, PowerTyped
    <3>2. pow2[f + 1] >= pow2[Width64]
      <4>1. pow2[f] \in Nat
        BY <1>1, PowerTyped
      <4>2. QED
        BY <2>1, <3>1, <4>1 DEF Uint64
    <3>3. Width64 <= f + 1
      BY <1>1, <3>1, <3>2, PowerMonotone
    <3>4. QED
      BY <1>1, <3>3
  <2> SUFFICES ASSUME w = Width64 PROVE (number_of_banks(c) * subarray) % Uint64 >= 2
    <3>1. w >= Width64
      BY <1>1, <2>2
    <3>2. QED
      BY <1>1, <3>1 DEF w
  <2>3. b = 1 /\ pow2[b] = 2
    BY <1>1, <2>2, SmallPowers
  <2> DEFINE p == pow2[f - 3]
             u == Uint64
  <2>4. p \in Nat /\ p >= 1 /\ u = 16 * p
    <3>1. Width64 = 4 + (f - 3)
      BY <1>1, <2>2
    <3>2. pow2[4 + (f - 3)] = pow2[4] * pow2[f - 3]
      BY <1>4, PowerOfSum
    <3>3. QED
      BY <1>4, <3>1, <3>2, SmallPowers, PowerTyped DEF Uint64
  <2>5. number_of_banks(c) * subarray = 2 * (u - p)
    BY <1>2, <2>1, <2>3
  <2> HIDE DEF p, u
  <2>6. (2 * (16 * p - p)) % (16 * p) = 14 * p
    <3>1. 2 * (16 * p - p) = 30 * p
      BY <2>4
    <3>2. \A x \in Nat : x >= 1 => (30 * x) % (16 * x) = 14 * x
      <4> SUFFICES ASSUME NEW x \in Nat, x >= 1 PROVE (30 * x) % (16 * x) = 14 * x
        OBVIOUS
      <4>1. /\ 30 * x \in Nat /\ 16 * x \in Nat /\ 16 * x > 0
        OBVIOUS
      <4>2. /\ (30 * x) % (16 * x) \in 0 .. (16 * x) - 1
            /\ (30 * x) \div (16 * x) \in Nat
            /\ 30 * x = (16 * x) * ((30 * x) \div (16 * x)) + ((30 * x) % (16 * x))
        BY <4>1, Division
      <4>3. QED
        BY <4>2, SMT
    <3>3. QED
      BY <2>4, <3>1, <3>2
  <2>7. QED
    BY <2>4, <2>5, <2>6 DEF u
<1>8. QED
  BY <1>6, <1>7

(* With the banks cut to 0, or subarrays of less than a byte, there is     *)
(* nothing that the chips would have to hold.                              *)
LEMMA NothingToFit ==
  ASSUME NEW c \in Config, NEW subarray \in size_of_subarray_bytes(c), MasksFit(c),
         bank_bits(c) >= Width32 \/ row_bits(c) + col_bits(c) = 2
  PROVE  (number_of_banks(c) * subarray) % Uint64 = 0
<1> DEFINE f == row_bits(c) + col_bits(c)
<1>1. 0 % Uint64 = 0
  <2>1. \A b \in Nat : b >= 1 => 0 % b = 0
    BY SMT
  <2>2. QED
    BY <2>1, WidthsTyped
<1>2. f \in Nat /\ pow2[f] \in Nat /\ number_of_banks(c) \in Nat
  BY FieldsTyped, BanksCount, PowerTyped
<1>3. subarray \in Int
  <2>1. pow2[f] \div 8 \in Nat
    BY <1>2, Division
  <2>2. subarray \in {pow2[f] \div 8, Uint64 - (pow2[f] \div 8)}
    BY DEF size_of_subarray_bytes
  <2>3. QED
    <3> HIDE DEF f
    <3> QED BY <2>1, <2>2, WidthsTyped
<1>4. CASE bank_bits(c) >= Width32
  <2>1. number_of_banks(c) = 0
    BY <1>4, BanksCount, FieldsTyped, WidthsTyped
  <2>2. QED
    BY <1>1, <1>3, <2>1
<1>5. CASE f = 2
  <2>1. pow2[f] = 4
    BY <1>5, SmallPowers
  <2>2. 2 * pow2[f] < Uint64
    <3>1. pow2[4] <= pow2[Width64]
      BY WidthsAssumption, PowerMonotone
    <3>2. QED
      BY <2>1, <3>1, SmallPowers, WidthsTyped DEF Uint64
  <2>3. subarray = 4 \div 8
    BY <2>1, <2>2 DEF size_of_subarray_bytes
  <2>4. subarray = 0
    BY <2>3
  <2>5. QED
    BY <1>1, <1>2, <2>4
<1>6. QED
  BY <1>4, <1>5

(* Whatever passes is as Stated says ... *)
LEMMA ValidIsStated ==
  ASSUME NEW c \in Config, NEW space \in address_space_bytes(c.sys),
         NEW subarray \in size_of_subarray_bytes(c), Valid(c, space, subarray)
  PROVE  Stated(c)
<1> DEFINE s == c.sys
           a == s.address_bus_width
           chips == s.data_bus_width \div c.chip_width_bits
           Powers == {pow2[i] : i \in 0 .. 6}
<1>1. s \in System /\ SystemValid(s) /\ ChipsFit(c, space) /\ MasksFit(c)
  BY DEF Valid, Config
<1>2. PICK n \in 0 .. Width32 - 4, d \in 3 .. 6, e \in 0 .. 3 :
        /\ s.block_size = pow2[n] /\ s.data_bus_width = pow2[d] /\ s.word_size = pow2[e]
        /\ d <= n + 3 /\ e <= n /\ e + 3 <= d /\ d < Width32
        /\ s.address_bus_width \in 1 .. Width64
  BY <1>1, SystemShape
<1>3. /\ n \in Nat /\ n + 3 \in Nat /\ d \in Nat /\ e \in Nat /\ 3 \in Nat
      /\ Width32 \in Nat /\ Width64 \in Nat /\ a \in Nat /\ a <= Width64
      /\ Width32 + 3 <= Width64
  BY <1>2, WidthsAssumption
<1>4. PICK w \in 0 .. d : c.chip_width_bits = pow2[w] /\ number_of_chips(c) = pow2[d - w]
  BY <1>1, <1>2, <1>3, ChipsShape
<1>5. chips = pow2[d - w] /\ w \in Nat /\ d - w \in Nat
  BY <1>3, <1>4 DEF number_of_chips
<1>6. /\ bank_bits(c) \in Nat /\ row_bits(c) \in Nat /\ col_bits(c) \in Nat
      /\ bank_bits(c) \in 1 .. Width64 - 1 /\ row_bits(c) \in 1 .. Width64 - 1
      /\ col_bits(c) \in 1 .. Width64 - 1 /\ row_bits(c) + col_bits(c) < Width64
      /\ bank_bits(c) + row_bits(c) + col_bits(c) = a
  BY <1>1, FieldsTyped DEF MasksFit
<1> HIDE DEF s, a, chips, Powers
<1>7. /\ s.block_size = pow2[n] /\ pow2[n] >= s.word_size
      /\ pow2[n + 3] >= s.data_bus_width
  <2>1. pow2[e] <= pow2[n] /\ pow2[d] <= pow2[n + 3]
    BY <1>2, <1>3, PowerMonotone
  <2>2. QED
    BY <1>2, <1>3, <2>1, PowerTyped
<1>8. /\ s.data_bus_width \in Powers /\ s.word_size \in Powers
      /\ c.chip_width_bits \in Powers
  <2>1. d \in 0 .. 6 /\ e \in 0 .. 6 /\ w \in 0 .. 6
    BY <1>3, <1>4
  <2>2. QED
    BY <1>2, <1>4, <2>1 DEF Powers
<1>9. s.word_size * 8 <= s.data_bus_width
  BY <1>1 DEF SystemValid, WordFits
<1>10. c.chip_width_bits <= s.data_bus_width
  BY <1>1 DEF ChipsFit, s
<1>11. {} \notin {c.bank_mask, c.row_mask, c.col_mask}
  BY <1>6, EmptyMask
<1>12. a < Width64 => space = pow2[a] /\ d - w <= a
  <2> SUFFICES ASSUME a < Width64 PROVE space = pow2[a] /\ d - w <= a
    OBVIOUS
  <2>1. space = pow2[a]
    BY DEF address_space_bytes, a, s
  <2>2. pow2[a] % pow2[d - w] = 0
    BY <1>1, <1>4, <2>1 DEF ChipsFit
  <2>3. pow2[a] >= 1 /\ pow2[a] \in Nat
    BY <1>3, PowerTyped
  <2>4. a < d - w => pow2[a] % pow2[d - w] = pow2[a]
    BY <1>3, <1>5, PowerRemains
  <2>5. QED
    BY <1>3, <1>5, <2>1, <2>2, <2>3, <2>4
<1>13. chips <= pow2[a]
  <2>1. d - w <= a
    <3>1. CASE a = Width64
      BY <1>2, <1>3, <1>5, <3>1
    <3>2. QED
      BY <1>3, <1>12, <3>1
  <2>2. QED
    BY <1>3, <1>5, <2>1, PowerMonotone
<1>14. /\ chips <= 8 \/ row_bits(c) + col_bits(c) = 2 \/ bank_bits(c) >= Width32
       /\ a = Width64 => bank_bits(c) >= Width32
  <2> SUFFICES ASSUME bank_bits(c) < Width32
               PROVE  /\ chips <= 8 \/ row_bits(c) + col_bits(c) = 2
                      /\ a # Width64
    BY <1>3, <1>6
  <2>1. space \div number_of_chips(c) >= (number_of_banks(c) * subarray) % Uint64
    BY DEF Valid, CapacityFits
  <2>2. a # Width64
    <3> SUFFICES ASSUME a = Width64 PROVE FALSE
      OBVIOUS
    <3>1. space \in {0, 1}
      BY <1>3 DEF address_space_bytes, a, s
    <3>2. row_bits(c) + col_bits(c) >= 3
      BY <1>3, <1>6
    <3>3. (number_of_banks(c) * subarray) % Uint64 >= 2
      BY <1>1, <1>6, <3>2, BanksTimesSubarray DEF a, s
    <3>4. space \div number_of_chips(c) \in {0, 1}
      <4>1. pow2[d - w] \in Nat /\ pow2[d - w] >= 1
        BY <1>5, PowerTyped
      <4>2. \A x \in Nat : x >= 1 => 0 \div x \in {0, 1} /\ 1 \div x \in {0, 1}
        BY SMT
      <4>3. QED
        BY <1>4, <3>1, <4>1, <4>2
    <3>5. (number_of_banks(c) * subarray) % Uint64 \in Int
      <4>1. number_of_banks(c) \in Nat /\ subarray \in Int
        <5>1. \A x \in Nat : x \div 8 \in Int
          BY SMT
        <5>2. pow2[row_bits(c) + col_bits(c)] \in Nat
          BY <1>6, PowerTyped
        <5>3. pow2[row_bits(c) + col_bits(c)] \div 8 \in Int
          BY <5>1, <5>2
        <5>4. subarray \in {pow2[row_bits(c) + col_bits(c)] \div 8,
                            Uint64 - (pow2[row_bits(c) + col_bits(c)] \div 8)}
          BY DEF size_of_subarray_bytes
        <5>5. subarray \in Int
          BY <5>3, <5>4, WidthsTyped
        <5>6. QED
          BY <5>5, <1>6, BanksCount, PowerTyped
      <4>2. number_of_banks(c) * subarray \in Int
        BY <4>1
      <4>3. \A x \in Int : \A y \in Nat : y >= 1 => x % y \in Int
        BY SMT
      <4>4. QED
        BY <4>2, <4>3, WidthsTyped
    <3>6. QED
      BY <2>1, <3>3, <3>4, <3>5
  <2>3. CASE row_bits(c) + col_bits(c) >= 3
    <3>1. a < Width64
      BY <1>3, <2>2
    <3>2. (number_of_banks(c) * subarray) % Uint64 = pow2[a - 3]
      BY <1>1, <1>6, <2>3, <3>1, BanksTimesSubarray DEF a, s
    <3>3. space \div number_of_chips(c) = pow2[a - (d - w)]
      BY <1>3, <1>4, <1>5, <1>12, <3>1, PowerDivides
    <3>4. a - 3 \in Nat /\ a - (d - w) \in Nat
      BY <1>3, <1>5, <1>6, <1>12, <2>3, <3>1
    <3>5. pow2[a - 3] <= pow2[a - (d - w)]
      BY <2>1, <3>2, <3>3, <3>4, PowerTyped
    <3>6. a - 3 <= a - (d - w)
      BY <3>4, <3>5, PowerMonotone
    <3>7. d - w <= 3
      BY <1>3, <1>5, <3>6
    <3>8. pow2[d - w] <= pow2[3]
      BY <1>3, <1>5, <3>7, PowerMonotone
    <3>9. QED
      BY <1>5, <2>2, <3>8, SmallPowers
  <2>4. CASE row_bits(c) + col_bits(c) = 2
    BY <2>2, <2>4
  <2>5. QED
    BY <1>6, <2>3, <2>4
<1>15. QED
  BY <1>3, <1>6, <1>7, <1>8, <1>9, <1>10, <1>11, <1>13, <1>14
     DEF Stated, s, a, chips, Powers

(* ... and whatever is as Stated says passes, but at the widest address. *)
LEMMA StatedIsValid ==
  ASSUME NEW c \in Config, Stated(c), c.sys.address_bus_width # Width64,
         NEW space \in address_space_bytes(c.sys),
         NEW subarray \in size_of_subarray_bytes(c)
  PROVE  Valid(c, space, subarray)
<1> DEFINE s == c.sys
           a == s.address_bus_width
           chips == s.data_bus_width \div c.chip_width_bits
           Powers == {pow2[i] : i \in 0 .. 6}
           b == bank_bits(c)
           r == row_bits(c)
           k == col_bits(c)
<1>1. Width32 \in Nat /\ Width64 \in Nat /\ Width32 + 3 <= Width64 /\ Width32 >= 1
  BY WidthsAssumption
<1>2. PICK n \in 0 .. Width32 - 4 :
        s.block_size = pow2[n] /\ pow2[n] >= s.word_size /\ pow2[n + 3] >= s.data_bus_width
  BY DEF Stated
<1>3. PICK d \in 0 .. 6 : s.data_bus_width = pow2[d]
  BY DEF Stated
<1>4. PICK e \in 0 .. 6 : s.word_size = pow2[e]
  BY DEF Stated
<1>5. PICK w \in 0 .. 6 : c.chip_width_bits = pow2[w]
  BY DEF Stated
<1>6. /\ n \in Nat /\ n + 3 \in Nat /\ n + 3 < Width32 /\ d \in Nat /\ e \in Nat /\ w \in Nat
      /\ e + 3 \in Nat /\ 3 \in Nat
  BY <1>1, <1>2, <1>3, <1>4, <1>5
<1>7. b \in Nat /\ r \in Nat /\ k \in Nat /\ b >= 1 /\ r >= 1 /\ k >= 1
  BY FieldsTyped, EmptyMask DEF Stated
<1>8. b + r + k = a /\ a \in Nat /\ a < Width64
  <2>1. b + r + k = a /\ a <= Width64 /\ a # Width64
    BY DEF Stated
  <2>2. QED
    BY <1>1, <1>7, <2>1
<1> HIDE DEF b, r, k
<1>9. e <= n /\ d <= n + 3 /\ w <= d
  <2>1. pow2[e] <= pow2[n] /\ pow2[d] <= pow2[n + 3] /\ pow2[w] <= pow2[d]
    BY <1>2, <1>3, <1>4, <1>5, <1>6, PowerTyped DEF Stated
  <2>2. QED
    BY <1>6, <2>1, PowerMonotone
<1>10. e + 3 <= d
  <2>1. pow2[e + 3] = pow2[e] * pow2[3]
    BY <1>6, PowerOfSum
  <2>2. s.word_size * 8 <= s.data_bus_width
    BY DEF Stated
  <2>3. pow2[e + 3] <= pow2[d]
    BY <1>3, <1>4, <2>1, <2>2, SmallPowers
  <2>4. QED
    BY <1>6, <2>3, PowerMonotone
<1>11. BlockBits(s) = pow2[n + 3]
  <2>1. pow2[n + 3] = pow2[n] * pow2[3]
    BY <1>6, PowerOfSum
  <2>2. BlockBits(s) = pow2[n + 3] % pow2[Width32]
    BY <1>2, <2>1, SmallPowers DEF BlockBits, Uint32
  <2>3. QED
    BY <1>1, <1>6, <2>2, PowerRemains
<1>12. pow2[d] \in Nat /\ pow2[d] >= 1 /\ pow2[e] \in Nat /\ pow2[e] >= 1 /\ pow2[n + 3] \in Nat
  BY <1>6, PowerTyped
<1>13. pow2[n + 3] % pow2[d] = 0 /\ pow2[n] % pow2[e] = 0 /\ pow2[d] % pow2[w] = 0
  BY <1>6, <1>9, PowerDivides
<1>14. chips = pow2[d - w] /\ d - w \in Nat /\ pow2[d - w] \in Nat /\ pow2[d - w] >= 1
  BY <1>3, <1>5, <1>6, <1>9, PowerDivides, PowerTyped
<1>15. d - w <= a
  <2>1. chips <= pow2[a]
    BY DEF Stated
  <2>2. QED
    BY <1>8, <1>14, <2>1, PowerMonotone
<1>16. SystemValid(s)
  <2>1. is_power_of_2(s.block_size) /\ is_power_of_2(s.data_bus_width)
    <3>1. n \in 0 .. Width32 - 1 /\ d \in 0 .. Width32 - 1
      BY <1>1, <1>6, <1>9
    <3>2. QED
      BY <1>2, <1>3, <3>1 DEF is_power_of_2
  <2>2. a \in 1 .. Width64
    BY <1>1, <1>7, <1>8
  <2>3. BlockBits(s) >= s.data_bus_width
    BY <1>2, <1>11
  <2>4. BlockFits(s)
    BY <2>1, <2>2, <2>3 DEF BlockFits
  <2>5. s.data_bus_width # 0 /\ s.word_size # 0
    BY <1>3, <1>4, <1>12
  <2>6. BlockBits(s) % s.data_bus_width = 0 /\ s.block_size % s.word_size = 0
    BY <1>2, <1>3, <1>4, <1>11, <1>13
  <2>7. s.data_bus_width <= 64
    <3>1. pow2[d] <= pow2[6]
      BY <1>3, <1>6, PowerMonotone
    <3>2. QED
      BY <1>3, <3>1, SmallPowers
  <2>8. WordFits(s)
    <3>1. e \in {0, 1, 2, 3}
      BY <1>3, <1>6, <1>10
    <3>2. pow2[e] \in {1, 2, 4, 8}
      BY <3>1, SmallPowers
    <3>3. s.word_size * 8 <= s.data_bus_width
      BY DEF Stated
    <3>4. QED
      BY <1>4, <3>2, <3>3 DEF WordFits
  <2>9. QED
    BY <2>1, <2>4, <2>5, <2>6, <2>7, <2>8 DEF SystemValid, ValidationTraps
<1>17. space = pow2[a]
  BY <1>8 DEF address_space_bytes
<1>18. ChipsFit(c, space)
  <2>1. is_power_of_2(c.chip_width_bits)
    <3>1. w \in 0 .. Width32 - 1
      BY <1>1, <1>6, <1>9
    <3>2. QED
      BY <1>5, <3>1 DEF is_power_of_2
  <2>2. c.chip_width_bits <= s.data_bus_width
    BY DEF Stated
  <2>3. s.data_bus_width % c.chip_width_bits = 0
    BY <1>3, <1>5, <1>13
  <2>4. number_of_chips(c) = pow2[d - w]
    BY <1>14 DEF number_of_chips
  <2>5. pow2[a] % pow2[d - w] = 0
    BY <1>8, <1>14, <1>15, PowerDivides
  <2>6. QED
    BY <1>14, <1>17, <2>1, <2>2, <2>3, <2>4, <2>5 DEF ChipsFit
<1>19. MasksFit(c)
  <2>1. /\ b \in 1 .. Width64 - 1 /\ r \in 1 .. Width64 - 1 /\ k \in 1 .. Width64 - 1
        /\ r + k < Width64
    BY <1>1, <1>7, <1>8
  <2>2. QED
    BY <1>8, <2>1 DEF MasksFit, b, r, k
<1>20. CapacityFits(c, space, subarray)
  <2>1. space \div number_of_chips(c) = pow2[a - (d - w)] /\ a - (d - w) \in Nat
    <3>1. number_of_chips(c) = pow2[d - w]
      BY <1>14 DEF number_of_chips
    <3>2. a - (d - w) \in Nat
      BY <1>8, <1>14, <1>15
    <3>3. QED
      BY <1>8, <1>14, <1>15, <1>17, <3>1, <3>2, PowerDivides
  <2>2. pow2[a - (d - w)] \in Nat
    BY <2>1, PowerTyped
  <2>3. CASE bank_bits(c) >= Width32 \/ row_bits(c) + col_bits(c) = 2
    <3>1. (number_of_banks(c) * subarray) % Uint64 = 0
      BY <1>19, <2>3, NothingToFit
    <3>2. QED
      BY <2>1, <2>2, <3>1 DEF CapacityFits
  <2>4. CASE ~ (bank_bits(c) >= Width32 \/ row_bits(c) + col_bits(c) = 2)
    <3>1. chips <= 8
      BY <2>4 DEF Stated
    <3>2. d - w <= 3
      <4>1. pow2[d - w] <= pow2[3]
        BY <1>14, <3>1, SmallPowers
      <4>2. QED
        BY <1>6, <1>14, <4>1, PowerMonotone
    <3>3. bank_bits(c) < Width32 /\ row_bits(c) + col_bits(c) >= 3
      BY <1>1, <1>7, <2>4 DEF b, r, k
    <3>4. (number_of_banks(c) * subarray) % Uint64 = pow2[a - 3]
      BY <1>8, <1>19, <3>3, BanksTimesSubarray
    <3>5. a - 3 \in Nat /\ a - 3 <= a - (d - w)
      BY <1>7, <1>8, <1>14, <3>2
    <3>6. pow2[a - 3] <= pow2[a - (d - w)] /\ pow2[a - 3] \in Nat
      BY <2>1, <3>5, PowerMonotone, PowerTyped
    <3>7. QED
      BY <2>1, <2>2, <3>4, <3>6 DEF CapacityFits
  <2>5. QED
    BY <2>3, <2>4
<1>21. QED
  BY <1>16, <1>18, <1>19, <1>20 DEF Valid

(* The cells of all chips, by what is left of their factors. *)
LEMMA MemoryOfValid ==
  ASSUME NEW c \in Config, NEW space, NEW subarray, Valid(c, space, subarray)
  PROVE  LET cells == number_of_chips(c) * number_of_subarrays(c)
                        * number_of_banks(c) * number_of_cells(c)
         IN  IF bank_bits(c) < Width32 /\ row_bits(c) + col_bits(c) < Width32
             THEN cells >= 8 * pow2[c.sys.address_bus_width]
             ELSE cells = 0
<1> DEFINE b == bank_bits(c)
           f == row_bits(c) + col_bits(c)
           a == c.sys.address_bus_width
           x == number_of_chips(c)
           y == number_of_subarrays(c)
<1>1. c.sys \in System /\ SystemValid(c.sys) /\ ChipsFit(c, space) /\ MasksFit(c)
  BY DEF Valid, Config
<1>2. PICK d \in 3 .. 6 : c.sys.data_bus_width = pow2[d]
  BY <1>1, SystemShape
<1>3. PICK w \in 0 .. d : c.chip_width_bits = pow2[w] /\ number_of_chips(c) = pow2[d - w]
  <2>1. d \in Nat
    OBVIOUS
  <2>2. QED
    BY <1>1, <1>2, <2>1, ChipsShape
<1>4. x \in Nat /\ y \in Nat /\ x * y >= 8 /\ x * y \in Nat
  <2>1. d \in Nat /\ w \in Nat /\ d - w \in Nat /\ 3 \in Nat /\ 3 <= d /\ w <= d
    BY <1>3
  <2>2. pow2[d - w] * pow2[w] = pow2[d] /\ pow2[3] <= pow2[d] /\ pow2[d] \in Nat
    BY <2>1, PowerDivides, PowerMonotone, PowerTyped
  <2>3. QED
    BY <1>3, <2>1, <2>2, SmallPowers, PowerTyped DEF number_of_subarrays
<1>5. b \in Nat /\ f \in Nat /\ a \in Nat /\ a = b + f
  <2>1. bank_bits(c) \in Nat /\ row_bits(c) \in Nat /\ col_bits(c) \in Nat
    BY FieldsTyped
  <2>2. bank_bits(c) + row_bits(c) + col_bits(c) = a
    BY <1>1 DEF MasksFit
  <2>3. QED
    BY <2>1, <2>2
<1> HIDE DEF x, y
<1>6. CASE b < Width32 /\ f < Width32
  <2>1. number_of_banks(c) = pow2[b] /\ number_of_cells(c) = pow2[f]
    BY <1>6, BanksCount, CellsCount
  <2>2. pow2[b] * pow2[f] = pow2[a] /\ pow2[b] \in Nat /\ pow2[f] \in Nat /\ pow2[a] \in Nat
    <3> HIDE DEF a, b, f
    <3>1. pow2[b + f] = pow2[b] * pow2[f]
      BY <1>5, PowerOfSum
    <3>2. QED
      BY <1>5, <3>1, PowerTyped
  <2>3. \A t, p, q \in Nat : t >= 8 => (t * p) * q >= 8 * (p * q)
    <3> SUFFICES ASSUME NEW t \in Nat, NEW p \in Nat, NEW q \in Nat, t >= 8
                 PROVE  (t * p) * q >= 8 * (p * q)
      OBVIOUS
    <3>1. p * q \in Nat /\ (t * p) * q = t * (p * q)
      BY SMT
    <3>2. \A z \in Nat : t * z >= 8 * z
      BY SMT
    <3>3. QED
      BY <3>1, <3>2
  <2>4. ((x * y) * pow2[b]) * pow2[f] >= 8 * (pow2[b] * pow2[f])
    BY <1>4, <2>2, <2>3
  <2>5. QED
    BY <1>6, <2>1, <2>2, <2>4 DEF x, y
<1>7. CASE ~ (b < Width32 /\ f < Width32)
  <2>1. /\ number_of_banks(c) \in Nat /\ number_of_cells(c) \in Nat
        /\ number_of_banks(c) = 0 \/ number_of_cells(c) = 0
    BY <1>5, <1>7, BanksCount, CellsCount, PowerTyped
  <2>2. \A t, p, q \in Nat : p = 0 \/ q = 0 => (t * p) * q = 0
    OBVIOUS
  <2>3. ((x * y) * number_of_banks(c)) * number_of_cells(c) = 0
    BY <1>4, <2>1, <2>2
  <2>4. QED
    BY <1>7, <2>3 DEF x, y
<1>8. QED
  BY <1>6, <1>7

(* The derived sizes, by the exponents. *)
LEMMA SizesOfValid ==
  ASSUME NEW s \in System, SystemValid(s)
  PROVE  /\ transfers_per_block(s) * s.data_bus_width = 8 * s.block_size
         /\ words_per_block(s) * s.word_size = s.block_size
         /\ \A space \in address_space_bytes(s) \ {0, 1} :
              IF s.block_size <= space
              THEN /\ total_blocks(s, space) * s.block_size = space
                   /\ tag_index_bits(s) + offset_bits(s) = s.address_bus_width
              ELSE /\ total_blocks(s, space) = 0
                   /\ tag_index_bits(s) > s.address_bus_width
<1> DEFINE a == s.address_bus_width
<1>1. PICK n \in 0 .. Width32 - 4, d \in 3 .. 6, e \in 0 .. 3 :
        /\ s.block_size = pow2[n] /\ s.data_bus_width = pow2[d] /\ s.word_size = pow2[e]
        /\ d <= n + 3 /\ e <= n /\ e + 3 <= d /\ d < Width32
        /\ s.address_bus_width \in 1 .. Width64
  BY SystemShape
<1>2. /\ n \in Nat /\ d \in Nat /\ e \in Nat /\ 3 \in Nat /\ d - 3 \in Nat /\ n + 3 \in Nat
      /\ n - (d - 3) \in Nat /\ d - 3 <= n /\ 3 <= d /\ (n - (d - 3)) + d = n + 3
      /\ Width32 \in Nat /\ Width64 \in Nat /\ a \in Nat /\ a <= Width64
      /\ Width64 <= 255 /\ n < Width32 /\ Width32 <= 252
  BY <1>1, WidthsAssumption
<1> HIDE DEF a
<1>3. transfers_per_block(s) * s.data_bus_width = 8 * s.block_size
  <2>1. s.data_bus_width \div 8 = pow2[d - 3]
    <3>1. pow2[d] \div pow2[3] = pow2[d - 3]
      BY <1>2, PowerDivides
    <3>2. QED
      BY <1>1, <3>1, SmallPowers
  <2>2. transfers_per_block(s) = pow2[n - (d - 3)]
    BY <1>1, <1>2, <2>1, PowerDivides DEF transfers_per_block
  <2>3. pow2[n - (d - 3)] * pow2[d] = pow2[n + 3]
    BY <1>2, PowerOfSum
  <2>4. pow2[n + 3] = pow2[n] * pow2[3] /\ pow2[n] \in Nat
    BY <1>2, PowerOfSum, PowerTyped
  <2>5. QED
    BY <1>1, <2>2, <2>3, <2>4, SmallPowers
<1>4. words_per_block(s) * s.word_size = s.block_size
  BY <1>1, <1>2, PowerDivides DEF words_per_block
<1>5. offset_bits(s) = n
  <2> DEFINE N == {i \in 1 .. Width32 - 1 : pow2[i] <= pow2[n]}
  <2>1. N = 1 .. n
    <3>1. \A i \in 1 .. Width32 - 1 : pow2[i] <= pow2[n] <=> i <= n
      BY <1>2, PowerMonotone
    <3>2. \A i \in 1 .. n : i \in 1 .. Width32 - 1 /\ i <= n
      BY <1>2
    <3>3. \A i \in 1 .. Width32 - 1 : i <= n => i \in 1 .. n
      BY <1>2
    <3>4. QED
      BY <3>1, <3>2, <3>3
  <2>2. Cardinality(1 .. n) = n
    BY <1>2, FS_Interval
  <2>3. offset_bits(s) = Cardinality(N)
    BY <1>1 DEF offset_bits, log2_of
  <2>4. QED
    BY <2>1, <2>2, <2>3
<1>6. ASSUME NEW space \in address_space_bytes(s) \ {0, 1}
      PROVE  IF s.block_size <= space
             THEN /\ total_blocks(s, space) * s.block_size = space
                  /\ tag_index_bits(s) + offset_bits(s) = a
             ELSE /\ total_blocks(s, space) = 0
                  /\ tag_index_bits(s) > a
  <2>1. a < Width64 /\ space = pow2[a]
    BY DEF address_space_bytes, a
  <2>2. tag_index_bits(s) = (a + 256 - n) % 256
    BY <1>5 DEF tag_index_bits, Uint8, a
  <2>3. s.block_size <= space <=> n <= a
    BY <1>1, <1>2, <2>1, PowerMonotone
  <2>4. CASE n <= a
    <3>1. a - n \in Nat /\ a - n < 256 /\ a + 256 - n = (a - n) + 256
      BY <1>2, <2>4
    <3>2. tag_index_bits(s) = a - n
      BY <2>2, <3>1
    <3>3. total_blocks(s, space) * s.block_size = space
      BY <1>1, <1>2, <2>1, <2>4, PowerDivides DEF total_blocks
    <3>4. tag_index_bits(s) + offset_bits(s) = a
      BY <1>2, <1>5, <3>2
    <3>5. QED
      BY <2>3, <2>4, <3>3, <3>4
  <2>5. CASE a < n
    <3>1. a + 256 - n \in Nat /\ a + 256 - n < 256 /\ a + 256 - n > a
      BY <1>2, <2>5
    <3>2. tag_index_bits(s) > a
      BY <2>2, <3>1
    <3>3. total_blocks(s, space) = 0
      BY <1>1, <1>2, <2>1, <2>5, PowerRemains DEF total_blocks
    <3>4. QED
      BY <1>2, <2>3, <2>5, <3>2, <3>3
  <2>6. QED
    BY <1>2, <2>4, <2>5
<1>7. QED
  BY <1>3, <1>4, <1>6 DEF a

-----------------------------------------------------------------------------
(* The specification *)

(* Whether validate() can return true, or false, for what the build makes  *)
(* of the shifts.                                                          *)
Passes == \E space \in address_space_bytes(config.sys),
             subarray \in size_of_subarray_bytes(config) : Valid(config, space, subarray)

Fails == \E space \in address_space_bytes(config.sys),
            subarray \in size_of_subarray_bytes(config) : ~ Valid(config, space, subarray)

(* The inductive invariant: an object exists only if its arguments have    *)
(* passed, and its fields are those of the address that was asked for.     *)
Constructed ==
  /\ config \in Config
  /\ verdict \in {"none", "refused", "accepted", "died", "decoded"}
  /\ asked \in Addresses \cup {{}}
  /\ Accepted => Passes
  /\ verdict = "refused" => Fails
  /\ verdict = "decoded" => ~ DecodeTraps(config) /\ ids = Decoded(config, asked)
  /\ verdict # "decoded" => ids = NoIds

(* The arguments are a configuration. *)
LEMMA InitConstructed == Init => Constructed
BY ConfigAssumption DEF Init, Constructed, Accepted

(* Construction looks at the arguments, decoding at the object. *)
LEMMA NextConstructed == Constructed /\ [Next]_vars => Constructed'
<1> SUFFICES ASSUME Constructed, [Next]_vars PROVE Constructed'
  OBVIOUS
<1>1. CASE Construct
  <2>1. /\ config' = config /\ asked' = asked /\ ids' = ids /\ verdict = "none"
        /\ \E space \in address_space_bytes(config.sys),
              subarray \in size_of_subarray_bytes(config) :
             verdict' = IF ValidationTraps(config.sys) THEN "died"
                        ELSE IF Valid(config, space, subarray) THEN "accepted"
                        ELSE "refused"
    BY <1>1 DEF Construct
  <2>2. verdict' \in {"died", "accepted", "refused"}
    BY <2>1
  <2>3. verdict' = "accepted" => Passes
    BY <2>1 DEF Passes
  <2>4. verdict' = "refused" => Fails
    BY <2>1 DEF Fails
  <2>5. (Passes <=> Passes') /\ (Fails <=> Fails')
    BY <2>1 DEF Passes, Fails
  <2>6. QED
    BY <2>1, <2>2, <2>3, <2>4, <2>5 DEF Constructed, Accepted
<1>2. CASE \E address \in Addresses : Decode(address)
  <2>1. PICK address \in Addresses : Decode(address)
    BY <1>2
  <2>2. /\ config' = config /\ asked' = address /\ Accepted
        /\ verdict' = IF DecodeTraps(config) THEN "died" ELSE "decoded"
        /\ ids' = IF DecodeTraps(config) THEN NoIds ELSE Decoded(config, address)
    BY <2>1 DEF Decode, Accepted
  <2>3. Passes <=> Passes'
    BY <2>2 DEF Passes
  <2>4. DecodeTraps(config)' <=> DecodeTraps(config)
    BY <2>2
  <2>5. QED
    BY <2>2, <2>3, <2>4 DEF Constructed, Accepted
<1>3. CASE UNCHANGED vars
  <2>1. (Passes <=> Passes') /\ (Fails <=> Fails')
    BY <1>3 DEF vars, Passes, Fails
  <2>2. QED
    BY <1>3, <2>1 DEF vars, Constructed, Accepted
<1>4. QED
  BY <1>1, <1>2, <1>3 DEF Next

(* The invariant holds in every reachable state. *)
LEMMA ConstructedAlways == Spec => []Constructed
BY InitConstructed, NextConstructed, PTL DEF Spec

(* What the masks of an object are. *)
LEMMA MasksOfConstructed ==
  ASSUME Constructed, Accepted
  PROVE  /\ SystemValid(config.sys) /\ MasksFit(config)
         /\ \A mask \in {config.bank_mask, config.row_mask, config.col_mask} :
              mask \in SUBSET Bits /\ mask # {}
<1>1. SystemValid(config.sys) /\ MasksFit(config)
  BY DEF Constructed, Passes, Valid
<1>2. bank_bits(config) >= 1 /\ row_bits(config) >= 1 /\ col_bits(config) >= 1
  BY <1>1, WidthsTyped DEF MasksFit
<1>3. QED
  BY <1>1, <1>2, EmptyMask DEF Constructed, Config

(* Bank, row and column are uint32 numbers: whatever passes, no division   *)
(* by zero gets as far as a result (dram_config.cpp:117-121,               *)
(* dram_controller.cpp:227-240).                                           *)
THEOREM ConfigTyped == Spec => []TypeOK
<1>1. Constructed => TypeOK
  <2> SUFFICES ASSUME Constructed PROVE TypeOK
    OBVIOUS
  <2>1. CASE verdict = "decoded"
    <3>1. ~ DecodeTraps(config) /\ ids = Decoded(config, asked) /\ Accepted
      BY <2>1 DEF Constructed, Accepted
    <3>2. \A mask \in {config.bank_mask, config.row_mask, config.col_mask} :
            first_one_position(mask) \in Nat \ {0}
      BY <3>1, MasksOfConstructed, LowestOne DEF DecodeTraps
    <3>3. \A mask \in {config.bank_mask, config.row_mask, config.col_mask} :
            Extract(asked, mask) \in 0 .. Uint32 - 1
      BY <3>2, ExtractTyped
    <3>4. QED
      BY <3>1, <3>3 DEF Constructed, TypeOK, Decoded
  <2>2. CASE verdict # "decoded"
    <3>1. 0 \in 0 .. Uint32 - 1
      BY WidthsTyped
    <3>2. QED
      BY <2>2, <3>1 DEF Constructed, TypeOK, NoIds
  <2>3. QED
    BY <2>1, <2>2
<1>2. QED
  BY <1>1, ConstructedAlways, PTL

(* The two validate() accept exactly the configurations that Stated        *)
(* describes, for integers of any width (system_config.hpp:92-127,         *)
(* dram_config.cpp:47-115).                                                *)
THEOREM AcceptsExactly == Spec => []AcceptedExactly
<1>1. Constructed => AcceptedExactly
  <2> SUFFICES ASSUME Constructed PROVE AcceptedExactly
    OBVIOUS
  <2>1. config \in Config
    BY DEF Constructed
  <2>2. Accepted => Stated(config)
    BY <2>1, ValidIsStated DEF Constructed, Passes
  <2>3. verdict = "refused" => ~ Stated(config) \/ config.sys.address_bus_width = Width64
    BY <2>1, StatedIsValid DEF Constructed, Fails
  <2>4. QED
    BY <2>2, <2>3 DEF AcceptedExactly
<1>2. QED
  BY <1>1, ConstructedAlways, PTL

(* For every system, chip and mapping that validate() accepts and every    *)
(* width of the integers, decoding dies or mixes addresses up              *)
(* (dram_config.cpp:117-121).                                              *)
THEOREM NoMappingEverWorks == Spec => []NoMappingWorks
<1>1. Constructed => NoMappingWorks
  <2> SUFFICES ASSUME Constructed, Accepted, Works(config) PROVE FALSE
    BY DEF NoMappingWorks
  <2> DEFINE w == config.sys.address_bus_width
  <2>1. w \in 1 .. Width64
    BY MasksOfConstructed DEF Works, SystemValid, BlockFits
  <2>2. 0 \in 0 .. w - 1
    BY <2>1, WidthsAssumption
  <2>3. {} \in SUBSET (0 .. w - 1) /\ {0} \in SUBSET (0 .. w - 1)
    BY <2>2
  <2>4. CASE \E mask \in {config.bank_mask, config.row_mask, config.col_mask} : 0 \in mask
    BY <2>4, BitZeroTraps DEF Constructed, Works
  <2>5. CASE \A mask \in {config.bank_mask, config.row_mask, config.col_mask} : 0 \notin mask
    <3>1. Decoded(config, {}) = Decoded(config, {0})
      BY <2>5, BitZeroLost
    <3>2. {} = {0}
      BY <2>3, <3>1 DEF Works
    <3>3. QED
      BY <3>2
  <2>6. QED
    BY <2>4, <2>5
<1>2. QED
  BY <1>1, ConstructedAlways, PTL

(* Decoding an address with all ones in a field gives a number behind the  *)
(* last bank, row or column of every accepted mapping                      *)
(* (dram_config.cpp:117-121).                                              *)
THEOREM TopIndexIsOut == Spec => []TopIndexOutOfRange
<1>1. Constructed => TopIndexOutOfRange
  <2> SUFFICES ASSUME Constructed, verdict = "decoded" PROVE TopIndexOutOfRange
    BY DEF TopIndexOutOfRange
  <2>1. ~ DecodeTraps(config) /\ ids = Decoded(config, asked) /\ Accepted
    BY DEF Constructed, Accepted
  <2>2. ASSUME NEW mask \in {config.bank_mask, config.row_mask, config.col_mask},
               mask \subseteq asked \cap Low
        PROVE  Extract(asked, mask) >= pow2[popcount(mask)]
    <3>1. mask \in SUBSET Bits /\ mask # {} /\ first_one_position(mask) \in Nat \ {0}
      BY <2>1, MasksOfConstructed, LowestOne DEF DecodeTraps
    <3>2. asked \cap mask = mask
      BY <2>2
    <3>3. (Value(mask) \div first_one_position(mask)) >= pow2[popcount(mask)]
      BY <2>2, <3>1, FieldTooLarge
    <3>4. Extract(asked, mask) = Value(mask) \div first_one_position(mask)
      <4>1. Extract(mask, mask) = Value(mask \cap mask) \div first_one_position(mask)
        BY <2>2, <3>1, ExtractUncut
      <4>2. mask \cap mask = mask
        OBVIOUS
      <4>3. Extract(mask, mask) = Extract(asked, mask)
        BY <3>2, <4>2 DEF Extract
      <4>4. QED
        BY <4>1, <4>2, <4>3
    <3>5. QED
      BY <3>3, <3>4
  <2>3. QED
    BY <2>1, <2>2 DEF TopIndexOutOfRange, Decoded, bank_bits, row_bits, col_bits
<1>2. QED
  BY <1>1, ConstructedAlways, PTL

(* Addresses that differ in a field get different numbers for it, whatever *)
(* the mapping (dram_config.cpp:117-121).                                  *)
THEOREM DifferentFieldsDiffer == Spec => FieldsToldApart
<1> DEFINE A == verdict = "decoded" /\ verdict' = "decoded" /\ asked \cup asked' \subseteq Low =>
      /\ ids.bank = ids'.bank => asked \cap config.bank_mask = asked' \cap config.bank_mask
      /\ ids.row = ids'.row => asked \cap config.row_mask = asked' \cap config.row_mask
      /\ ids.col = ids'.col => asked \cap config.col_mask = asked' \cap config.col_mask
<1>1. Constructed /\ Constructed' /\ [Next]_vars => A
  <2> SUFFICES ASSUME Constructed, Constructed', [Next]_vars,
                      verdict = "decoded", verdict' = "decoded", asked \cup asked' \subseteq Low
               PROVE  A
    OBVIOUS
  <2>1. config' = config
    BY DEF Next, Construct, Decode, vars
  <2>2. ~ DecodeTraps(config) /\ ids = Decoded(config, asked) /\ Accepted
    BY DEF Constructed, Accepted
  <2>3. ids' = Decoded(config, asked')
    BY <2>1 DEF Constructed
  <2>4. ASSUME NEW mask \in {config.bank_mask, config.row_mask, config.col_mask},
               Extract(asked, mask) = Extract(asked', mask)
        PROVE  asked \cap mask = asked' \cap mask
    <3>1. mask \in SUBSET Bits /\ mask # {} /\ first_one_position(mask) # 0
      BY <2>2, MasksOfConstructed DEF DecodeTraps
    <3>2. asked \subseteq Low /\ asked' \subseteq Low
      OBVIOUS
    <3>3. QED
      BY <2>4, <3>1, <3>2, DifferentFields
  <2>5. QED
    BY <2>2, <2>3, <2>4 DEF Decoded
<1>2. [][A]_vars => FieldsToldApart
  BY PTL DEF FieldsToldApart
<1>3. QED
  BY <1>1, <1>2, ConstructedAlways, PTL DEF Spec

(* An accepted configuration has eight cells for each address or, cut to   *)
(* 32 bits, none at all (dram_config.cpp:147-165, dram_bank.cpp:31-41).    *)
THEOREM MemoryAlwaysThere == Spec => []MemoryIsThere
<1>1. Constructed => MemoryIsThere
  <2> SUFFICES ASSUME Constructed, Accepted PROVE MemoryIsThere
    BY DEF MemoryIsThere
  <2>1. PICK space, subarray : Valid(config, space, subarray)
    BY DEF Constructed, Passes
  <2>2. config \in Config
    BY DEF Constructed
  <2>3. QED
    BY <2>1, <2>2, MemoryOfValid DEF MemoryIsThere
<1>2. QED
  BY <1>1, ConstructedAlways, PTL

(* The derived sizes of an accepted system divide without remainder        *)
(* (system_config.hpp:59-89).                                              *)
THEOREM SizesDivide == Spec => []DerivedSizes
<1>1. Constructed => DerivedSizes
  <2> SUFFICES ASSUME Constructed, Accepted PROVE DerivedSizes
    BY DEF DerivedSizes
  <2>1. config.sys \in System /\ SystemValid(config.sys)
    BY MasksOfConstructed DEF Constructed, Config
  <2>2. QED
    BY <2>1, SizesOfValid DEF DerivedSizes
<1>2. QED
  BY <1>1, ConstructedAlways, PTL

-----------------------------------------------------------------------------

(* What the modules of the memory assume of their sizes: at least one pin, *)
(* a bus of whole chips, at least one row and column, a product of them    *)
(* that does not wrap, and at least one bank (dram_bank.cpp:31-41, 75-79,  *)
(* dram_array.cpp:28-32, dram_config.cpp:69-73).  Every object provides    *)
(* them, but for those whose banks, rows or columns are cut to 32 bits.    *)
SizesAsAssumed ==
  Accepted =>
    LET Pins == number_of_subarrays(config)
        Bus  == config.sys.data_bus_width
        Rows == pow2[row_bits(config)] % Uint32
        Cols == pow2[col_bits(config)] % Uint32
    IN
    /\ Pins \in Nat \ {0} /\ Bus \in Nat /\ Bus >= Pins /\ Bus % Pins = 0
    /\ number_of_chips(config) * Pins = Bus
    /\ row_bits(config) + col_bits(config) < Width32 =>
         Rows \in Nat \ {0} /\ Cols \in Nat \ {0} /\ number_of_cells(config) = Rows * Cols
    /\ bank_bits(config) < Width32 => number_of_banks(config) \in Nat \ {0}

LEMMA SizesOfMemory ==
  ASSUME Constructed, Accepted
  PROVE  SizesAsAssumed
<1> DEFINE c == config
           r == row_bits(c)
           k == col_bits(c)
<1>1. c \in Config /\ c.sys \in System
  BY DEF Constructed, Config
<1>2. PICK space, subarray : Valid(c, space, subarray)
  BY DEF Constructed, Passes
<1>3. SystemValid(c.sys) /\ ChipsFit(c, space)
  BY <1>2 DEF Valid
<1>4. r \in Nat /\ k \in Nat /\ bank_bits(c) \in Nat /\ Width32 \in Nat
  BY <1>1, FieldsTyped, WidthsTyped
<1>5. PICK d \in 3 .. 6 : c.sys.data_bus_width = pow2[d]
  BY <1>1, <1>3, SystemShape
<1>6. PICK w \in 0 .. d : c.chip_width_bits = pow2[w] /\ number_of_chips(c) = pow2[d - w]
  <2>1. d \in Nat
    OBVIOUS
  <2>2. QED
    BY <1>1, <1>3, <1>5, <2>1, ChipsShape
<1>7. /\ pow2[w] \in Nat \ {0} /\ pow2[d] \in Nat /\ pow2[d] >= pow2[w]
      /\ pow2[d] % pow2[w] = 0 /\ pow2[d - w] * pow2[w] = pow2[d]
  <2>1. d \in Nat /\ w \in Nat /\ w <= d
    BY <1>6
  <2>2. pow2[w] \in Nat /\ pow2[w] >= 1 /\ pow2[d] \in Nat
    BY <2>1, PowerTyped
  <2>3. pow2[d] % pow2[w] = 0 /\ pow2[d - w] * pow2[w] = pow2[d]
    BY <2>1, PowerDivides
  <2>4. pow2[w] <= pow2[d]
    BY <2>1, PowerMonotone
  <2>5. QED
    BY <2>2, <2>3, <2>4
<1>8. ASSUME r + k < Width32
      PROVE  /\ pow2[r] % Uint32 \in Nat \ {0} /\ pow2[k] % Uint32 \in Nat \ {0}
             /\ number_of_cells(c) = (pow2[r] % Uint32) * (pow2[k] % Uint32)
  <2>1. r < Width32 /\ k < Width32
    BY <1>4, <1>8
  <2> HIDE DEF r, k
  <2>2. pow2[r] % Uint32 = pow2[r] /\ pow2[k] % Uint32 = pow2[k]
    BY <1>4, <2>1, PowerRemains DEF Uint32
  <2>3. pow2[r + k] = pow2[r] * pow2[k] /\ pow2[r] \in Nat /\ pow2[k] \in Nat
        /\ pow2[r] >= 1 /\ pow2[k] >= 1
    BY <1>4, PowerOfSum, PowerTyped
  <2>4. number_of_cells(c) = pow2[r + k]
    BY <1>1, <1>8, CellsCount DEF r, k
  <2>5. QED
    BY <2>2, <2>3, <2>4
<1>9. bank_bits(c) < Width32 => number_of_banks(c) \in Nat \ {0}
  <2>1. pow2[bank_bits(c)] \in Nat /\ pow2[bank_bits(c)] >= 1
    BY <1>4, PowerTyped
  <2>2. QED
    BY <1>1, <2>1, BanksCount
<1>10. QED
  BY <1>5, <1>6, <1>7, <1>8, <1>9 DEF SizesAsAssumed, number_of_subarrays

(* So what is proved of subarrays, banks, classes and dispatcher holds in  *)
(* every object, as far as its sizes are not cut (dram_config.cpp:47-115). *)
THEOREM ObjectsMeetAssumptions == Spec => []SizesAsAssumed
<1>1. Constructed => SizesAsAssumed
  BY SizesOfMemory DEF SizesAsAssumed
<1>2. QED
  BY <1>1, ConstructedAlways, PTL

=============================================================================
