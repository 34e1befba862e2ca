----------------------------- MODULE WireProofs -----------------------------
(****************************************************************************)
(* What one build writes another reads, for every width of bytes and words, *)
(* every type of component, message and world.                              *)
(****************************************************************************)
EXTENDS Wire, FiniteSetTheorems, SequenceTheorems, WellFoundedInduction, TLAPS

-----------------------------------------------------------------------------
(* Recursion *)

\* What holds of 0 and is passed on holds of all.
LEMMA EveryNat ==
    ASSUME NEW S, 0 \in S, \A n \in Nat : n \in S => n + 1 \in S
    PROVE  \A n \in Nat : n \in S
<1> DEFINE missing == Nat \ S
<1> SUFFICES ASSUME missing # {} PROVE FALSE
  OBVIOUS
<1>1. PICK m \in missing : \A k \in missing : <<k, m>> \notin OpToRel(<, Nat)
  BY WFMin, NatLessThanWellFounded
<1>2. m \in Nat /\ m \notin S /\ m # 0
  BY <1>1
<1>3. m - 1 \in Nat /\ m - 1 < m /\ (m - 1) + 1 = m
  BY <1>2
<1>4. m - 1 \notin missing
  BY <1>1, <1>2, <1>3 DEF OpToRel
<1> QED BY <1>2, <1>3, <1>4

LEMMA UpTo ==
    ASSUME NEW n \in Nat, NEW S, 0 \in S, \A k \in 0 .. n - 1 : k \in S => k + 1 \in S
    PROVE  n \in S /\ \A k \in 0 .. n : k \in S
<1> DEFINE T == {k \in Nat : k <= n => k \in S}
<1>1. 0 \in T
  OBVIOUS
<1>2. ASSUME NEW k \in Nat, k \in T PROVE k + 1 \in T
  <2>1. k + 1 <= n => k \in 0 .. n - 1 /\ k <= n
    OBVIOUS
  <2> QED BY <1>2, <2>1
<1>3. \A k \in Nat : k \in T
  <2> HIDE DEF T
  <2> QED BY <1>1, <1>2, EveryNat
<1> QED BY <1>3

-----------------------------------------------------------------------------
(* Numbers *)

LEMMA DivMod ==
    ASSUME NEW v \in Int, NEW b \in Nat \ {0}
    PROVE  /\ v = b * (v \div b) + (v % b)
           /\ v % b \in 0 .. b - 1 /\ v % b \in Int /\ v \div b \in Int
OBVIOUS

LEMMA DivModIs ==
    ASSUME NEW b \in Nat \ {0}, NEW q \in Int, NEW r \in 0 .. b - 1
    PROVE  (r + b * q) \div b = q /\ (r + b * q) % b = r
OBVIOUS

LEMMA ModSmall == ASSUME NEW p \in Nat, NEW v \in Nat, v < p PROVE v % p = v
OBVIOUS

LEMMA DivBelow ==
    ASSUME NEW v \in Nat, NEW b \in Nat \ {0}, NEW c \in Nat, v < b * c
    PROVE  v \div b \in Nat /\ v \div b < c
OBVIOUS

LEMMA TimesGrows == ASSUME NEW a \in Nat, NEW b \in Nat, NEW c \in Nat, a <= b PROVE c * a <= c * b
OBVIOUS

\* Powers
LEMMA PowersAre ==
    ASSUME NEW b \in Nat, NEW n \in Nat
    PROVE  \E p \in [0 .. n -> Nat] :
              /\ Power(b, n) = p[n] /\ p[0] = 1 /\ \A k \in 1 .. n : p[k] = b * p[k - 1]
<1> DEFINE Is(p, m) == p = [k \in 0 .. m |-> IF k = 0 THEN 1 ELSE b * p[k - 1]]
           S == {m \in Nat : \E p : Is(p, m)}
<1>1. 0 \in S
  <2>1. Is([k \in 0 .. 0 |-> 1], 0)
    OBVIOUS
  <2> QED BY <2>1
<1>2. ASSUME NEW m \in Nat, m \in S PROVE m + 1 \in S
  <2>1. PICK p : Is(p, m)
    BY <1>2
  <2> DEFINE q == [k \in 0 .. m + 1 |-> IF k = m + 1 THEN b * p[m] ELSE p[k]]
  <2>2. ASSUME NEW k \in 0 .. m + 1 PROVE q[k] = IF k = 0 THEN 1 ELSE b * q[k - 1]
    BY <2>1
  <2> HIDE DEF q
  <2>3. q = [k \in 0 .. m + 1 |-> q[k]]
    BY DEF q
  <2>4. Is(q, m + 1)
    BY <2>2, <2>3
  <2> QED BY <2>4
<1>3. n \in S
  <2> HIDE DEF S
  <2> QED BY <1>1, <1>2, EveryNat
<1>6. PICK p : p = CHOOSE g : Is(g, n)
  OBVIOUS
<1>7. Is(p, n) /\ Power(b, n) = p[n]
  BY <1>3, <1>6 DEF Power
<1>8. p[0] = 1 /\ \A k \in 1 .. n : p[k] = b * p[k - 1]
  BY <1>7
<1>9. p \in [0 .. n -> Nat]
  <2> DEFINE T == {k \in Nat : k <= n => p[k] \in Nat}
  <2>1. 0 \in T
    BY <1>8
  <2>2. ASSUME NEW k \in Nat, k \in T PROVE k + 1 \in T
    <3>1. k + 1 <= n => k + 1 \in 1 .. n /\ (k + 1) - 1 = k /\ k <= n
      OBVIOUS
    <3> QED BY <1>8, <2>2, <3>1
  <2>3. \A k \in Nat : k \in T
    <3> HIDE DEF T
    <3> QED BY <2>1, <2>2, EveryNat
  <2>4. \A k \in 0 .. n : p[k] \in Nat
    BY <2>3
  <2> HIDE DEF T
  <2> QED BY <1>7, <2>4
<1> QED BY <1>7, <1>8, <1>9

LEMMA PowerZero == ASSUME NEW b \in Nat PROVE Power(b, 0) = 1
BY PowersAre

LEMMA PowerNat == ASSUME NEW b \in Nat, NEW n \in Nat PROVE Power(b, n) \in Nat
<1>1. PICK p \in [0 .. n -> Nat] : Power(b, n) = p[n]
  BY PowersAre
<1> QED BY <1>1

LEMMA PowerNext ==
    ASSUME NEW b \in Nat, NEW n \in Nat
    PROVE  Power(b, n + 1) = b * Power(b, n)
<1>1. PICK p \in [0 .. n -> Nat] :
          Power(b, n) = p[n] /\ p[0] = 1 /\ \A k \in 1 .. n : p[k] = b * p[k - 1]
  BY PowersAre
<1>2. PICK q \in [0 .. n + 1 -> Nat] :
          Power(b, n + 1) = q[n + 1] /\ q[0] = 1 /\ \A k \in 1 .. n + 1 : q[k] = b * q[k - 1]
  <2>1. PICK m \in Nat : m = n + 1
    OBVIOUS
  <2> QED BY <2>1, PowersAre
<1> DEFINE S == {k \in Nat : k <= n => p[k] = q[k]}
<1>3. 0 \in S
  BY <1>1, <1>2
<1>4. ASSUME NEW k \in Nat, k \in S PROVE k + 1 \in S
  <2>1. k + 1 <= n => k + 1 \in 1 .. n /\ k + 1 \in 1 .. n + 1 /\ (k + 1) - 1 = k /\ k <= n
    OBVIOUS
  <2>2. k + 1 <= n => p[k + 1] = b * p[k] /\ q[k + 1] = b * q[k]
    BY <1>1, <1>2, <2>1
  <2> QED BY <1>4, <2>2
<1>5. n \in S
  <2> HIDE DEF S
  <2> QED BY <1>3, <1>4, EveryNat
<1>6. q[n + 1] = b * q[n]
  BY <1>2
<1> QED BY <1>1, <1>2, <1>5, <1>6

LEMMA PowerPositive ==
    ASSUME NEW b \in Nat \ {0}, NEW n \in Nat
    PROVE  Power(b, n) \in Nat \ {0}
<1> DEFINE S == {k \in Nat : Power(b, k) # 0}
<1>1. 0 \in S
  BY PowerZero
<1>2. ASSUME NEW k \in Nat, k \in S PROVE k + 1 \in S
  <2>1. Power(b, k) \in Nat /\ Power(b, k + 1) = b * Power(b, k) /\ Power(b, k) # 0
    BY <1>2, PowerNext, PowerNat
  <2>2. \A x \in Nat : x # 0 => b * x # 0
    OBVIOUS
  <2> QED BY <2>1, <2>2
<1>3. n \in S
  <2> HIDE DEF S
  <2> QED BY <1>1, <1>2, EveryNat
<1> QED BY <1>3, PowerNat

LEMMA TimesAssoc == ASSUME NEW a \in Nat, NEW b \in Nat, NEW c \in Nat PROVE (a * b) * c = a * (b * c)
OBVIOUS

LEMMA PowerPlus ==
    ASSUME NEW b \in Nat, NEW m \in Nat, NEW n \in Nat
    PROVE  Power(b, m + n) = Power(b, m) * Power(b, n)
<1> DEFINE S == {k \in Nat : Power(b, k + n) = Power(b, k) * Power(b, n)}
<1>1. 0 \in S
  BY PowerZero, PowerNat
<1>2. ASSUME NEW k \in Nat, k \in S PROVE k + 1 \in S
  <2>1. Power(b, (k + n) + 1) = b * Power(b, k + n) /\ Power(b, k + 1) = b * Power(b, k)
    BY PowerNext
  <2>2. Power(b, k) \in Nat /\ Power(b, n) \in Nat
    BY PowerNat
  <2>3. Power(b, k + n) = Power(b, k) * Power(b, n)
    BY <1>2
  <2>4. b * (Power(b, k) * Power(b, n)) = (b * Power(b, k)) * Power(b, n)
    BY <2>2, TimesAssoc
  <2>5. (k + n) + 1 = (k + 1) + n
    OBVIOUS
  <2> QED BY <2>1, <2>3, <2>4, <2>5
<1>3. m \in S
  <2> HIDE DEF S
  <2> QED BY <1>1, <1>2, EveryNat
<1> QED BY <1>3

LEMMA PowerGrows ==
    ASSUME NEW b \in Nat \ {0}, NEW m \in Nat, NEW n \in Nat, m <= n
    PROVE  Power(b, m) <= Power(b, n)
<1>1. PICK k \in Nat : n = m + k
  <2>1. n - m \in Nat /\ n = m + (n - m)
    OBVIOUS
  <2> QED BY <2>1
<1>2. Power(b, n) = Power(b, m) * Power(b, k)
  BY <1>1, PowerPlus
<1>3. Power(b, m) \in Nat /\ Power(b, k) \in Nat /\ 1 <= Power(b, k)
  BY PowerPositive
<1>4. Power(b, m) * 1 <= Power(b, m) * Power(b, k)
  BY <1>3, TimesGrows
<1> QED BY <1>2, <1>3, <1>4

LEMMA PowerTwice ==
    ASSUME NEW b \in Nat, NEW m \in Nat, NEW n \in Nat
    PROVE  Power(Power(b, m), n) = Power(b, m * n)
<1> DEFINE S == {k \in Nat : Power(Power(b, m), k) = Power(b, m * k)}
<1>0. Power(b, m) \in Nat
  BY PowerNat
<1>1. 0 \in S
  <2>1. m * 0 = 0
    OBVIOUS
  <2> QED BY <1>0, <2>1, PowerZero
<1>2. ASSUME NEW k \in Nat, k \in S PROVE k + 1 \in S
  <2>1. m * (k + 1) = m + m * k /\ m * k \in Nat
    OBVIOUS
  <2>2. Power(Power(b, m), k + 1) = Power(b, m) * Power(Power(b, m), k)
    BY <1>0, PowerNext
  <2>3. Power(b, m + m * k) = Power(b, m) * Power(b, m * k)
    BY <2>1, PowerPlus
  <2> QED BY <1>2, <2>1, <2>2, <2>3
<1>3. n \in S
  <2> HIDE DEF S
  <2> QED BY <1>1, <1>2, EveryNat
<1> QED BY <1>3

\* Digits
LEMMA LenIs ==
    ASSUME NEW V, NEW n \in Nat, NEW d \in [1 .. n -> V]
    PROVE  d \in Seq(V) /\ Len(d) = n /\ DOMAIN d = 1 .. n
OBVIOUS

LEMMA DigitsAre ==
    ASSUME NEW v \in Nat, NEW b \in Nat \ {0}, NEW n \in Nat
    PROVE  \E r \in [0 .. n -> Nat] :
              /\ Digits(v, b, n) = [i \in 1 .. n |-> r[i - 1] % b]
              /\ r[0] = v /\ \A k \in 1 .. n : r[k] = r[k - 1] \div b
<1> DEFINE Is(p, m) == p = [k \in 0 .. m |-> IF k = 0 THEN v ELSE p[k - 1] \div b]
           S == {m \in Nat : \E p : Is(p, m)}
<1>1. 0 \in S
  <2>1. Is([k \in 0 .. 0 |-> v], 0)
    OBVIOUS
  <2> QED BY <2>1
<1>2. ASSUME NEW m \in Nat, m \in S PROVE m + 1 \in S
  <2>1. PICK p : Is(p, m)
    BY <1>2
  <2> DEFINE q == [k \in 0 .. m + 1 |-> IF k = m + 1 THEN p[m] \div b ELSE p[k]]
  <2>2. ASSUME NEW k \in 0 .. m + 1 PROVE q[k] = IF k = 0 THEN v ELSE q[k - 1] \div b
    BY <2>1
  <2> HIDE DEF q
  <2>3. q = [k \in 0 .. m + 1 |-> q[k]]
    BY DEF q
  <2>4. Is(q, m + 1)
    BY <2>2, <2>3
  <2> QED BY <2>4
<1>3. n \in S
  <2> HIDE DEF S
  <2> QED BY <1>1, <1>2, EveryNat
<1>6. PICK p : p = CHOOSE g : Is(g, n)
  OBVIOUS
<1>7. Is(p, n) /\ Digits(v, b, n) = [i \in 1 .. n |-> p[i - 1] % b]
  BY <1>3, <1>6 DEF Digits
<1>8. p[0] = v /\ \A k \in 1 .. n : p[k] = p[k - 1] \div b
  BY <1>7
<1>9. p \in [0 .. n -> Nat]
  <2> DEFINE T == {k \in Nat : k <= n => p[k] \in Nat}
  <2>1. 0 \in T
    BY <1>8
  <2>2. ASSUME NEW k \in Nat, k \in T PROVE k + 1 \in T
    <3>1. k + 1 <= n => k + 1 \in 1 .. n /\ (k + 1) - 1 = k /\ k <= n
      OBVIOUS
    <3>2. \A x \in Nat : x \div b \in Nat
      OBVIOUS
    <3> QED BY <1>8, <2>2, <3>1, <3>2
  <2>3. \A k \in Nat : k \in T
    <3> HIDE DEF T
    <3> QED BY <2>1, <2>2, EveryNat
  <2>4. \A k \in 0 .. n : p[k] \in Nat
    BY <2>3
  <2> HIDE DEF T
  <2> QED BY <1>7, <2>4
<1> QED BY <1>7, <1>8, <1>9

LEMMA NumberIs ==
    ASSUME NEW b \in Nat \ {0}, NEW n \in Nat, NEW d \in [1 .. n -> Nat]
    PROVE  \E u \in [0 .. n -> Nat] :
              /\ Number(d, b) = u[n] /\ u[0] = 0
              /\ \A k \in 1 .. n : u[k] = d[n - k + 1] + b * u[k - 1]
<1> DEFINE e(k, x) == d[Len(d) - k + 1] + b * x
           Is(p, m) == p = [k \in 0 .. m |-> IF k = 0 THEN 0 ELSE e(k, p[k - 1])]
           S == {m \in Nat : \E p : Is(p, m)}
<1>0. Len(d) = n
  BY LenIs
<1>1. 0 \in S
  <2>1. Is([k \in 0 .. 0 |-> 0], 0)
    OBVIOUS
  <2> QED BY <2>1
<1>2. ASSUME NEW m \in Nat, m \in S PROVE m + 1 \in S
  <2> HIDE DEF e
  <2>1. PICK p : Is(p, m)
    BY <1>2
  <2> DEFINE q == [k \in 0 .. m + 1 |-> IF k = m + 1 THEN e(m + 1, p[m]) ELSE p[k]]
  <2>2. ASSUME NEW k \in 0 .. m + 1 PROVE q[k] = IF k = 0 THEN 0 ELSE e(k, q[k - 1])
    BY <2>1
  <2> HIDE DEF q
  <2>3. q = [k \in 0 .. m + 1 |-> q[k]]
    BY DEF q
  <2>4. Is(q, m + 1)
    BY <2>2, <2>3
  <2> HIDE DEF Is
  <2> QED BY <2>4
<1>3. n \in S
  <2> HIDE DEF S
  <2> QED BY <1>1, <1>2, EveryNat
<1>6. PICK p : p = CHOOSE g : Is(g, Len(d))
  OBVIOUS
<1>7. Is(p, n) /\ Number(d, b) = p[n]
  <2>1. \E g : Is(g, Len(d))
    BY <1>0, <1>3
  <2>2. Is(p, Len(d))
    <3> HIDE DEF Is
    <3> QED BY <1>6, <2>1
  <2>3. Number(d, b) = p[Len(d)]
    BY <1>6 DEF Number
  <2> QED BY <1>0, <2>2, <2>3
<1>8. p[0] = 0 /\ \A k \in 1 .. n : p[k] = d[n - k + 1] + b * p[k - 1]
  BY <1>0, <1>7
<1>9. p \in [0 .. n -> Nat]
  <2> DEFINE T == {k \in Nat : k <= n => p[k] \in Nat}
  <2>1. 0 \in T
    BY <1>8
  <2>2. ASSUME NEW k \in Nat, k \in T, k + 1 <= n PROVE p[k + 1] \in Nat
    <3>1. k + 1 \in 1 .. n /\ (k + 1) - 1 = k /\ k <= n /\ n - (k + 1) + 1 \in 1 .. n
      BY <2>2
    <3>2. \A x, y \in Nat : x + b * y \in Nat
      OBVIOUS
    <3>3. p[k + 1] = d[n - (k + 1) + 1] + b * p[k]
      BY <1>8, <3>1
    <3>4. d[n - (k + 1) + 1] \in Nat /\ p[k] \in Nat
      BY <2>2, <3>1
    <3> QED BY <3>2, <3>3, <3>4
  <2>3. \A k \in Nat : k \in T
    <3>1. ASSUME NEW k \in Nat, k \in T PROVE k + 1 \in T
      BY <2>2, <3>1
    <3> HIDE DEF T
    <3> QED BY <2>1, <3>1, EveryNat
  <2>4. \A k \in 0 .. n : p[k] \in Nat
    BY <2>3
  <2> HIDE DEF T
  <2> QED BY <1>7, <2>4
<1> QED BY <1>7, <1>8, <1>9

LEMMA DigitsType ==
    ASSUME NEW v \in Nat, NEW b \in Nat \ {0}, NEW n \in Nat
    PROVE  /\ Digits(v, b, n) \in [1 .. n -> 0 .. b - 1]
           /\ Digits(v, b, n) \in Seq(Nat) /\ Len(Digits(v, b, n)) = n
<1>1. PICK r \in [0 .. n -> Nat] :
          /\ Digits(v, b, n) = [i \in 1 .. n |-> r[i - 1] % b]
          /\ r[0] = v /\ \A k \in 1 .. n : r[k] = r[k - 1] \div b
  BY DigitsAre
<1>2. ASSUME NEW i \in 1 .. n PROVE r[i - 1] % b \in 0 .. b - 1
  <2>1. r[i - 1] \in Nat
    OBVIOUS
  <2> QED BY <2>1
<1>3. Digits(v, b, n) \in [1 .. n -> 0 .. b - 1]
  BY <1>1, <1>2
<1>4. Digits(v, b, n) \in [1 .. n -> Nat]
  BY <1>1, <1>2
<1>5. Digits(v, b, n) \in Seq(Nat) /\ Len(Digits(v, b, n)) = n
  BY <1>4, LenIs
<1> QED BY <1>3, <1>5

LEMMA BelowNext ==
    ASSUME NEW b \in Nat \ {0}, NEW r \in 0 .. b - 1, NEW x \in Nat, NEW y \in Nat, x < y
    PROVE  r + b * x \in Nat /\ r + b * x < b * y
<1>1. b * (x + 1) <= b * y
  BY TimesGrows
<1> QED BY <1>1

\* A number of n digits is below the power.
LEMMA NumberBelow ==
    ASSUME NEW b \in Nat \ {0}, NEW n \in Nat, NEW d \in [1 .. n -> 0 .. b - 1]
    PROVE  Number(d, b) \in Nat /\ Number(d, b) < Power(b, n)
<1>0. d \in [1 .. n -> Nat]
  OBVIOUS
<1>1. PICK u \in [0 .. n -> Nat] :
          /\ Number(d, b) = u[n] /\ u[0] = 0
          /\ \A k \in 1 .. n : u[k] = d[n - k + 1] + b * u[k - 1]
  BY <1>0, NumberIs
<1> DEFINE S == {k \in 0 .. n : u[k] < Power(b, k)}
<1>2. 0 \in S
  BY <1>1, PowerZero
<1>3. ASSUME NEW k \in 0 .. n - 1, k \in S PROVE k + 1 \in S
  <2>1. k \in Nat /\ k + 1 \in 1 .. n /\ (k + 1) - 1 = k /\ k <= n /\ n - (k + 1) + 1 \in 1 .. n
    BY <1>3
  <2>2. u[k + 1] = d[n - (k + 1) + 1] + b * u[k]
    BY <1>1, <2>1
  <2>3. d[n - (k + 1) + 1] \in 0 .. b - 1 /\ u[k] \in Nat /\ u[k] < Power(b, k)
    BY <1>3, <2>1
  <2>4. Power(b, k) \in Nat /\ Power(b, k + 1) = b * Power(b, k)
    BY <2>1, PowerNat, PowerNext
  <2>5. u[k + 1] < Power(b, k + 1)
    BY <2>2, <2>3, <2>4, BelowNext
  <2> QED BY <2>1, <2>5
<1>4. n \in S
  <2> HIDE DEF S
  <2> QED BY <1>2, <1>3, UpTo
<1> QED BY <1>1, <1>4

\* What is written in n digits is read back.
LEMMA NumberOfDigits ==
    ASSUME NEW b \in Nat \ {0}, NEW n \in Nat, NEW v \in Nat, v < Power(b, n)
    PROVE  Number(Digits(v, b, n), b) = v
<1>1. PICK r \in [0 .. n -> Nat] :
          /\ Digits(v, b, n) = [i \in 1 .. n |-> r[i - 1] % b]
          /\ r[0] = v /\ \A k \in 1 .. n : r[k] = r[k - 1] \div b
  BY DigitsAre
<1> DEFINE d == Digits(v, b, n)
<1>2. d \in [1 .. n -> Nat]
  <2>1. d \in [1 .. n -> 0 .. b - 1]
    BY DigitsType
  <2> QED BY <2>1
<1>3. PICK u \in [0 .. n -> Nat] :
          /\ Number(d, b) = u[n] /\ u[0] = 0
          /\ \A k \in 1 .. n : u[k] = d[n - k + 1] + b * u[k - 1]
  BY <1>2, NumberIs
<1>4. \A i \in 1 .. n : d[i] = r[i - 1] % b
  BY <1>1
<1> HIDE DEF d
<1> DEFINE S == {k \in 0 .. n : r[k] < Power(b, n - k)}
<1>5. 0 \in S
  BY <1>1
<1>6. ASSUME NEW k \in 0 .. n - 1, k \in S PROVE k + 1 \in S
  <2>1. k \in Nat /\ k + 1 \in 1 .. n /\ (k + 1) - 1 = k /\ k <= n /\ n - (k + 1) \in Nat
        /\ (n - (k + 1)) + 1 = n - k
    BY <1>6
  <2>2. r[k + 1] = r[k] \div b /\ r[k] \in Nat /\ r[k] < Power(b, n - k)
    BY <1>1, <1>6, <2>1
  <2>3. /\ Power(b, n - (k + 1)) \in Nat
        /\ Power(b, (n - (k + 1)) + 1) = b * Power(b, n - (k + 1))
    BY <2>1, PowerNat, PowerNext
  <2>4. r[k + 1] < Power(b, n - (k + 1))
    BY <2>1, <2>2, <2>3, DivBelow
  <2> QED BY <2>1, <2>4
<1>7. \A k \in 0 .. n : k \in S
  <2> HIDE DEF S
  <2> QED BY <1>5, <1>6, UpTo
<1> DEFINE T == {k \in 0 .. n : u[k] = r[n - k]}
<1>8. 0 \in T
  <2>1. r[n] < Power(b, n - n) /\ n - n = 0 /\ r[n] \in Nat
    BY <1>7
  <2>2. r[n] = 0
    BY <2>1, PowerZero
  <2> QED BY <1>3, <2>2
<1>9. ASSUME NEW k \in 0 .. n - 1, k \in T PROVE k + 1 \in T
  <2>1. /\ k + 1 \in 1 .. n /\ (k + 1) - 1 = k /\ k <= n
        /\ k \in Nat /\ n - (k + 1) + 1 = n - k /\ n - k \in 1 .. n /\ (n - k) - 1 = n - (k + 1)
        /\ n - (k + 1) \in 0 .. n
    BY <1>9
  <2>2. u[k + 1] = d[n - k] + b * u[k]
    BY <1>3, <2>1
  <2>3. d[n - k] = r[n - (k + 1)] % b
    BY <1>4, <2>1
  <2>4. u[k] = r[n - k] /\ r[n - k] = r[n - (k + 1)] \div b
    BY <1>1, <1>9, <2>1
  <2>5. r[n - (k + 1)] \in Nat
    BY <2>1
  <2>6. u[k + 1] = r[n - (k + 1)]
    <3>1. PICK x \in Nat : x = r[n - (k + 1)]
      BY <2>5
    <3>0. x \in Int
      OBVIOUS
    <3>2. x = b * (x \div b) + (x % b) /\ x \div b \in Int /\ x % b \in Int
      BY <3>0, DivMod, Zenon
    <3> QED BY <2>2, <2>3, <2>4, <3>1, <3>2
  <2> QED BY <2>1, <2>6
<1>10. n \in T
  <2> HIDE DEF T
  <2> QED BY <1>8, <1>9, UpTo
<1> QED BY <1>1, <1>3, <1>10 DEF d

\* And the digits of a number are those it was made of.
LEMMA DigitsOfNumber ==
    ASSUME NEW b \in Nat \ {0}, NEW n \in Nat, NEW d \in [1 .. n -> 0 .. b - 1]
    PROVE  Digits(Number(d, b), b, n) = d
<1>0. d \in [1 .. n -> Nat]
  OBVIOUS
<1>1. PICK u \in [0 .. n -> Nat] :
          /\ Number(d, b) = u[n] /\ u[0] = 0
          /\ \A k \in 1 .. n : u[k] = d[n - k + 1] + b * u[k - 1]
  BY <1>0, NumberIs
<1>2. PICK v \in Nat : v = Number(d, b)
  BY NumberBelow
<1>3. PICK r \in [0 .. n -> Nat] :
          /\ Digits(v, b, n) = [i \in 1 .. n |-> r[i - 1] % b]
          /\ r[0] = v /\ \A k \in 1 .. n : r[k] = r[k - 1] \div b
  BY DigitsAre
<1>4. ASSUME NEW k \in 1 .. n
      PROVE  u[n - k] = u[n - k + 1] \div b /\ d[k] = u[n - k + 1] % b
  <2>1. n - k + 1 \in 1 .. n /\ (n - k + 1) - 1 = n - k /\ n - (n - k + 1) + 1 = k /\ n - k \in 0 .. n
    OBVIOUS
  <2>2. u[n - k + 1] = d[k] + b * u[n - k]
    BY <1>1, <2>1
  <2>3. d[k] \in 0 .. b - 1 /\ u[n - k] \in Int
    BY <2>1
  <2> QED BY <2>2, <2>3, DivModIs
<1> DEFINE S == {k \in 0 .. n : r[k] = u[n - k]}
<1>5. 0 \in S
  BY <1>1, <1>2, <1>3
<1>6. ASSUME NEW k \in 0 .. n - 1, k \in S PROVE k + 1 \in S
  <2>1. k \in Nat /\ k + 1 \in 1 .. n /\ (k + 1) - 1 = k /\ k <= n /\ n - (k + 1) + 1 = n - k
    BY <1>6
  <2>2. r[k + 1] = r[k] \div b /\ r[k] = u[n - k]
    BY <1>3, <1>6, <2>1
  <2>3. u[n - (k + 1)] = u[n - k] \div b
    BY <1>4, <2>1
  <2> QED BY <2>2, <2>3
<1>7. \A k \in 0 .. n : k \in S
  <2> HIDE DEF S
  <2> QED BY <1>5, <1>6, UpTo
<1>8. ASSUME NEW i \in 1 .. n PROVE r[i - 1] % b = d[i]
  <2>1. i - 1 \in 0 .. n /\ n - (i - 1) = n - i + 1
    OBVIOUS
  <2>2. r[i - 1] = u[n - i + 1]
    BY <1>7, <2>1
  <2> QED BY <1>4, <2>2
<1>9. [i \in 1 .. n |-> r[i - 1] % b] = d
  BY <1>8
<1> QED BY <1>2, <1>3, <1>9

-----------------------------------------------------------------------------
(* Bytes: what is there agrees with what was written at its place, as far   *)
(* as there is anything.                                                    *)

Agrees(b, at, s) == \A j \in 1 .. Len(s) : at + j - 1 <= Len(b) => b[at + j - 1] = s[j]
Whole(b, at, s)  == at + Len(s) - 1 <= Len(b)
Place == Nat \ {0}

LEMMA AgreesSplit ==
    ASSUME NEW b \in Seq(Nat), NEW at \in Place, NEW s \in Seq(Nat), NEW t \in Seq(Nat),
           Agrees(b, at, s \o t)
    PROVE  /\ Agrees(b, at, s) /\ Agrees(b, at + Len(s), t)
           /\ at + Len(s) \in Place /\ Len(s \o t) = Len(s) + Len(t)
           /\ s \o t \in Seq(Nat)
<1>1. /\ Len(s) \in Nat /\ Len(t) \in Nat /\ Len(s \o t) = Len(s) + Len(t) /\ s \o t \in Seq(Nat)
      /\ \A i \in 1 .. Len(s) : (s \o t)[i] = s[i]
      /\ \A i \in 1 .. Len(t) : (s \o t)[Len(s) + i] = t[i]
  OBVIOUS
<1>2. PICK st : st = s \o t
  OBVIOUS
<1>3. \A j \in 1 .. Len(st) : at + j - 1 <= Len(b) => b[at + j - 1] = st[j]
  BY <1>2 DEF Agrees
<1>4. ASSUME NEW j \in 1 .. Len(s), at + j - 1 <= Len(b) PROVE b[at + j - 1] = s[j]
  <2>1. j \in 1 .. Len(st)
    BY <1>1, <1>2
  <2> QED BY <1>1, <1>2, <1>3, <1>4, <2>1
<1>5. ASSUME NEW j \in 1 .. Len(t), at + Len(s) + j - 1 <= Len(b)
      PROVE  b[at + Len(s) + j - 1] = t[j]
  <2>1. Len(s) + j \in 1 .. Len(st) /\ at + (Len(s) + j) - 1 = at + Len(s) + j - 1
    BY <1>1, <1>2 DEF Place
  <2> QED BY <1>1, <1>2, <1>3, <1>5, <2>1
<1>6. at + Len(s) \in Place
  BY <1>1 DEF Place
<1> QED BY <1>1, <1>4, <1>5, <1>6 DEF Agrees

LEMMA AgreesOne ==
    ASSUME NEW b \in Seq(Nat), NEW at \in Place, NEW x \in Nat, Agrees(b, at, <<x>>), at <= Len(b)
    PROVE  b[at] = x
BY DEF Agrees, Place

LEMMA AgreesAll ==
    ASSUME NEW b \in Seq(Nat), NEW at \in Place, NEW s \in Seq(Nat), Agrees(b, at, s), Whole(b, at, s)
    PROVE  SubSeq(b, at, at + Len(s) - 1) = s
<1>1. Len(s) \in Nat /\ Len(b) \in Nat /\ at \in Nat /\ 1 <= at
  BY DEF Place
<1>2. SubSeq(b, at, at + Len(s) - 1) = [i \in 1 .. Len(s) |-> b[at + i - 1]]
  <2>1. SubSeq(b, at, at + Len(s) - 1)
        = [i \in 1 .. (1 + (at + Len(s) - 1)) - at |-> b[(i + at) - 1]]
    BY <1>1
  <2>2. (1 + (at + Len(s) - 1)) - at = Len(s)
    BY <1>1
  <2>3. \A i \in 1 .. Len(s) : (i + at) - 1 = at + i - 1
    BY <1>1
  <2> QED BY <2>1, <2>2, <2>3
<1>3. \A i \in 1 .. Len(s) : b[at + i - 1] = s[i]
  <2> SUFFICES ASSUME NEW i \in 1 .. Len(s) PROVE b[at + i - 1] = s[i]
    OBVIOUS
  <2>1. at + i - 1 <= Len(b)
    BY <1>1 DEF Whole
  <2> QED BY <2>1 DEF Agrees
<1>4. s = [i \in 1 .. Len(s) |-> s[i]]
  OBVIOUS
<1> QED BY <1>2, <1>3, <1>4

\* What comes first agrees.
LEMMA PrefixAgrees ==
    ASSUME NEW s \in Seq(Nat), NEW n \in 0 .. Len(s)
    PROVE  /\ SubSeq(s, 1, n) \in Seq(Nat) /\ Len(SubSeq(s, 1, n)) = n
           /\ Agrees(SubSeq(s, 1, n), 1, s)
<1>1. SubSeq(s, 1, n) \in Seq(Nat) /\ Len(SubSeq(s, 1, n)) = n
      /\ \A i \in 1 .. n : SubSeq(s, 1, n)[i] = s[i]
  OBVIOUS
<1>2. PICK b : b = SubSeq(s, 1, n)
  OBVIOUS
<1>3. ASSUME NEW j \in 1 .. Len(s), 1 + j - 1 <= Len(b) PROVE b[1 + j - 1] = s[j]
  <2>1. j \in 1 .. n /\ 1 + j - 1 = j
    BY <1>1, <1>2, <1>3
  <2> QED BY <1>1, <1>2, <2>1
<1> QED BY <1>1, <1>2, <1>3 DEF Agrees

LEMMA WholePrefix ==
    ASSUME NEW s \in Seq(Nat), NEW n \in 0 .. Len(s)
    PROVE  (SubSeq(s, 1, n) = s) <=> n = Len(s)
OBVIOUS

\* One part after the other
LEMMA FlattenIs ==
    ASSUME NEW n \in Nat, NEW parts \in [1 .. n -> Seq(Nat)]
    PROVE  \E f \in [0 .. n -> Seq(Nat)] :
              /\ FlattenSeq(parts) = f[n] /\ f[0] = <<>>
              /\ \A i \in 1 .. n : f[i] = f[i - 1] \o parts[i]
<1>0. Len(parts) = n /\ parts \in Seq(Seq(Nat))
  BY LenIs
<1>1. CASE n = 0
  <2>1. parts = <<>>
    BY <1>0, <1>1
  <2>2. FlattenSeq(parts) = <<>>
    BY <1>0, <1>1, <2>1 DEF FlattenSeq
  <2> DEFINE f == [i \in 0 .. 0 |-> <<>>]
  <2>3. f \in [0 .. n -> Seq(Nat)] /\ f[0] = <<>> /\ f[n] = <<>>
    BY <1>1
  <2> HIDE DEF f
  <2> QED BY <1>1, <2>2, <2>3
<1>2. CASE n # 0
  <2> DEFINE Is(f, m) == f = [i \in 1 .. m |-> IF i = 1 THEN parts[i] ELSE f[i - 1] \o parts[i]]
             S == {m \in Nat : \E f : Is(f, m + 1)}
  <2>1. 0 \in S
    <3>1. Is([i \in 1 .. 1 |-> parts[1]], 1)
      OBVIOUS
    <3>2. 0 + 1 = 1
      OBVIOUS
    <3> HIDE DEF Is
    <3> QED BY <3>1, <3>2
  <2>2. ASSUME NEW m \in Nat, m \in S PROVE m + 1 \in S
    <3>1. PICK p : Is(p, m + 1)
      BY <2>2
    <3> DEFINE last == p[m + 1] \o parts[m + 2]
               q == [i \in 1 .. m + 2 |-> IF i = m + 2 THEN last ELSE p[i]]
    <3>2. \A i \in 1 .. m + 1 : p[i] = IF i = 1 THEN parts[i] ELSE p[i - 1] \o parts[i]
      BY <3>1
    <3> HIDE DEF last
    <3>3. q = [i \in 1 .. m + 2 |-> q[i]] /\ q[m + 2] = last /\ \A i \in 1 .. m + 1 : q[i] = p[i]
      OBVIOUS
    <3> HIDE DEF q
    <3>4. ASSUME NEW i \in 1 .. m + 2 PROVE q[i] = IF i = 1 THEN parts[i] ELSE q[i - 1] \o parts[i]
      <4>1. CASE i = m + 2
        <5>1. i # 1 /\ i - 1 = m + 1 /\ m + 1 \in 1 .. m + 1
          BY <4>1
        <5> QED BY <3>3, <4>1, <5>1 DEF last
      <4>2. CASE i # m + 2
        <5>1. i \in 1 .. m + 1 /\ (i # 1 => i - 1 \in 1 .. m + 1)
          BY <4>2
        <5>2. CASE i = 1
          BY <3>2, <3>3, <5>1, <5>2
        <5>3. CASE i # 1
          BY <3>2, <3>3, <5>1, <5>3
        <5> QED BY <5>2, <5>3
      <4> QED BY <4>1, <4>2
    <3>5. Is(q, (m + 1) + 1)
      <4>1. (m + 1) + 1 = m + 2
        OBVIOUS
      <4>2. Is(q, m + 2)
        BY <3>3, <3>4
      <4> HIDE DEF Is
      <4> QED BY <4>1, <4>2
    <3> HIDE DEF Is
    <3> QED BY <3>5
  <2>3. n - 1 \in S
    <3>1. n - 1 \in Nat
      BY <1>2
    <3> HIDE DEF S
    <3> QED BY <2>1, <2>2, <3>1, EveryNat
  <2>4. \E f : Is(f, Len(parts))
    <3>1. (n - 1) + 1 = Len(parts)
      BY <1>0
    <3> HIDE DEF Is
    <3> QED BY <2>3, <3>1
  <2>5. PICK p : p = CHOOSE g : Is(g, Len(parts))
    OBVIOUS
  <2>6. FlattenSeq(parts) = p[Len(parts)]
    BY <1>0, <1>2, <2>5 DEF FlattenSeq
  <2>7. Is(p, Len(parts))
    <3> HIDE DEF Is
    <3> QED BY <2>4, <2>5
  <2>8. \A i \in 1 .. n : p[i] = IF i = 1 THEN parts[i] ELSE p[i - 1] \o parts[i]
    BY <1>0, <2>7
  <2> DEFINE f == [i \in 0 .. n |-> IF i = 0 THEN <<>> ELSE p[i]]
  <2>9. f = [i \in 0 .. n |-> f[i]] /\ f[0] = <<>> /\ \A i \in 1 .. n : f[i] = p[i]
    OBVIOUS
  <2> HIDE DEF f
  <2>10. ASSUME NEW i \in 1 .. n PROVE f[i] = f[i - 1] \o parts[i]
    <3>0. parts[i] \in Seq(Nat)
      OBVIOUS
    <3>1. CASE i = 1
      <4>1. <<>> \o parts[i] = parts[i] /\ i - 1 = 0
        BY <3>0, <3>1
      <4>2. p[i] = parts[i]
        BY <2>8, <3>1
      <4> QED BY <2>9, <4>1, <4>2
    <3>2. CASE i # 1
      <4>1. i - 1 \in 1 .. n
        BY <3>2
      <4> QED BY <2>8, <2>9, <3>2, <4>1
    <3> QED BY <3>1, <3>2
  <2> DEFINE T == {i \in 0 .. n : f[i] \in Seq(Nat)}
  <2>11. 0 \in T
    <3>1. <<>> \in Seq(Nat) /\ 0 \in 0 .. n
      OBVIOUS
    <3> QED BY <2>9, <3>1
  <2>12. ASSUME NEW i \in 0 .. n - 1, i \in T PROVE i + 1 \in T
    <3>1. i + 1 \in 1 .. n /\ (i + 1) - 1 = i /\ i + 1 \in 0 .. n /\ parts[i + 1] \in Seq(Nat)
      OBVIOUS
    <3>2. f[i + 1] = f[i] \o parts[i + 1]
      BY <2>10, <3>1
    <3>3. f[i] \in Seq(Nat)
      BY <2>12
    <3>4. f[i + 1] \in Seq(Nat)
      BY <3>1, <3>2, <3>3
    <3> QED BY <3>1, <3>4
  <2>13. \A i \in 0 .. n : i \in T
    <3> HIDE DEF T
    <3> QED BY <2>11, <2>12, UpTo
  <2>14. f \in [0 .. n -> Seq(Nat)]
    <3>1. \A i \in 0 .. n : f[i] \in Seq(Nat)
      BY <2>13
    <3> QED BY <2>9, <3>1
  <2>15. FlattenSeq(parts) = f[n]
    <3>1. n \in 1 .. n
      BY <1>2
    <3> QED BY <1>0, <2>6, <2>9, <3>1
  <2> QED BY <2>9, <2>10, <2>14, <2>15
<1> QED BY <1>1, <1>2

\* Where each part begins.
LEMMA FlattenPlaces ==
    ASSUME NEW n \in Nat, NEW parts \in [1 .. n -> Seq(Nat)]
    PROVE  /\ FlattenSeq(parts) \in Seq(Nat)
           /\ \E o \in [0 .. n -> Nat] :
                /\ Len(FlattenSeq(parts)) = o[n] /\ o[0] = 0
                /\ \A i \in 1 .. n : o[i] = o[i - 1] + Len(parts[i])
                /\ \A b \in Seq(Nat), at \in Place :
                      Agrees(b, at, FlattenSeq(parts)) =>
                        \A i \in 1 .. n : Agrees(b, at + o[i - 1], parts[i])
<1>1. PICK f \in [0 .. n -> Seq(Nat)] :
          /\ FlattenSeq(parts) = f[n] /\ f[0] = <<>>
          /\ \A i \in 1 .. n : f[i] = f[i - 1] \o parts[i]
  BY FlattenIs
<1> DEFINE o == [i \in 0 .. n |-> Len(f[i])]
<1>2. o \in [0 .. n -> Nat] /\ \A i \in 0 .. n : o[i] = Len(f[i]) /\ f[i] \in Seq(Nat)
  OBVIOUS
<1> HIDE DEF o
<1>3. Len(FlattenSeq(parts)) = o[n] /\ o[0] = 0 /\ FlattenSeq(parts) \in Seq(Nat)
  <2>1. n \in 0 .. n /\ 0 \in 0 .. n /\ Len(<<>>) = 0
    OBVIOUS
  <2> QED BY <1>1, <1>2, <2>1
<1>4. ASSUME NEW i \in 1 .. n PROVE o[i] = o[i - 1] + Len(parts[i])
  <2>1. i \in 0 .. n /\ i - 1 \in 0 .. n /\ parts[i] \in Seq(Nat)
    OBVIOUS
  <2>2. f[i] = f[i - 1] \o parts[i]
    BY <1>1
  <2>3. \A x, y \in Seq(Nat) : Len(x \o y) = Len(x) + Len(y)
    OBVIOUS
  <2>4. f[i - 1] \in Seq(Nat) /\ o[i] = Len(f[i]) /\ o[i - 1] = Len(f[i - 1])
    BY <1>2, <2>1
  <2> QED BY <2>1, <2>2, <2>3, <2>4
<1>5. ASSUME NEW b \in Seq(Nat), NEW at \in Place, Agrees(b, at, FlattenSeq(parts)), NEW i \in 1 .. n
      PROVE  Agrees(b, at + o[i - 1], parts[i])
  <2> DEFINE S == {k \in 0 .. n : Agrees(b, at, f[n - k])}
  <2>1. 0 \in S
    BY <1>1, <1>5
  <2>2. ASSUME NEW k \in 0 .. n - 1, k \in S PROVE k + 1 \in S
    <3>1. n - k \in 1 .. n /\ (n - k) - 1 = n - (k + 1) /\ n - (k + 1) \in 0 .. n /\ k + 1 \in 0 .. n
      OBVIOUS
    <3>2. f[n - k] = f[n - (k + 1)] \o parts[n - k] /\ Agrees(b, at, f[n - k])
      BY <1>1, <2>2, <3>1
    <3>3. f[n - (k + 1)] \in Seq(Nat) /\ parts[n - k] \in Seq(Nat)
      BY <3>1
    <3>4. Agrees(b, at, f[n - (k + 1)])
      BY <3>2, <3>3, AgreesSplit
    <3> QED BY <3>1, <3>4
  <2>3. \A k \in 0 .. n : k \in S
    <3> HIDE DEF S
    <3> QED BY <2>1, <2>2, UpTo
  <2>4. n - i \in 0 .. n /\ n - (n - i) = i /\ i - 1 \in 0 .. n
    OBVIOUS
  <2>5. Agrees(b, at, f[i])
    BY <2>3, <2>4
  <2>6. f[i] = f[i - 1] \o parts[i] /\ f[i - 1] \in Seq(Nat) /\ parts[i] \in Seq(Nat)
    BY <1>1, <2>4
  <2> QED BY <1>2, <2>4, <2>5, <2>6, AgreesSplit
<1> QED BY <1>2, <1>3, <1>4, <1>5

-----------------------------------------------------------------------------
(* Numbers among bytes *)

LEMMA BaseIs ==
    /\ Base \in Nat \ {0} /\ Base >= 16 /\ Group \in Nat \ {0} /\ Group >= 8 /\ Base = 2 * Group
    /\ ByteBits \in Nat /\ ByteBits >= 4 /\ Half \in Nat \ {0} /\ Word \in Nat \ {0} /\ Long \in Nat \ {0}
    /\ Half <= Word /\ Word <= Long
<1>1. /\ ByteBits \in Nat /\ ByteBits >= 4 /\ Half \in Nat \ {0} /\ Word \in Nat \ {0}
      /\ Long \in Nat \ {0} /\ Half <= Word /\ Word <= Long
  BY WidthAssumption
<1>2. Power(2, 0) = 1
  BY PowerZero
<1>3. Power(2, 0 + 1) = 2 * 1 /\ 0 + 1 = 1
  BY <1>2, PowerNext
<1>4. Power(2, 1 + 1) = 2 * 2 /\ 1 + 1 = 2
  BY <1>3, PowerNext
<1>5. Power(2, 2 + 1) = 2 * 4 /\ 2 + 1 = 3
  BY <1>4, PowerNext
<1>6. 8 <= Power(2, ByteBits - 1) /\ Power(2, ByteBits - 1) \in Nat
  <2>1. ByteBits - 1 \in Nat /\ 3 <= ByteBits - 1
    BY <1>1
  <2> QED BY <1>5, <2>1, PowerGrows, PowerNat
<1>7. Power(2, (ByteBits - 1) + 1) = 2 * Power(2, ByteBits - 1) /\ (ByteBits - 1) + 1 = ByteBits
  <2>1. ByteBits - 1 \in Nat
    BY <1>1
  <2> QED BY <1>1, <2>1, PowerNext
<1> QED BY <1>1, <1>6, <1>7 DEF Base, Group

LEMMA MostIs == ASSUME NEW n \in Nat PROVE Most(n) \in Nat /\ Power(Base, n) = Most(n) + 1
BY BaseIs, PowerPositive DEF Most

LEMMA MostGrows == ASSUME NEW m \in Nat, NEW n \in Nat, m <= n PROVE Most(m) <= Most(n)
<1>1. Power(Base, m) <= Power(Base, n)
  BY BaseIs, PowerGrows
<1> QED BY <1>1, MostIs

LEMMA MostAtLeast == ASSUME NEW n \in Nat \ {0} PROVE Most(n) \in Nat /\ Most(n) >= 15
<1>1. Most(1) <= Most(n) /\ Most(1) \in Nat /\ Most(n) \in Nat
  BY BaseIs, MostGrows, MostIs
<1>2. Most(1) + 1 = Base
  <2>1. Power(Base, 0 + 1) = Base * Power(Base, 0) /\ Power(Base, 0) = 1
    BY BaseIs, PowerNext, PowerZero
  <2>2. PICK base \in Nat : base = Base
    BY BaseIs
  <2>3. Power(base, 1) = base
    BY <2>1, <2>2
  <2>4. Power(Base, 1) = Most(1) + 1
    BY MostIs
  <2> QED BY <2>2, <2>3, <2>4, Zenon
<1>3. Base >= 16 /\ Base \in Nat
  BY BaseIs
<1> QED BY <1>1, <1>2, <1>3

LEMMA LEType ==
    ASSUME NEW n \in Nat, NEW v \in Nat
    PROVE  LE(v, n) \in Seq(Nat) /\ Len(LE(v, n)) = n
BY BaseIs, DigitsType DEF LE

LEMMA ReadNumber ==
    ASSUME NEW n \in Nat, NEW v \in 0 .. Most(n), NEW b \in Seq(Nat), NEW at \in Place,
           Agrees(b, at, LE(v, n)), at + n - 1 <= Len(b)
    PROVE  At(b, at, n) = v
<1>0. LE(v, n) \in [1 .. n -> 0 .. Base - 1] /\ LE(v, n) \in Seq(Nat) /\ Len(LE(v, n)) = n
  <2>1. v \in Nat
    BY MostIs
  <2> QED BY <2>1, BaseIs, DigitsType DEF LE
<1>1. PICK d \in [1 .. n -> 0 .. Base - 1] : d = LE(v, n) /\ d \in Seq(Nat) /\ Len(d) = n
  BY <1>0
<1>2. ASSUME NEW i \in 1 .. n PROVE b[at + i - 1] = d[i]
  <2>1. at + i - 1 <= Len(b) /\ i \in 1 .. Len(d)
    BY <1>1 DEF Place
  <2> QED BY <1>1, <2>1 DEF Agrees
<1>3. [i \in 1 .. n |-> b[at + i - 1]] = d
  BY <1>1, <1>2
<1>4. v < Power(Base, n) /\ v \in Nat
  BY MostIs
<1>5. Number(d, Base) = v
  BY <1>1, <1>4, BaseIs, NumberOfDigits DEF LE
<1> QED BY <1>3, <1>5 DEF At

LEMMA NotRefused ==
    ASSUME NEW v, NEW w
    PROVE  [value |-> v, next |-> w] # Refused
BY DEF Refused

LEMMA FixedIs ==
    ASSUME NEW n \in Nat, NEW v \in 0 .. Most(n), NEW b \in Seq(Nat), NEW at \in Place,
           Agrees(b, at, LE(v, n))
    PROVE  ReadFixed(b, at, n) = IF at + n - 1 <= Len(b) THEN [value |-> v, next |-> at + n] ELSE Refused
<1>1. CASE at + n - 1 <= Len(b)
  BY <1>1, ReadNumber DEF ReadFixed, Place
<1>2. CASE ~(at + n - 1 <= Len(b))
  <2>1. at + n - 1 > Len(b)
    BY <1>2 DEF Place
  <2> QED BY <1>2, <2>1 DEF ReadFixed
<1> QED BY <1>1, <1>2

\* Varints
LEMMA GroupsSuffice ==
    ASSUME NEW n \in 1 .. Long
    PROVE  /\ MostGroups(n) \in 1 .. 2 * Long
           /\ Power(Base, n) <= Power(Group, MostGroups(n))
<1> DEFINE B == ByteBits - 1
           g == MostGroups(n)
<1>1. B \in Nat \ {0} /\ B >= 3 /\ ByteBits = B + 1 /\ n \in Nat \ {0} /\ Long \in Nat
  BY BaseIs
<1>2. PICK x \in Nat : x = n * B
  BY <1>1
<1>3. n * ByteBits = x + n /\ n * ByteBits + ByteBits - 2 = x + n + B - 1
  BY <1>1, <1>2
<1>4. g = (x + n + B - 1) \div B
  BY <1>1, <1>3 DEF MostGroups
<1> HIDE DEF B, g
<1>5. x + n + B - 1 \in Nat
  BY <1>1
<1>6. /\ x + n + B - 1 = B * g + ((x + n + B - 1) % B) /\ (x + n + B - 1) % B \in 0 .. B - 1
      /\ g \in Int /\ (x + n + B - 1) % B \in Int
  <2>1. PICK y \in Int : y = x + n + B - 1
    BY <1>5
  <2>2. y = B * (y \div B) + (y % B) /\ y % B \in 0 .. B - 1 /\ y % B \in Int /\ y \div B \in Int
    BY <1>1, DivMod
  <2> QED BY <1>4, <2>1, <2>2
<1>7. PICK z \in Int : z = B * g /\ z >= x + n /\ z <= x + n + B - 1
  <2>1. PICK z \in Int : z = B * g
    BY <1>1, <1>6
  <2>2. PICK r \in 0 .. B - 1 : r = (x + n + B - 1) % B
    BY <1>6
  <2>3. x + n + B - 1 = z + r
    BY <1>6, <2>1, <2>2
  <2>4. z >= x + n /\ z <= x + n + B - 1
    BY <1>1, <2>3
  <2> QED BY <2>1, <2>4
<1>. DEFINE times == \A a, c, d \in Int : a >= 0 /\ c <= d => a * c <= a * d
<1>0. times
  OBVIOUS
<1>8. g >= n + 1
  <2> SUFFICES ASSUME g <= n PROVE FALSE
    BY <1>6, <1>1
  <2>1. B * g <= B * n
    BY <1>0, <1>1, <1>6
  <2>2. B * n = x
    BY <1>1, <1>2
  <2>3. z <= x
    BY <1>7, <2>1, <2>2
  <2> QED BY <1>1, <1>7, <2>3
<1>9. g <= 2 * n
  <2> SUFFICES ASSUME g >= 2 * n + 1 PROVE FALSE
    BY <1>6, <1>1
  <2>1. B * (2 * n + 1) <= B * g
    BY <1>0, <1>1, <1>6
  <2>2. B * (2 * n + 1) = 2 * x + B
    BY <1>1, <1>2
  <2>3. n <= x
    BY <1>1, <1>2
  <2>4. 2 * x + B <= z
    BY <1>7, <2>1, <2>2
  <2> QED BY <1>1, <1>7, <2>3, <2>4
<1>10. g \in 1 .. 2 * Long /\ g \in Nat
  BY <1>1, <1>6, <1>8, <1>9
<1>11. Power(Base, n) = Power(2, ByteBits * n) /\ Power(Group, g) = Power(2, B * g)
  <2>1. Group = Power(2, B)
    BY DEF Group, B
  <2>2. 2 \in Nat /\ ByteBits \in Nat
    BY <1>1
  <2>3. Power(Power(2, ByteBits), n) = Power(2, ByteBits * n)
    <3>1. n \in Nat
      BY <1>1
    <3> QED BY <2>2, <3>1, PowerTwice, Zenon
  <2>4. Power(Power(2, B), g) = Power(2, B * g)
    <3>1. B \in Nat
      BY <1>1
    <3> QED BY <1>10, <2>2, <3>1, PowerTwice, Zenon
  <2> QED BY <2>1, <2>3, <2>4 DEF Base
<1>12. ByteBits * n = x + n /\ x + n \in Nat /\ z \in Nat /\ x + n <= z
  BY <1>1, <1>2, <1>3, <1>7
<1>13. Power(2, x + n) <= Power(2, z)
  BY <1>12, PowerGrows
<1> QED BY <1>7, <1>10, <1>11, <1>12, <1>13 DEF g

LEMMA MinIs ==
    ASSUME NEW S \in SUBSET Nat, S # {}
    PROVE  Min(S) \in S /\ \A k \in S : Min(S) <= k
<1>1. PICK m \in S : \A k \in S : <<k, m>> \notin OpToRel(<, Nat)
  BY WFMin, NatLessThanWellFounded
<1>2. ASSUME NEW k \in S PROVE m <= k
  <2>1. m \in Nat /\ k \in Nat
    OBVIOUS
  <2>2. ~(k < m)
    BY <1>1, <2>1 DEF OpToRel
  <2> QED BY <2>1, <2>2
<1> QED BY <1>2 DEF Min

LEMMA VarintIs ==
    ASSUME NEW n \in 1 .. Long, NEW v \in 0 .. Most(n)
    PROVE  \E k \in 1 .. MostGroups(n) : \E d \in [1 .. k -> 0 .. Group - 1] :
              /\ Varint(v) \in Seq(Nat) /\ Len(Varint(v)) = k /\ Number(d, Group) = v
              /\ \A i \in 1 .. k : Varint(v)[i] = d[i] + (IF i < k THEN Group ELSE 0)
<1> DEFINE K == {k \in 1 .. 2 * Long : v < Power(Group, k)}
<1>0. n \in Nat /\ Long \in Nat /\ v \in Nat /\ v < Power(Base, n) /\ Power(Base, n) \in Nat
  <2>1. n \in Nat /\ Long \in Nat
    BY BaseIs
  <2> QED BY <2>1, MostIs
<1>1. MostGroups(n) \in K
  <2>1. /\ MostGroups(n) \in 1 .. 2 * Long /\ MostGroups(n) \in Nat
        /\ Power(Base, n) <= Power(Group, MostGroups(n))
    BY <1>0, GroupsSuffice
  <2>2. Power(Group, MostGroups(n)) \in Nat
    BY <2>1, BaseIs, PowerNat
  <2> QED BY <1>0, <2>1, <2>2
<1>2. PICK k \in K : k = Min(K) /\ \A j \in K : k <= j
  <2>1. K \in SUBSET Nat /\ K # {}
    BY <1>0, <1>1
  <2> HIDE DEF K
  <2> QED BY <2>1, MinIs
<1>3. k \in 1 .. MostGroups(n) /\ k \in Nat /\ v < Power(Group, k)
  BY <1>0, <1>1, <1>2
<1>4. PICK d : d = Digits(v, Group, k)
  OBVIOUS
<1>5. d \in [1 .. k -> 0 .. Group - 1] /\ Number(d, Group) = v
  BY <1>0, <1>3, <1>4, BaseIs, DigitsType, NumberOfDigits
<1>6. Varint(v) = [i \in 1 .. k |-> d[i] + (IF i < k THEN Group ELSE 0)]
  BY <1>2, <1>4 DEF Varint
<1>7. Varint(v) \in [1 .. k -> Nat]
  <2> SUFFICES ASSUME NEW i \in 1 .. k PROVE d[i] + (IF i < k THEN Group ELSE 0) \in Nat
    BY <1>6
  <2> QED BY <1>5, BaseIs
<1>8. Varint(v) \in Seq(Nat) /\ Len(Varint(v)) = k
  BY <1>3, <1>7, LenIs
<1> QED BY <1>3, <1>5, <1>6, <1>8

\* A varint is read as it was written; one that is cut short is refused.
LEMMA ReadVarintIs ==
    ASSUME NEW n \in 1 .. Long, NEW v \in 0 .. Most(n), NEW b \in Seq(Nat), NEW at \in Place,
           Agrees(b, at, Varint(v))
    PROVE  ReadVarint(b, at, n) = IF Whole(b, at, Varint(v))
                                  THEN [value |-> v, next |-> at + Len(Varint(v))] ELSE Refused
<1> DEFINE Is(k, d) ==
              /\ Varint(v) \in Seq(Nat) /\ Len(Varint(v)) = k /\ Number(d, Group) = v
              /\ \A i \in 1 .. k : Varint(v)[i] = d[i] + (IF i < k THEN Group ELSE 0)
<1>0. PICK k \in 1 .. MostGroups(n) : \E d \in [1 .. k -> 0 .. Group - 1] : Is(k, d)
  BY VarintIs
<1>1. PICK d \in [1 .. k -> 0 .. Group - 1] : Is(k, d)
  BY <1>0
<1> DEFINE ends == {i \in 1 .. MostGroups(n) : at + i - 1 <= Len(b) /\ b[at + i - 1] < Group}
<1>2. MostGroups(n) \in Nat /\ k \in Nat /\ Group \in Nat \ {0} /\ at \in Nat /\ Len(b) \in Nat
  BY GroupsSuffice, BaseIs DEF Place
<1>3. ASSUME NEW i \in 1 .. k, at + i - 1 <= Len(b)
      PROVE  /\ b[at + i - 1] = d[i] + (IF i < k THEN Group ELSE 0)
             /\ d[i] \in 0 .. Group - 1 /\ (i \in ends <=> i = k)
  <2>1. b[at + i - 1] = d[i] + (IF i < k THEN Group ELSE 0)
    BY <1>1, <1>3 DEF Agrees
  <2>2. d[i] \in 0 .. Group - 1
    OBVIOUS
  <2>3. i \in 1 .. MostGroups(n)
    BY <1>2
  <2> QED BY <1>2, <1>3, <2>1, <2>2, <2>3
<1>4. CASE Whole(b, at, Varint(v))
  <2>1. at + k - 1 <= Len(b)
    BY <1>1, <1>4 DEF Whole
  <2>2. k \in ends /\ \A i \in 1 .. k - 1 : i \notin ends
    <3>1. k \in ends
      BY <1>2, <1>3, <2>1
    <3>2. ASSUME NEW i \in 1 .. k - 1 PROVE i \notin ends
      <4>1. i \in 1 .. k /\ i # k /\ at + i - 1 <= Len(b)
        BY <1>2, <2>1
      <4> QED BY <1>3, <4>1
    <3> QED BY <3>1, <3>2
  <2>3. ends # {} /\ Min(ends) = k
    <3>1. ends \in SUBSET Nat /\ ends \subseteq 1 .. MostGroups(n)
      BY <1>2
    <3> HIDE DEF ends
    <3>2. Min(ends) \in ends /\ Min(ends) <= k
      BY <2>2, <3>1, MinIs
    <3>3. Min(ends) \in 1 .. MostGroups(n)
      BY <3>1, <3>2
    <3> QED BY <1>2, <2>2, <3>2, <3>3
  <2>4. ASSUME NEW i \in 1 .. k PROVE b[at + i - 1] % Group = d[i]
    <3>1. at + i - 1 <= Len(b)
      BY <1>2, <2>1
    <3>2. b[at + i - 1] = d[i] + Group * (IF i < k THEN 1 ELSE 0) /\ d[i] \in 0 .. Group - 1
      BY <1>2, <1>3, <3>1
    <3>3. PICK x \in 0 .. Group - 1 : x = d[i]
      BY <3>2
    <3>4. PICK y \in Int : y = IF i < k THEN 1 ELSE 0
      OBVIOUS
    <3>5. (x + Group * y) % Group = x
      BY <1>2, DivModIs
    <3> QED BY <3>2, <3>3, <3>4, <3>5
  <2>5. [i \in 1 .. k |-> b[at + i - 1] % Group] = d
    BY <2>4
  <2>6. v % Power(Base, n) = v
    <3>1. n \in Nat
      BY BaseIs
    <3>2. v \in Nat /\ Power(Base, n) \in Nat /\ v < Power(Base, n)
      <4>1. Most(n) \in Nat /\ Power(Base, n) = Most(n) + 1
        BY <3>1, MostIs
      <4> QED BY <4>1
    <3> QED BY <3>2, ModSmall
  <2>7. ReadVarint(b, at, n)
        = [value |-> Number([i \in 1 .. k |-> b[at + i - 1] % Group], Group) % Power(Base, n),
           next  |-> at + k]
    BY <2>3 DEF ReadVarint
  <2> QED BY <1>1, <1>4, <2>5, <2>6, <2>7
<1>5. CASE ~Whole(b, at, Varint(v))
  <2>1. Len(b) < at + k - 1
    BY <1>1, <1>2, <1>5 DEF Whole
  <2>2. ends = {}
    <3> SUFFICES ASSUME NEW i \in ends PROVE FALSE
      OBVIOUS
    <3>1. i \in 1 .. MostGroups(n) /\ at + i - 1 <= Len(b)
      OBVIOUS
    <3>2. i \in 1 .. k /\ i # k
      BY <1>2, <2>1, <3>1
    <3> QED BY <1>3, <3>1, <3>2
  <2>3. ReadVarint(b, at, n) = Refused
    BY <2>2 DEF ReadVarint
  <2> QED BY <1>5, <2>3
<1> QED BY <1>4, <1>5

-----------------------------------------------------------------------------
(* Fields *)

\* A field as it is after it was written and read.
Decoded(t, v) == IF t.kind = "quantized" THEN Rounded(v, t.step) * t.step ELSE v

LEMMA RoundedIs ==
    ASSUME NEW v \in Int, NEW step \in Nat \ {0}
    PROVE  /\ Rounded(v, step) \in Int
           /\ 2 * (Rounded(v, step) * step - v) \in -step .. step
<1>1. PICK q \in Int, r \in 0 .. step - 1 : q = v \div step /\ r = v % step /\ v = step * q + r
  BY DivMod
<1>2. PICK x \in Int : x = step * q
  OBVIOUS
<1>3. q * step = x /\ (q + 1) * step = x + step /\ v = x + r
  BY <1>1, <1>2
<1>4. CASE 2 * r < step \/ (2 * r = step /\ q % 2 = 0)
  <2>1. Rounded(v, step) = q
    BY <1>1, <1>4 DEF Rounded
  <2>2. 2 * (q * step - v) = -(2 * r)
    BY <1>3
  <2>3. -(2 * r) \in -step .. step
    BY <1>4
  <2> QED BY <2>1, <2>2, <2>3
<1>5. CASE ~(2 * r < step \/ (2 * r = step /\ q % 2 = 0))
  <2>1. Rounded(v, step) = q + 1 /\ 2 * r >= step
    BY <1>1, <1>5 DEF Rounded
  <2>2. 2 * ((q + 1) * step - v) = 2 * step - 2 * r
    BY <1>3
  <2>3. 2 * step - 2 * r \in -step .. step
    BY <2>1
  <2> QED BY <2>1, <2>2, <2>3
<1> QED BY <1>4, <1>5

LEMMA ZigzagIs ==
    ASSUME NEW v \in Int
    PROVE  Zigzag(v) \in Nat /\ Unzigzag(Zigzag(v)) = v
<1>1. CASE v >= 0
  BY <1>1 DEF Zigzag, Unzigzag
<1>2. CASE v < 0
  BY <1>2 DEF Zigzag, Unzigzag
<1> QED BY <1>1, <1>2

LEMMA NarrowedIs ==
    ASSUME NEW n \in Nat \ {0},
           NEW v \in -(Power(Base, n) \div 2) .. Power(Base, n) \div 2 - 1
    PROVE  Zigzag(v) \in 0 .. Most(n) /\ Narrowed(v, n) = v
<1>1. PICK h \in Nat \ {0} : Power(Base, n) = 2 * h
  <2>1. n - 1 \in Nat /\ n = (n - 1) + 1
    OBVIOUS
  <2>2. Power(Base, n) = Base * Power(Base, n - 1)
    BY <2>1, BaseIs, PowerNext
  <2>3. Power(Base, n - 1) \in Nat \ {0}
    BY <2>1, BaseIs, PowerPositive
  <2>4. \A x, y \in Nat \ {0} : x * y \in Nat \ {0} /\ (2 * x) * y = 2 * (x * y)
    OBVIOUS
  <2> QED BY <2>2, <2>3, <2>4, BaseIs
<1>2. Power(Base, n) \div 2 = h /\ Most(n) = 2 * h - 1 /\ Most(n) \div 2 = h - 1
  BY <1>1 DEF Most
<1>3. v \in Int /\ v >= -h /\ v <= h - 1
  BY <1>2
<1>4. Zigzag(v) \in 0 .. Most(n)
  BY <1>2, <1>3 DEF Zigzag
<1>7. Narrowed(v, n) = IF v % (2 * h) > h - 1 THEN (v % (2 * h)) - 2 * h ELSE v % (2 * h)
  BY <1>1, <1>2 DEF Narrowed
<1>5. CASE v >= 0
  <2>1. v % (2 * h) = v
    BY <1>3, <1>5, ModSmall
  <2> QED BY <1>3, <1>4, <1>7, <2>1
<1>6. CASE v < 0
  <2>1. PICK p \in Nat \ {0} : p = 2 * h
    OBVIOUS
  <2>2. v + p \in 0 .. p - 1 /\ -1 \in Int
    BY <1>3, <1>6, <2>1
  <2>3. ((v + p) + p * (-1)) % p = v + p
    BY <2>2, DivModIs
  <2>4. (v + p) + p * (-1) = v
    BY <1>3
  <2>5. v % p = v + p
    BY <2>3, <2>4
  <2> QED BY <1>3, <1>4, <1>7, <2>1, <2>2, <2>5
<1> QED BY <1>3, <1>4, <1>5, <1>6

LEMMA ByteIs ==
    ASSUME NEW v \in 0 .. Base - 1
    PROVE  LE(v, 1) = <<v>> /\ v \in 0 .. Most(1)
<1>0. PICK n \in Nat, base \in Nat \ {0} : n = 1 /\ base = Base
  BY BaseIs
<1>1. PICK r \in [0 .. n -> Nat] :
          /\ Digits(v, base, n) = [i \in 1 .. n |-> r[i - 1] % base]
          /\ r[0] = v /\ \A k \in 1 .. n : r[k] = r[k - 1] \div base
  <2>1. v \in Nat
    BY BaseIs
  <2> QED BY <2>1, DigitsAre
<1>2. v % Base = v
  BY BaseIs, ModSmall
<1>3. LE(v, 1) = [i \in 1 .. 1 |-> v]
  <2>1. LE(v, 1) = [i \in 1 .. 1 |-> r[i - 1] % Base] /\ r[0] = v
    <3>1. LE(v, 1) = Digits(v, base, n)
      BY <1>0 DEF LE
    <3> QED BY <1>0, <1>1, <3>1
  <2>2. \A i \in 1 .. 1 : r[i - 1] % Base = v
    BY <1>2, <2>1
  <2> QED BY <2>1, <2>2
<1>4. Power(Base, 0 + 1) = Base * Power(Base, 0) /\ Power(Base, 0) = 1
  BY BaseIs, PowerZero, PowerNext
<1>5. Most(1) = Base - 1
  BY <1>4, BaseIs DEF Most
<1> QED BY <1>3, <1>5

\* What DecodeField makes of what was read.
LEMMA DecodeIs ==
    ASSUME NEW t, NEW b, NEW at, NEW read
    PROVE  /\ t.kind = "bool" /\ read = ReadFixed(b, at, t.size) => DecodeField(t, b, at) =
                IF read = Refused THEN Refused
                ELSE [read EXCEPT !.value = IF read.value = 0 THEN 0 ELSE 1]
           /\ t.kind = "raw" /\ read = ReadFixed(b, at, t.size) => DecodeField(t, b, at) =
                IF read = Refused THEN Refused ELSE [read EXCEPT !.value = read.value]
           /\ t.kind = "signed" /\ read = ReadVarint(b, at, Wide(t.size)) => DecodeField(t, b, at) =
                IF read = Refused THEN Refused
                ELSE [read EXCEPT !.value = Narrowed(Unzigzag(read.value), t.size)]
           /\ t.kind = "unsigned" /\ read = ReadVarint(b, at, Wide(t.size)) => DecodeField(t, b, at) =
                IF read = Refused THEN Refused
                ELSE [read EXCEPT !.value = read.value % Power(Base, t.size)]
           /\ t.kind = "quantized" /\ read = ReadVarint(b, at, Long) => DecodeField(t, b, at) =
                IF read = Refused THEN Refused
                ELSE [read EXCEPT !.value = Unzigzag(read.value) * t.step]
<1>1. CASE t.kind = "bool"
  BY <1>1 DEF DecodeField
<1>2. CASE t.kind = "raw"
  BY <1>2 DEF DecodeField
<1>3. CASE t.kind = "signed"
  BY <1>3 DEF DecodeField
<1>4. CASE t.kind = "unsigned"
  BY <1>4 DEF DecodeField
<1>5. CASE t.kind = "quantized"
  BY <1>5 DEF DecodeField
<1> QED BY <1>1, <1>2, <1>3, <1>4, <1>5

\* A field is read as it was written, and one that is cut short is refused.
LEMMA FieldIs ==
    ASSUME NEW t \in FieldTypes, NEW v, HasType(t, v)
    PROVE  /\ EncodeField(t, v) \in Seq(Nat)
           /\ v \in Int /\ Decoded(t, v) \in Int
           /\ \A b \in Seq(Nat), at \in Place :
                Agrees(b, at, EncodeField(t, v)) =>
                DecodeField(t, b, at) = IF Whole(b, at, EncodeField(t, v))
                                        THEN [value |-> Decoded(t, v), next |-> at + Len(EncodeField(t, v))]
                                        ELSE Refused
<1> DEFINE n == t.size
           e == EncodeField(t, v)
           As(x, read, b, at) == read = IF Whole(b, at, e) THEN [value |-> x, next |-> at + Len(e)] ELSE Refused
<1>0. /\ t.kind \in {"bool", "signed", "unsigned", "raw", "quantized"} /\ n \in 1 .. Long
      /\ n \in Nat \ {0} /\ t.step \in Nat \ {0} /\ (t.kind = "bool" => n = 1)
  BY BaseIs DEF FieldTypes
<1>01. Wide(n) \in 1 .. Long /\ n <= Wide(n) /\ Wide(n) \in Nat
  BY <1>0, BaseIs DEF Wide
<1>02. \A x, y, z : [[value |-> x, next |-> y] EXCEPT !.value = z] = [value |-> z, next |-> y]
  OBVIOUS
<1>03. \A x, y : [value |-> x, next |-> y] # Refused
  BY NotRefused
<1>1. CASE t.kind = "bool"
  <2>1. v \in {0, 1} /\ e = <<v>> /\ Decoded(t, v) = v /\ v \in 0 .. Base - 1
    BY <1>1, BaseIs DEF HasType, EncodeField, Decoded
  <2>2. e \in Seq(Nat) /\ Len(e) = 1 /\ v \in Int /\ e = LE(v, 1) /\ v \in 0 .. Most(1)
    BY <2>1, ByteIs
  <2>3. ASSUME NEW b \in Seq(Nat), NEW at \in Place, Agrees(b, at, e) PROVE As(v, DecodeField(t, b, at), b, at)
    <3>1. As(v, ReadFixed(b, at, 1), b, at)
      BY <2>2, <2>3, FixedIs DEF Whole
    <3> QED BY <1>0, <1>02, <1>03, <1>1, <2>1, <3>1, DecodeIs
  <2> QED BY <2>1, <2>2, <2>3
<1>2. CASE t.kind = "raw"
  <2>1. v \in 0 .. Most(n) /\ e = LE(v, n) /\ Decoded(t, v) = v
    BY <1>2 DEF HasType, EncodeField, Decoded
  <2>2. e \in Seq(Nat) /\ Len(e) = n /\ v \in Int
    <3>1. v \in Nat
      BY <1>0, <2>1, MostIs
    <3>2. LE(v, n) \in Seq(Nat) /\ Len(LE(v, n)) = n
      BY <1>0, <3>1, LEType
    <3>3. v \in Int
      BY <3>1
    <3> QED BY <2>1, <3>2, <3>3, Zenon
  <2>3. ASSUME NEW b \in Seq(Nat), NEW at \in Place, Agrees(b, at, e) PROVE As(v, DecodeField(t, b, at), b, at)
    <3>1. As(v, ReadFixed(b, at, n), b, at)
      BY <1>0, <2>1, <2>2, <2>3, FixedIs DEF Whole
    <3> QED BY <1>02, <1>03, <1>2, <3>1, DecodeIs
  <2> QED BY <2>1, <2>2, <2>3
<1>3. CASE t.kind = "signed"
  <2>1. /\ v \in -(Power(Base, n) \div 2) .. Power(Base, n) \div 2 - 1
        /\ e = Varint(Zigzag(v)) /\ Decoded(t, v) = v
    BY <1>3 DEF HasType, EncodeField, Decoded
  <2>2. v \in Int /\ Zigzag(v) \in 0 .. Most(n) /\ Narrowed(v, n) = v /\ Unzigzag(Zigzag(v)) = v
    <3>1. v \in Int
      BY <1>0, <2>1, BaseIs, PowerNat
    <3> QED BY <1>0, <2>1, <3>1, NarrowedIs, ZigzagIs
  <2>3. Zigzag(v) \in 0 .. Most(Wide(n)) /\ e \in Seq(Nat)
    <3>1. Most(n) <= Most(Wide(n)) /\ Most(n) \in Nat /\ Most(Wide(n)) \in Nat
      BY <1>0, <1>01, MostGrows, MostIs
    <3> QED BY <1>0, <2>1, <2>2, <3>1, VarintIs
  <2>4. ASSUME NEW b \in Seq(Nat), NEW at \in Place, Agrees(b, at, e) PROVE As(v, DecodeField(t, b, at), b, at)
    <3>1. As(Zigzag(v), ReadVarint(b, at, Wide(n)), b, at)
      BY <1>01, <2>1, <2>3, <2>4, ReadVarintIs
    <3> QED BY <1>02, <1>03, <1>3, <2>2, <3>1, DecodeIs
  <2> QED BY <2>1, <2>2, <2>3, <2>4
<1>4. CASE t.kind = "unsigned"
  <2>1. v \in 0 .. Most(n) /\ e = Varint(v) /\ Decoded(t, v) = v
    BY <1>4 DEF HasType, EncodeField, Decoded
  <2>2. v \in Int /\ v % Power(Base, n) = v
    <3>1. Most(n) \in Nat /\ Power(Base, n) = Most(n) + 1
      BY <1>0, MostIs
    <3>2. v \in Nat /\ Power(Base, n) \in Nat /\ v < Power(Base, n)
      BY <2>1, <3>1
    <3> QED BY <3>2, ModSmall
  <2>3. v \in 0 .. Most(Wide(n)) /\ e \in Seq(Nat)
    <3>1. Most(n) <= Most(Wide(n)) /\ Most(n) \in Nat /\ Most(Wide(n)) \in Nat
      BY <1>0, <1>01, MostGrows, MostIs
    <3> QED BY <1>0, <2>1, <2>2, <3>1, VarintIs
  <2>4. ASSUME NEW b \in Seq(Nat), NEW at \in Place, Agrees(b, at, e) PROVE As(v, DecodeField(t, b, at), b, at)
    <3>1. As(v, ReadVarint(b, at, Wide(n)), b, at)
      BY <1>01, <2>1, <2>3, <2>4, ReadVarintIs
    <3> QED BY <1>02, <1>03, <1>4, <2>2, <3>1, DecodeIs
  <2> QED BY <2>1, <2>2, <2>3, <2>4
<1>5. CASE t.kind = "quantized"
  <2>1. /\ v \in Int /\ Zigzag(Rounded(v, t.step)) <= Most(Word) /\ e = Varint(Zigzag(Rounded(v, t.step)))
        /\ Decoded(t, v) = Rounded(v, t.step) * t.step
    BY <1>5 DEF HasType, EncodeField, Decoded
  <2>2. PICK r \in Int : r = Rounded(v, t.step)
    BY <1>0, <2>1, RoundedIs
  <2>3. Zigzag(r) \in 0 .. Most(Long) /\ Unzigzag(Zigzag(r)) = r /\ r * t.step \in Int
    <3>1. Most(Word) \in Nat /\ Most(Long) \in Nat /\ Most(Word) <= Most(Long)
      BY BaseIs, WidthAssumption, MostIs, MostGrows
    <3> QED BY <1>0, <2>1, <2>2, <3>1, ZigzagIs, MostIs, BaseIs
  <2>4. Long \in 1 .. Long /\ e \in Seq(Nat)
    <3>1. Long \in 1 .. Long
      BY BaseIs
    <3> QED BY <2>1, <2>2, <2>3, <3>1, VarintIs
  <2>5. ASSUME NEW b \in Seq(Nat), NEW at \in Place, Agrees(b, at, e)
        PROVE  As(r * t.step, DecodeField(t, b, at), b, at)
    <3>1. As(Zigzag(r), ReadVarint(b, at, Long), b, at)
      BY <2>1, <2>2, <2>3, <2>4, <2>5, ReadVarintIs
    <3> QED BY <1>02, <1>03, <1>5, <2>3, <3>1, DecodeIs
  <2> QED BY <2>1, <2>2, <2>3, <2>4, <2>5
<1> QED BY <1>0, <1>1, <1>2, <1>3, <1>4, <1>5

-----------------------------------------------------------------------------
(* Snapshots *)

LEMMA TimesLess ==
    ASSUME NEW b \in Nat \ {0}, NEW x \in Int, NEW y \in Int, b * x < b * y
    PROVE  x < y
<1> SUFFICES ASSUME y <= x PROVE FALSE
  OBVIOUS
<1>1. \A a, c, d \in Int : a >= 0 /\ c <= d => a * c <= a * d
  OBVIOUS
<1>2. b * y <= b * x
  BY <1>1
<1>3. PICK p \in Int, q \in Int : p = b * x /\ q = b * y
  OBVIOUS
<1> QED BY <1>2, <1>3

\* The byte and the bit of a field.
LEMMA BitIs ==
    ASSUME NEW bits \in Nat \ {0}, NEW n \in Nat, NEW i \in 1 .. n
    PROVE  /\ (n + bits - 1) \div bits \in Nat
           /\ \E k \in 1 .. (n + bits - 1) \div bits, j \in 1 .. bits :
                k - 1 = (i - 1) \div bits /\ j = ((i - 1) % bits) + 1 /\ (k - 1) * bits + j = i
<1>1. PICK q \in Int, r \in 0 .. bits - 1 :
          q = (i - 1) \div bits /\ r = (i - 1) % bits /\ i - 1 = bits * q + r
  <2>1. i - 1 \in Int
    OBVIOUS
  <2> QED BY <2>1, DivMod
<1>2. PICK M \in Int, u \in 0 .. bits - 1 :
          M = (n + bits - 1) \div bits /\ n + bits - 1 = bits * M + u
  <2>1. n + bits - 1 \in Int
    OBVIOUS
  <2> QED BY <2>1, DivMod
<1>3. PICK x \in Int, y \in Int : x = bits * q /\ y = bits * M
  OBVIOUS
<1>4. x < y
  BY <1>1, <1>2, <1>3
<1>5. q < M
  BY <1>3, <1>4, TimesLess
<1>6. q >= 0
  <2>1. bits * (-1) = -bits /\ -bits < x
    BY <1>1, <1>3
  <2>2. -1 < q
    BY <1>3, <2>1, TimesLess
  <2> QED BY <2>2
<1>7. (q + 1 - 1) * bits + (r + 1) = i
  BY <1>1
<1>8. q + 1 \in 1 .. M /\ r + 1 \in 1 .. bits /\ (q + 1) - 1 = q /\ M \in Nat
  BY <1>5, <1>6
<1> QED BY <1>1, <1>2, <1>7, <1>8

LEMMA MaskIs ==
    ASSUME NEW V, NEW m, m.fields \in Seq(V), NEW mask \in SUBSET DOMAIN m.fields
    PROVE  /\ EncodeMask(m, mask) \in Seq(Nat) /\ MaskBytes(m) \in Nat
           /\ Len(EncodeMask(m, mask)) = MaskBytes(m)
           /\ \A b \in Seq(Nat), at \in Place :
                Agrees(b, at, EncodeMask(m, mask)) /\ Whole(b, at, EncodeMask(m, mask))
                => DecodeMask(m, b, at) = mask
<1> DEFINE n == Len(m.fields)
           bit(k) == [i \in 1 .. ByteBits |-> IF (k - 1) * ByteBits + i \in mask THEN 1 ELSE 0]
           e == EncodeMask(m, mask)
<1>0. n \in Nat /\ DOMAIN m.fields = 1 .. n /\ ByteBits \in Nat \ {0}
  BY BaseIs
<1>1. MaskBytes(m) \in Nat
  <2>1. CASE n = 0
    <3>1. ByteBits - 1 \in Nat
      BY <1>0
    <3>2. (ByteBits - 1) \div ByteBits \in Nat
      BY <1>0, <3>1
    <3>3. n + ByteBits - 1 = ByteBits - 1
      BY <1>0, <2>1
    <3> QED BY <3>2, <3>3 DEF MaskBytes
  <2>2. CASE n # 0
    <3>1. 1 \in 1 .. n
      BY <1>0, <2>2
    <3> QED BY <1>0, <3>1, BitIs DEF MaskBytes
  <2> QED BY <2>1, <2>2
<1>2. ASSUME NEW k \in 1 .. MaskBytes(m)
      PROVE  bit(k) \in [1 .. ByteBits -> 0 .. 2 - 1] /\ Number(bit(k), 2) \in Nat
  <2>1. bit(k) \in [1 .. ByteBits -> 0 .. 2 - 1]
    OBVIOUS
  <2>2. 2 \in Nat \ {0} /\ ByteBits \in Nat
    BY <1>0
  <2> HIDE DEF bit
  <2> QED BY <2>1, <2>2, NumberBelow
<1>3. e = [k \in 1 .. MaskBytes(m) |-> Number(bit(k), 2)]
  BY DEF EncodeMask
<1> HIDE DEF bit, e
<1>4. e \in [1 .. MaskBytes(m) -> Nat] /\ \A k \in 1 .. MaskBytes(m) : e[k] = Number(bit(k), 2)
  BY <1>2, <1>3
<1>5. e \in Seq(Nat) /\ Len(e) = MaskBytes(m)
  BY <1>1, <1>4, LenIs
<1>6. ASSUME NEW b \in Seq(Nat), NEW at \in Place, Agrees(b, at, e), Whole(b, at, e)
      PROVE  DecodeMask(m, b, at) = mask
  <2>1. ASSUME NEW i \in 1 .. n
        PROVE  Digits(b[at + (i - 1) \div ByteBits], 2, ByteBits)[((i - 1) % ByteBits) + 1] = 1 <=> i \in mask
    <3>1. PICK bits \in Nat \ {0}, l \in Nat : bits = ByteBits /\ l = n
      BY <1>0
    <3>2. PICK k \in 1 .. (l + bits - 1) \div bits, j \in 1 .. bits :
            k - 1 = (i - 1) \div bits /\ j = ((i - 1) % bits) + 1 /\ (k - 1) * bits + j = i
      <4>1. i \in 1 .. l
        BY <3>1
      <4> QED BY <4>1, BitIs
    <3>21. k \in 1 .. MaskBytes(m) /\ j \in 1 .. ByteBits /\ (k - 1) * ByteBits + j = i
      BY <3>1, <3>2 DEF MaskBytes
    <3>3. at + k - 1 <= Len(b) /\ at + (i - 1) \div ByteBits = at + k - 1
      <4>1. k \in Int /\ (i - 1) \div ByteBits = k - 1
        <5>1. (i - 1) \div ByteBits = k - 1
          BY <3>1, <3>2, Zenon
        <5> QED BY <5>1, <1>1, <3>21
      <4>2. at + (i - 1) \div ByteBits = at + (k - 1)
        BY <4>1, Zenon
      <4> QED BY <4>2, <1>1, <1>5, <1>6, <3>21, <4>1 DEF Whole, Place
    <3>4. b[at + k - 1] = Number(bit(k), 2)
      BY <1>4, <1>5, <1>6, <3>21, <3>3 DEF Agrees
    <3>5. Digits(Number(bit(k), 2), 2, ByteBits) = bit(k)
      <4>1. 2 \in Nat \ {0} /\ ByteBits \in Nat
        BY <1>0
      <4> QED BY <1>2, <3>21, <4>1, DigitsOfNumber
    <3>6. bit(k)[j] = IF i \in mask THEN 1 ELSE 0
      BY <3>21 DEF bit
    <3> QED BY <3>1, <3>2, <3>3, <3>4, <3>5, <3>6
  <2> QED BY <1>0, <2>1 DEF DecodeMask
<1> QED BY <1>1, <1>5, <1>6 DEF e

Decodes(got, m, b, old, at) ==
    /\ DecodeFields(m, old, b, at) = got[Len(m.fields)]
    /\ got[0] = [ok |-> TRUE, instance |-> old, next |-> at]
    /\ \A i \in 1 .. Len(m.fields) : got[i] = DecodeNext(m, b, got[i - 1], i)

LEMMA DecodeRuns ==
    ASSUME NEW m, NEW b, NEW old, NEW at, Len(m.fields) \in Nat
    PROVE  \E got : Decodes(got, m, b, old, at)
<1> DEFINE n == Len(m.fields)
           first == [ok |-> TRUE, instance |-> old, next |-> at]
           e(k, x) == DecodeNext(m, b, x, k)
           Is(p, k) == p = [i \in 0 .. k |-> IF i = 0 THEN first ELSE e(i, p[i - 1])]
           S == {k \in Nat : \E p : Is(p, k)}
<1>0. n \in Nat
  OBVIOUS
<1> HIDE DEF e, n, first
<1>1. 0 \in S
  <2>1. Is([k \in 0 .. 0 |-> first], 0)
    OBVIOUS
  <2> QED BY <2>1
<1>2. ASSUME NEW k \in Nat, k \in S PROVE k + 1 \in S
  <2>1. PICK p : Is(p, k)
    BY <1>2
  <2> DEFINE q == [i \in 0 .. k + 1 |-> IF i = k + 1 THEN e(k + 1, p[k]) ELSE p[i]]
  <2>2. ASSUME NEW i \in 0 .. k + 1 PROVE q[i] = IF i = 0 THEN first ELSE e(i, q[i - 1])
    BY <2>1
  <2> HIDE DEF q
  <2>3. q = [i \in 0 .. k + 1 |-> q[i]]
    BY DEF q
  <2>4. Is(q, k + 1)
    BY <2>2, <2>3
  <2> HIDE DEF Is
  <2> QED BY <2>4
<1>3. n \in S
  <2> HIDE DEF S
  <2> QED BY <1>0, <1>1, <1>2, EveryNat
<1>4. PICK got : got = CHOOSE g : Is(g, n)
  OBVIOUS
<1>5. Is(got, n)
  <2>1. \E g : Is(g, n)
    BY <1>3
  <2> HIDE DEF Is
  <2> QED BY <1>4, <2>1
<1>6. DecodeFields(m, old, b, at) = got[n]
  BY <1>4 DEF e, n, first, DecodeFields
<1>7. got[0] = first /\ \A i \in 1 .. n : got[i] = e(i, got[i - 1])
  BY <1>0, <1>5
<1> QED BY <1>6, <1>7 DEF e, n, first, Decodes

\* What has been read so far.
Got(x, at)         == [ok |-> TRUE, instance |-> x, next |-> at]
Failed(x, at)      == [ok |-> FALSE, instance |-> x, next |-> at]
Stopped(g)         == [g EXCEPT !.ok = FALSE]
Filled(g, i, v, w) == [g EXCEPT !.instance[i] = v, !.next = w]
Put(x, i, v)       == [x EXCEPT ![i] = v]

LEMMA StoppedIs == ASSUME NEW x, NEW at PROVE Stopped(Got(x, at)) = Failed(x, at)
<1>1. PICK g : g = [ok |-> TRUE, instance |-> x, next |-> at]
  OBVIOUS
<1>2. g \in [ok : {TRUE}, instance : {x}, next : {at}]
  BY <1>1
<1>3. PICK q : q = [g EXCEPT !.ok = FALSE]
  OBVIOUS
<1>4. q \in [ok : {FALSE}, instance : {x}, next : {at}]
  BY <1>2, <1>3
<1>5. q = [ok |-> FALSE, instance |-> x, next |-> at]
  BY <1>4
<1> QED BY <1>1, <1>3, <1>5, Zenon DEF Got, Failed, Stopped

LEMMA FilledIs ==
    ASSUME NEW x, NEW at, NEW i, NEW v, NEW w
    PROVE  Filled(Got(x, at), i, v, w) = Got(Put(x, i, v), w)
<1>1. PICK g : g = [ok |-> TRUE, instance |-> x, next |-> at]
  OBVIOUS
<1>2. g \in [ok : {TRUE}, instance : {x}, next : {at}]
  BY <1>1
<1>3. PICK r : r = [g EXCEPT !.instance[i] = v, !.next = w]
  OBVIOUS
<1>4. r \in [ok : {TRUE}, instance : {[x EXCEPT ![i] = v]}, next : {w}]
  BY <1>2, <1>3
<1>5. r = [ok |-> TRUE, instance |-> [x EXCEPT ![i] = v], next |-> w]
  BY <1>4
<1> QED BY <1>1, <1>3, <1>5, Zenon DEF Got, Filled, Put

LEMMA DecodeNextIs ==
    ASSUME NEW m, NEW b, NEW i, NEW x, NEW at
    PROVE  /\ i \notin DecodeMask(m, b, Half + 1) => DecodeNext(m, b, Got(x, at), i) = Got(x, at)
           /\ i \in DecodeMask(m, b, Half + 1) /\ DecodeField(m.fields[i], b, at) = Refused
                => DecodeNext(m, b, Got(x, at), i) = Failed(x, at)
           /\ \A v, w :
                i \in DecodeMask(m, b, Half + 1) /\ DecodeField(m.fields[i], b, at) = [value |-> v, next |-> w]
                => DecodeNext(m, b, Got(x, at), i) = Got(Put(x, i, v), w)
<1>0. PICK g : g = Got(x, at)
  OBVIOUS
<1>1. g.next = at /\ g.ok = TRUE /\ Stopped(g) = Failed(x, at)
      /\ \A v, w : Filled(g, i, v, w) = Got(Put(x, i, v), w)
  <2>1. Got(x, at).ok = TRUE /\ Got(x, at).next = at
    BY DEF Got
  <2>2. Stopped(Got(x, at)) = Failed(x, at)
    BY StoppedIs
  <2>3. \A v, w : Filled(Got(x, at), i, v, w) = Got(Put(x, i, v), w)
    BY FilledIs
  <2> QED BY <1>0, <2>1, <2>2, <2>3, Zenon
<1>2. PICK read : read = DecodeField(m.fields[i], b, at)
  OBVIOUS
<1>3. DecodeNext(m, b, g, i)
      = IF ~g.ok \/ i \notin DecodeMask(m, b, Half + 1) THEN g
        ELSE IF read = Refused THEN Stopped(g)
        ELSE Filled(g, i, read.value, read.next)
  <2>1. DecodeNext(m, b, g, i)
        = IF ~g.ok \/ i \notin DecodeMask(m, b, Half + 1) THEN g
          ELSE IF DecodeField(m.fields[i], b, g.next) = Refused THEN [g EXCEPT !.ok = FALSE]
          ELSE [g EXCEPT !.instance[i] = DecodeField(m.fields[i], b, g.next).value,
                         !.next = DecodeField(m.fields[i], b, g.next).next]
    BY Zenon DEF DecodeNext
  <2>2. DecodeField(m.fields[i], b, g.next) = read
    BY <1>1, <1>2, Zenon
  <2> QED BY <2>1, <2>2, Zenon DEF Stopped, Filled
<1>4. i \notin DecodeMask(m, b, Half + 1) => DecodeNext(m, b, g, i) = g
  BY <1>1, <1>3, Zenon
<1>5. i \in DecodeMask(m, b, Half + 1) /\ read = Refused => DecodeNext(m, b, g, i) = Failed(x, at)
  BY <1>1, <1>3, Zenon
<1>6. ASSUME NEW v, NEW w, i \in DecodeMask(m, b, Half + 1), read = [value |-> v, next |-> w]
      PROVE  DecodeNext(m, b, g, i) = Got(Put(x, i, v), w)
  <2>1. read # Refused
    BY <1>6, NotRefused
  <2>2. read.value = v /\ read.next = w
    BY <1>6
  <2> QED BY <1>1, <1>3, <1>6, <2>1, <2>2, Zenon
<1> QED BY <1>0, <1>2, <1>4, <1>5, <1>6, Zenon

\* A component after a snapshot of s was read into it.
Merged(m, old, s, mask) ==
    [i \in DOMAIN old |-> IF i \in mask THEN Decoded(m.fields[i], s[i]) ELSE old[i]]

\* What is written of a component.
Parts(m, s, mask) ==
    [i \in DOMAIN m.fields |-> IF i \in mask THEN EncodeField(m.fields[i], s[i]) ELSE <<>>]

LEMMA PartsAre ==
    ASSUME NEW m \in Metas, NEW s, Instance(m, s), NEW mask \in SUBSET DOMAIN m.fields
    PROVE  /\ DOMAIN m.fields = 1 .. Len(m.fields) /\ Len(m.fields) \in Nat
           /\ \A i \in 1 .. Len(m.fields) : m.fields[i] \in FieldTypes /\ HasType(m.fields[i], s[i])
           /\ Parts(m, s, mask) \in [1 .. Len(m.fields) -> Seq(Nat)]
           /\ \A i \in 1 .. Len(m.fields) : Parts(m, s, mask)[i] =
                 IF i \in mask THEN EncodeField(m.fields[i], s[i]) ELSE <<>>
           /\ LE(m.version, Half) \in Seq(Nat) /\ Len(LE(m.version, Half)) = Half
           /\ m.version \in 0 .. Most(Half)
<1>1. m.fields \in Seq(FieldTypes) /\ m.version \in 0 .. Most(Half) /\ Half \in Nat
  BY BaseIs DEF Metas
<1>2. DOMAIN m.fields = 1 .. Len(m.fields) /\ Len(m.fields) \in Nat
      /\ \A i \in DOMAIN m.fields : m.fields[i] \in FieldTypes
  BY <1>1
<1>3. ASSUME NEW i \in DOMAIN m.fields PROVE EncodeField(m.fields[i], s[i]) \in Seq(Nat)
  BY <1>2, FieldIs DEF Instance
<1>4. <<>> \in Seq(Nat)
  OBVIOUS
<1>5. m.version \in Nat
  BY <1>1, MostIs
<1>6. LE(m.version, Half) \in Seq(Nat) /\ Len(LE(m.version, Half)) = Half
  BY <1>1, <1>5, LEType
<1>7. Parts(m, s, mask) \in [DOMAIN m.fields -> Seq(Nat)]
      /\ \A i \in DOMAIN m.fields : Parts(m, s, mask)[i] =
            IF i \in mask THEN EncodeField(m.fields[i], s[i]) ELSE <<>>
  BY <1>3, <1>4 DEF Parts
<1> QED BY <1>1, <1>2, <1>6, <1>7 DEF Instance

LEMMA SnapshotBytes ==
    ASSUME NEW m \in Metas, NEW s, Instance(m, s), NEW mask \in SUBSET DOMAIN m.fields
    PROVE  /\ EncodeSnapshot(m, s, mask)
              = (LE(m.version, Half) \o EncodeMask(m, mask)) \o FlattenSeq(Parts(m, s, mask))
           /\ EncodeMask(m, mask) \in Seq(Nat) /\ MaskBytes(m) \in Nat
           /\ Len(EncodeMask(m, mask)) = MaskBytes(m)
           /\ FlattenSeq(Parts(m, s, mask)) \in Seq(Nat)
           /\ LE(m.version, Half) \o EncodeMask(m, mask) \in Seq(Nat)
           /\ Len(LE(m.version, Half) \o EncodeMask(m, mask)) = Half + MaskBytes(m)
           /\ EncodeSnapshot(m, s, mask) \in Seq(Nat)
           /\ Len(EncodeSnapshot(m, s, mask))
              = Half + MaskBytes(m) + Len(FlattenSeq(Parts(m, s, mask)))
<1>1. EncodeMask(m, mask) \in Seq(Nat) /\ MaskBytes(m) \in Nat /\ Len(EncodeMask(m, mask)) = MaskBytes(m)
  <2>1. m.fields \in Seq(FieldTypes)
    BY DEF Metas
  <2> QED BY <2>1, MaskIs
<1>2. LE(m.version, Half) \in Seq(Nat) /\ Len(LE(m.version, Half)) = Half
  BY PartsAre
<1>3. FlattenSeq(Parts(m, s, mask)) \in Seq(Nat)
  BY PartsAre, FlattenPlaces
<1>4. EncodeSnapshot(m, s, mask)
      = (LE(m.version, Half) \o EncodeMask(m, mask)) \o FlattenSeq(Parts(m, s, mask))
  BY DEF EncodeSnapshot, Parts
<1>5. \A x, y \in Seq(Nat) : x \o y \in Seq(Nat) /\ Len(x \o y) = Len(x) + Len(y)
  OBVIOUS
<1>6. /\ LE(m.version, Half) \o EncodeMask(m, mask) \in Seq(Nat)
      /\ Len(LE(m.version, Half) \o EncodeMask(m, mask)) = Half + MaskBytes(m)
  BY <1>1, <1>2, <1>5
<1> QED BY <1>1, <1>3, <1>4, <1>5, <1>6

\* The parts of a snapshot, as they are to be read from first on.
Laid(m, s, mask, b, first, parts, o, n, len) ==
    /\ len = Len(b) /\ Len(m.fields) = n /\ DecodeMask(m, b, Half + 1) = mask
    /\ \A i \in 1 .. n : m.fields[i] \in FieldTypes /\ HasType(m.fields[i], s[i])
    /\ \A i \in 1 .. n : parts[i] = IF i \in mask THEN EncodeField(m.fields[i], s[i]) ELSE <<>>
    /\ o[0] = 0 /\ \A i \in 1 .. n : o[i] = o[i - 1] + Len(parts[i])
    /\ \A i \in 1 .. n : Agrees(b, first + o[i - 1], parts[i])

\* The fields are read one after the other, as far as they are there.
LEMMA FieldsRun ==
    ASSUME NEW n \in Nat, NEW m, NEW s, NEW mask, NEW b \in Seq(Nat), NEW len \in Nat, NEW V,
           NEW old \in [1 .. n -> V], NEW first \in Nat \ {0}, first - 1 <= len,
           NEW parts \in [1 .. n -> Seq(Nat)], NEW o \in [0 .. n -> Nat],
           Laid(m, s, mask, b, first, parts, o, n, len)
    PROVE  IF first + o[n] - 1 <= len
           THEN /\ DecodeFields(m, old, b, first).ok
                /\ DecodeFields(m, old, b, first).instance = Merged(m, old, s, mask)
           ELSE ~DecodeFields(m, old, b, first).ok
<1>0. /\ len = Len(b) /\ Len(m.fields) = n /\ DecodeMask(m, b, Half + 1) = mask
      /\ \A i \in 1 .. n : m.fields[i] \in FieldTypes /\ HasType(m.fields[i], s[i])
      /\ \A i \in 1 .. n : parts[i] = IF i \in mask THEN EncodeField(m.fields[i], s[i]) ELSE <<>>
      /\ \A i \in 1 .. n : Agrees(b, first + o[i - 1], parts[i])
  BY DEF Laid
<1>00. o[0] = 0 /\ \A i \in 1 .. n : o[i] = o[i - 1] + Len(parts[i])
  BY DEF Laid
<1>1. PICK got : Decodes(got, m, b, old, first)
  BY <1>0, DecodeRuns
<1>2. /\ DecodeFields(m, old, b, first) = got[n]
      /\ got[0] = Got(old, first)
      /\ \A i \in 1 .. n : got[i] = DecodeNext(m, b, got[i - 1], i)
  BY <1>0, <1>1 DEF Decodes, Got
<1> DEFINE part(i) == [j \in 1 .. n |-> IF j <= i /\ j \in mask THEN Decoded(m.fields[j], s[j]) ELSE old[j]]
           is(i, p) == IF p - 1 <= len THEN got[i] = Got(part(i), p)
                       ELSE got[i].ok = FALSE
           S == {i \in 0 .. n : is(i, first + o[i])}
<1> HIDE DEF part, is
<1>3. 0 \in S
  <2>1. part(0) = old
    <3>1. \A j \in 1 .. n : ~(j <= 0)
      OBVIOUS
    <3>2. old = [j \in 1 .. n |-> old[j]]
      OBVIOUS
    <3> QED BY <3>1, <3>2 DEF part
  <2>2. first + o[0] - 1 <= len /\ first + o[0] = first /\ 0 \in 0 .. n
    BY <1>00
  <2>3. is(0, first + o[0])
    BY <1>2, <2>1, <2>2 DEF is
  <2> QED BY <2>2, <2>3
<1>4. ASSUME NEW i \in 0 .. n - 1, i \in S PROVE i + 1 \in S
  <2>1. /\ i + 1 \in 1 .. n /\ (i + 1) - 1 = i /\ i + 1 \in 0 .. n /\ i \in 0 .. n /\ i \in Nat
    OBVIOUS
  <2>2. got[i + 1] = DecodeNext(m, b, got[i], i + 1)
    BY <1>2, <2>1
  <2>3. /\ o[i + 1] = o[i] + Len(parts[i + 1]) /\ o[i] \in Nat /\ o[i + 1] \in Nat
        /\ Agrees(b, first + o[i], parts[i + 1]) /\ parts[i + 1] \in Seq(Nat)
    BY <1>0, <1>00, <2>1
  <2>31. PICK u \in Nat, l \in Nat, w \in Nat : u = o[i] /\ l = Len(parts[i + 1]) /\ w = o[i + 1]
    BY <2>3
  <2>32. w = u + l
    BY <2>3, <2>31, Zenon
  <2>33. PICK p \in Nat \ {0}, q \in Nat : p = first + u /\ q = first + w /\ q = p + l
    BY <2>32
  <2>4. p = first + o[i] /\ l = Len(parts[i + 1]) /\ q = p + l /\ q = first + o[i + 1]
    BY <2>31, <2>33, Zenon
  <2>5. IF p - 1 <= len THEN got[i] = Got(part(i), p) ELSE got[i].ok = FALSE
    <3>1. is(i, p)
      BY <1>4, <2>4
    <3> QED BY <3>1 DEF is
  <2>6. SUFFICES IF q - 1 <= len THEN got[i + 1] = Got(part(i + 1), q)
                 ELSE got[i + 1].ok = FALSE
    <3>1. is(i + 1, q)
      BY <2>6 DEF is
    <3> QED BY <2>1, <2>4, <3>1
  <2>7. p \in Place
    BY DEF Place
  <2> HIDE DEF S
  <2>8. CASE ~(p - 1 <= len)
    <3>1. got[i].ok = FALSE
      BY <2>5, <2>8
    <3>2. got[i + 1] = got[i]
      BY <2>2, <3>1 DEF DecodeNext
    <3>3. ~(q - 1 <= len)
      BY <2>33, <2>8
    <3> QED BY <3>1, <3>2, <3>3
  <2>9. CASE p - 1 <= len /\ i + 1 \notin mask
    <3>1. parts[i + 1] = <<>>
      BY <1>0, <2>1, <2>9
    <3>2. l = 0 /\ q = p
      <4>1. Len(<<>>) = 0
        OBVIOUS
      <4> QED BY <2>4, <3>1, <4>1
    <3>3. part(i + 1) = part(i)
      <4>1. \A j \in 1 .. n : (j <= i + 1 /\ j \in mask) <=> (j <= i /\ j \in mask)
        BY <2>9
      <4> QED BY <4>1 DEF part
    <3>4. got[i + 1] = got[i]
      <4>1. got[i] = Got(part(i), p)
        BY <2>5, <2>9
      <4>2. i + 1 \notin DecodeMask(m, b, Half + 1)
        BY <1>0, <2>9
      <4> QED BY <2>2, <4>1, <4>2, DecodeNextIs
    <3> QED BY <2>5, <2>9, <3>2, <3>3, <3>4
  <2>10. CASE p - 1 <= len /\ i + 1 \in mask
    <3>0. PICK x : x = s[i + 1]
      OBVIOUS
    <3>1. PICK t \in FieldTypes : t = m.fields[i + 1] /\ x = s[i + 1]
      BY <1>0, <2>1, <3>0
    <3>2. HasType(t, x) /\ parts[i + 1] = EncodeField(t, x)
      BY <1>0, <2>1, <2>10, <3>1
    <3>3. DecodeField(t, b, p) = IF q - 1 <= len THEN [value |-> Decoded(t, x), next |-> q] ELSE Refused
      <4>1. Agrees(b, p, EncodeField(t, x)) /\ Len(EncodeField(t, x)) = l
        BY <2>3, <2>4, <3>2
      <4>2. Whole(b, p, EncodeField(t, x)) <=> q - 1 <= len
        <5>1. Whole(b, p, EncodeField(t, x)) <=> p + l - 1 <= len
          BY <1>0, <4>1, Zenon DEF Whole
        <5> QED BY <2>33, <5>1
      <4>3. DecodeField(t, b, p) = IF Whole(b, p, EncodeField(t, x))
                                   THEN [value |-> Decoded(t, x), next |-> p + Len(EncodeField(t, x))]
                                   ELSE Refused
        BY <2>7, <3>2, <4>1, FieldIs
      <4> QED BY <2>4, <4>1, <4>2, <4>3
    <3>4. i + 1 \in DecodeMask(m, b, Half + 1)
      BY <1>0, <2>10
    <3>5. CASE q - 1 <= len
      <4>1. part(i + 1) = Put(part(i), i + 1, Decoded(t, x))
        <5>1. i + 1 \in 1 .. n /\ ~(i + 1 <= i) /\ i + 1 <= i + 1
          BY <2>1
        <5>2. \A j \in 1 .. n : j # i + 1 => ((j <= i + 1 /\ j \in mask) <=> (j <= i /\ j \in mask))
          OBVIOUS
        <5>3. \A j \in 1 .. n : part(i + 1)[j] = IF j = i + 1 THEN Decoded(t, x) ELSE part(i)[j]
          BY <2>10, <3>1, <5>1, <5>2 DEF part
        <5> QED BY <5>1, <5>3 DEF part, Put
      <4>2. got[i] = Got(part(i), p)
        BY <2>5, <2>10
      <4>3. DecodeField(m.fields[i + 1], b, p) = [value |-> Decoded(t, x), next |-> q]
        BY <3>1, <3>3, <3>5
      <4>4. got[i + 1] = Got(Put(part(i), i + 1, Decoded(t, x)), q)
        BY <2>2, <3>4, <4>2, <4>3, DecodeNextIs
      <4> QED BY <3>5, <4>1, <4>4
    <3>6. CASE ~(q - 1 <= len)
      <4>1. got[i] = Got(part(i), p)
        BY <2>5, <2>10
      <4>2. DecodeField(m.fields[i + 1], b, p) = Refused
        BY <3>1, <3>3, <3>6
      <4>3. got[i + 1].ok = FALSE
        <5>1. got[i + 1] = Failed(part(i), p)
          BY <2>2, <3>4, <4>1, <4>2, DecodeNextIs
        <5> QED BY <5>1 DEF Failed
      <4> QED BY <3>6, <4>3
    <3> QED BY <3>5, <3>6
  <2> QED BY <2>8, <2>9, <2>10
<1>5. n \in S
  <2> HIDE DEF S
  <2> QED BY <1>3, <1>4, UpTo
<1>6. part(n) = Merged(m, old, s, mask)
  <2>1. \A j \in 1 .. n : j <= n
    OBVIOUS
  <2> QED BY <2>1 DEF Merged, part
<1>7. IF first + o[n] - 1 <= len
      THEN got[n] = Got(part(n), first + o[n]) ELSE got[n].ok = FALSE
  BY <1>5 DEF is
<1>8. CASE first + o[n] - 1 <= len
  <2>1. DecodeFields(m, old, b, first) = Got(Merged(m, old, s, mask), first + o[n])
    BY <1>2, <1>6, <1>7, <1>8, Zenon
  <2> QED BY <1>8, <2>1 DEF Got
<1>9. CASE ~(first + o[n] - 1 <= len)
  BY <1>2, <1>7, <1>9
<1> QED BY <1>8, <1>9

LEMMA SnapshotHeader ==
    ASSUME NEW m, NEW old, NEW b, NEW first, first = Half + MaskBytes(m) + 1
    PROVE  DecodeSnapshot(m, old, b)
           = IF Len(b) < Half \/ At(b, 1, Half) # m.version \/ Len(b) < first - 1
             THEN [ok |-> FALSE, instance |-> old, next |-> 1]
             ELSE DecodeFields(m, old, b, first)
BY Zenon DEF DecodeSnapshot

\* A snapshot is read as it was written; one that is cut short is refused.
THEOREM SnapshotIs ==
    ASSUME NEW m \in Metas, NEW s, Instance(m, s), NEW mask \in SUBSET DOMAIN m.fields,
           NEW b \in Seq(Nat), Agrees(b, 1, EncodeSnapshot(m, s, mask)),
           NEW V, NEW old \in [DOMAIN m.fields -> V]
    PROVE  IF Len(EncodeSnapshot(m, s, mask)) <= Len(b)
           THEN /\ DecodeSnapshot(m, old, b).ok
                /\ DecodeSnapshot(m, old, b).instance = Merged(m, old, s, mask)
           ELSE ~DecodeSnapshot(m, old, b).ok
<1>1. PICK n \in Nat, half \in Nat \ {0}, mb \in Nat, len \in Nat :
          n = Len(m.fields) /\ half = Half /\ mb = MaskBytes(m) /\ len = Len(b)
  <2>1. Len(m.fields) \in Nat
    BY PartsAre
  <2>2. MaskBytes(m) \in Nat
    BY SnapshotBytes
  <2>3. Half \in Nat \ {0} /\ Len(b) \in Nat
    BY BaseIs
  <2> QED BY <2>1, <2>2, <2>3, Zenon
<1>2. PICK parts \in [1 .. n -> Seq(Nat)] : parts = Parts(m, s, mask)
  BY <1>1, PartsAre
<1>3. PICK v \in Seq(Nat), k \in Seq(Nat), e \in Seq(Nat), f \in Seq(Nat) :
          /\ v = LE(m.version, Half) /\ k = EncodeMask(m, mask) /\ e = EncodeSnapshot(m, s, mask)
          /\ f = FlattenSeq(parts) /\ Len(v) = half /\ Len(k) = mb
  BY <1>1, <1>2, PartsAre, SnapshotBytes
<1>4. /\ e = (v \o k) \o f /\ v \o k \in Seq(Nat)
  BY <1>1, <1>2, <1>3, SnapshotBytes
<1>51. PICK l \in Nat : l = Len(f)
  OBVIOUS
<1>52. PICK first \in Nat \ {0} : first = half + mb + 1
  OBVIOUS
<1>53. PICK h \in Nat \ {0} : h = half + 1
  OBVIOUS
<1>54. PICK size \in Nat : size = first - 1 + l
  BY <1>52
<1>55. size = first - 1 + Len(f)
  BY <1>51, <1>54, Zenon
<1>56. first \in Place /\ h \in Place /\ 1 \in Place
  BY DEF Place
<1>5. /\ first = half + mb + 1 /\ size = first - 1 + Len(f) /\ h = half + 1
      /\ first \in Place /\ h \in Place /\ 1 \in Place
  BY <1>52, <1>53, <1>55, <1>56, Zenon
<1>6. Len(v \o k) = half + mb /\ Len(e) = size
  <2>1. \A x, y \in Seq(Nat) : Len(x \o y) = Len(x) + Len(y)
    OBVIOUS
  <2>2. Len(v \o k) = half + mb
    BY <1>3, <2>1
  <2>3. Len(e) = Len(v \o k) + Len(f)
    BY <1>4, <2>1
  <2>5. Len(e) = (half + mb) + l /\ size = first - 1 + l
    BY <1>51, <1>54, <2>2, <2>3, Zenon
  <2>6. (half + mb) + l = first - 1 + l
    BY <1>52
  <2> QED BY <2>2, <2>5, <2>6, Zenon
<1>7. Agrees(b, 1, v) /\ Agrees(b, h, k) /\ Agrees(b, first, f)
  <2>1. Agrees(b, 1, (v \o k) \o f)
    BY <1>3, <1>4
  <2>2. Agrees(b, 1, v \o k) /\ Agrees(b, 1 + Len(v \o k), f)
    BY <1>4, <1>5, <2>1, AgreesSplit
  <2>3. Agrees(b, 1, v) /\ Agrees(b, 1 + Len(v), k)
    BY <1>5, <2>2, AgreesSplit
  <2>4. 1 + Len(v \o k) = first /\ 1 + Len(v) = h
    <3>1. 1 + (half + mb) = first /\ 1 + half = h
      BY <1>5
    <3> QED BY <1>3, <1>6, <3>1
  <2> QED BY <2>2, <2>3, <2>4
<1>8. CASE len < first - 1
  <2>1. DecodeSnapshot(m, old, b).ok = FALSE
    <3>1. Len(b) < first - 1 /\ first = Half + MaskBytes(m) + 1
      BY <1>1, <1>52, <1>8, Zenon
    <3>2. DecodeSnapshot(m, old, b) = [ok |-> FALSE, instance |-> old, next |-> 1]
      BY <3>1, SnapshotHeader, Zenon
    <3> QED BY <3>2
  <2>2. ~(size <= len)
    BY <1>5, <1>8
  <2>3. ~(Len(EncodeSnapshot(m, s, mask)) <= Len(b))
    BY <1>1, <1>3, <1>6, <2>2, Zenon
  <2> QED BY <2>1, <2>3
<1>9. CASE ~(len < first - 1)
  <2>1. first - 1 <= len /\ half <= len /\ 1 + half - 1 <= len /\ h + mb - 1 <= len
    BY <1>5, <1>9
  <2>2. At(b, 1, Half) = m.version
    <3>1. 1 + Half - 1 <= Len(b) /\ Half \in Nat /\ m.version \in 0 .. Most(Half)
      <4>1. 1 + Half - 1 <= Len(b)
        BY <1>1, <2>1, Zenon
      <4> QED BY <1>1, <4>1, PartsAre
    <3> QED BY <1>3, <1>5, <1>7, <3>1, ReadNumber
  <2>3. DecodeMask(m, b, Half + 1) = mask
    <3>1. Whole(b, h, k)
      BY <1>1, <1>3, <2>1, Zenon DEF Whole
    <3>2. \A x \in Seq(Nat), at \in Place :
            Agrees(x, at, EncodeMask(m, mask)) /\ Whole(x, at, EncodeMask(m, mask))
            => DecodeMask(m, x, at) = mask
      <4>1. m.fields \in Seq(FieldTypes)
        BY DEF Metas
      <4> QED BY <4>1, MaskIs
    <3>3. DecodeMask(m, b, h) = mask
      BY <1>3, <1>5, <1>7, <3>1, <3>2
    <3> QED BY <1>1, <1>5, <3>3, Zenon
  <2>4. PICK o \in [0 .. n -> Nat] :
          /\ Len(FlattenSeq(parts)) = o[n] /\ o[0] = 0
          /\ \A i \in 1 .. n : o[i] = o[i - 1] + Len(parts[i])
          /\ \A x \in Seq(Nat), at \in Place :
                Agrees(x, at, FlattenSeq(parts)) =>
                  \A i \in 1 .. n : Agrees(x, at + o[i - 1], parts[i])
    BY FlattenPlaces
  <2>5. \A i \in 1 .. n : Agrees(b, first + o[i - 1], parts[i])
    BY <1>3, <1>5, <1>7, <2>4
  <2>6. Laid(m, s, mask, b, first, parts, o, n, len)
    <3>1. \A i \in 1 .. n : /\ m.fields[i] \in FieldTypes /\ HasType(m.fields[i], s[i])
                            /\ parts[i] = IF i \in mask THEN EncodeField(m.fields[i], s[i]) ELSE <<>>
      <4>1. \A i \in 1 .. Len(m.fields) : m.fields[i] \in FieldTypes /\ HasType(m.fields[i], s[i])
        BY PartsAre
      <4>2. \A i \in 1 .. Len(m.fields) :
              Parts(m, s, mask)[i] = IF i \in mask THEN EncodeField(m.fields[i], s[i]) ELSE <<>>
        <5>1. DOMAIN m.fields = 1 .. Len(m.fields)
          BY PartsAre
        <5> QED BY <5>1 DEF Parts
      <4> QED BY <1>1, <1>2, <4>1, <4>2, Zenon
    <3>2. o[0] = 0 /\ \A i \in 1 .. n : o[i] = o[i - 1] + Len(parts[i])
      BY <2>4
    <3> QED BY <1>1, <2>3, <2>5, <3>1, <3>2 DEF Laid
  <2>7. old \in [1 .. n -> V]
    BY <1>1, PartsAre
  <2>8. IF first + o[n] - 1 <= len
        THEN /\ DecodeFields(m, old, b, first).ok
             /\ DecodeFields(m, old, b, first).instance = Merged(m, old, s, mask)
        ELSE ~DecodeFields(m, old, b, first).ok
    BY <2>1, <2>6, <2>7, FieldsRun
  <2>9. DecodeSnapshot(m, old, b) = DecodeFields(m, old, b, first)
    <3>1. ~(len < half) /\ ~(len < first - 1)
      BY <2>1
    <3>2. ~(Len(b) < Half \/ At(b, 1, Half) # m.version \/ Len(b) < first - 1)
      BY <1>1, <2>2, <3>1, Zenon
    <3>3. first = Half + MaskBytes(m) + 1
      BY <1>1, <1>52, Zenon
    <3> QED BY <3>2, <3>3, SnapshotHeader, Zenon
  <2>10. first + o[n] - 1 = Len(EncodeSnapshot(m, s, mask))
    <3>1. PICK w \in Nat : w = o[n]
      OBVIOUS
    <3>2. size = first - 1 + w
      BY <1>3, <1>5, <2>4, <3>1, Zenon
    <3>3. first + w - 1 = size
      BY <3>2
    <3> QED BY <1>3, <1>6, <3>1, <3>3, Zenon
  <2> QED BY <1>1, <2>8, <2>9, <2>10, Zenon
<1> QED BY <1>8, <1>9

\* A snapshot of another version of a type is refused.
LEMMA DriftedSnapshot ==
    ASSUME NEW m \in Metas, NEW s, Instance(m, s), NEW mask \in SUBSET DOMAIN m.fields,
           NEW b \in Seq(Nat), Agrees(b, 1, EncodeSnapshot(m, s, mask)),
           NEW there, there.version # m.version, NEW old
    PROVE  DecodeSnapshot(there, old, b).ok = FALSE
<1>1. PICK half \in Nat \ {0}, len \in Nat : half = Half /\ len = Len(b)
  BY BaseIs
<1>2. PICK v \in Seq(Nat), k \in Seq(Nat), f \in Seq(Nat) :
          /\ v = LE(m.version, Half) /\ v \o k \in Seq(Nat)
          /\ EncodeSnapshot(m, s, mask) = (v \o k) \o f
  <2>1. PICK v \in Seq(Nat) : v = LE(m.version, Half)
    BY PartsAre
  <2>2. PICK k \in Seq(Nat) : k = EncodeMask(m, mask)
    BY SnapshotBytes
  <2>3. PICK f \in Seq(Nat) : f = FlattenSeq(Parts(m, s, mask))
    BY SnapshotBytes
  <2>4. EncodeSnapshot(m, s, mask) = (v \o k) \o f
    BY <2>1, <2>2, <2>3, SnapshotBytes
  <2>5. v \o k \in Seq(Nat)
    OBVIOUS
  <2> QED BY <2>1, <2>4, <2>5
<1>3. 1 \in Place
  BY DEF Place
<1>4. Agrees(b, 1, v)
  <2>1. Agrees(b, 1, (v \o k) \o f)
    BY <1>2
  <2>2. Agrees(b, 1, v \o k)
    BY <1>2, <1>3, <2>1, AgreesSplit
  <2> QED BY <1>3, <2>2, AgreesSplit
<1>5. CASE len < half
  <2>1. Len(b) < Half
    BY <1>1, <1>5, Zenon
  <2>2. DecodeSnapshot(there, old, b) = [ok |-> FALSE, instance |-> old, next |-> 1]
    BY <2>1 DEF DecodeSnapshot
  <2> QED BY <2>2
<1>6. CASE ~(len < half)
  <2>1. At(b, 1, Half) = m.version
    <3>1. 1 + half - 1 <= len
      BY <1>6
    <3>2. 1 + Half - 1 <= Len(b) /\ Half \in Nat /\ m.version \in 0 .. Most(Half)
      <4>1. 1 + Half - 1 <= Len(b)
        BY <1>1, <3>1, Zenon
      <4> QED BY <1>1, <4>1, PartsAre
    <3> QED BY <1>2, <1>3, <1>4, <3>2, ReadNumber
  <2>2. DecodeSnapshot(there, old, b) = [ok |-> FALSE, instance |-> old, next |-> 1]
    BY <2>1 DEF DecodeSnapshot
  <2> QED BY <2>2
<1> QED BY <1>5, <1>6

-----------------------------------------------------------------------------
(* Frames *)

LEMMA OffsetsGrow ==
    ASSUME NEW n \in Nat, NEW sizes \in [1 .. n -> Nat], NEW o \in [0 .. n -> Nat],
           \A i \in 1 .. n : o[i] = o[i - 1] + sizes[i], NEW i \in 0 .. n
    PROVE  o[i] <= o[n]
<1> DEFINE S == {k \in 0 .. n : k >= i => o[i] <= o[k]}
<1>1. 0 \in S
  <2>1. 0 >= i => i = 0
    OBVIOUS
  <2> QED BY <2>1
<1>2. ASSUME NEW k \in 0 .. n - 1, k \in S PROVE k + 1 \in S
  <2>1. k + 1 \in 1 .. n /\ (k + 1) - 1 = k /\ k + 1 \in 0 .. n /\ k \in 0 .. n
    OBVIOUS
  <2>2. PICK x \in Nat, y \in Nat, z \in Nat : x = o[k + 1] /\ y = o[k] /\ z = sizes[k + 1]
    <3>1. o[k + 1] \in Nat /\ o[k] \in Nat /\ sizes[k + 1] \in Nat
      BY <2>1
    <3> QED BY <3>1, Zenon
  <2>3. x = y + z
    BY <2>1, <2>2
  <2>4. CASE k + 1 = i
    BY <2>1, <2>4
  <2>5. CASE k + 1 # i
    <3>1. k + 1 >= i => o[i] <= y
      <4>1. k + 1 >= i => k >= i
        BY <2>5
      <4> QED BY <1>2, <2>2, <4>1
    <3>2. PICK u \in Nat : u = o[i]
      OBVIOUS
    <3>3. k + 1 >= i => u <= x
      BY <2>3, <3>1, <3>2
    <3> QED BY <2>1, <2>2, <3>2, <3>3
  <2> QED BY <2>4, <2>5
<1>3. n \in S
  <2> HIDE DEF S
  <2> QED BY <1>1, <1>2, UpTo
<1> QED BY <1>3

Offsets(o, n, sizes) == o[0] = 0 /\ \A i \in 1 .. n : o[i] = o[i - 1] + sizes[i]

\* Where each of the numbers of a frame begins.
LEMMA BeforeIs ==
    ASSUME NEW n \in Nat, NEW l, l.sizes \in [1 .. n -> Nat],
           NEW o \in [0 .. n -> Nat], Offsets(o, n, l.sizes)
    PROVE  \A k \in 0 .. n : Before(l, k) = o[k] + 1
<1>01. PICK sizes \in [1 .. n -> Nat] : l.sizes = sizes
  OBVIOUS
<1> SUFFICES ASSUME NEW k \in 0 .. n PROVE Before(l, k) = o[k] + 1
  OBVIOUS
<1>00. k \in Nat /\ k <= n
  OBVIOUS
<1>02. o[0] = 0 /\ \A i \in 1 .. n : o[i] = o[i - 1] + sizes[i]
  BY <1>01 DEF Offsets
<1> DEFINE Is(p, m) == p = [i \in 0 .. m |-> IF i = 0 THEN 1 ELSE p[i - 1] + l.sizes[i]]
           q == [i \in 0 .. k |-> o[i] + 1]
<1>1. Is(q, k)
  <2>1. ASSUME NEW i \in 0 .. k PROVE q[i] = IF i = 0 THEN 1 ELSE q[i - 1] + l.sizes[i]
    <3>1. CASE i = 0
      BY <1>02, <3>1
    <3>2. CASE i # 0
      <4>1. i \in 1 .. n /\ i - 1 \in 0 .. k /\ i - 1 \in 0 .. n
        BY <1>00, <3>2
      <4>20. o[i] \in Nat /\ o[i - 1] \in Nat /\ sizes[i] \in Nat
        BY <4>1
      <4>2. PICK x \in Nat, y \in Nat, z \in Nat : x = o[i] /\ y = o[i - 1] /\ z = sizes[i]
        BY <4>20, Zenon
      <4>3. x + 1 = (y + 1) + z
        BY <1>02, <4>1, <4>2
      <4>4. q[i] = x + 1 /\ q[i - 1] = y + 1
        BY <4>1, <4>2
      <4> HIDE DEF q
      <4> QED BY <1>01, <3>2, <4>2, <4>3, <4>4
    <3> QED BY <3>1, <3>2
  <2>2. q = [i \in 0 .. k |-> q[i]]
    OBVIOUS
  <2> HIDE DEF q
  <2> QED BY <2>1, <2>2
<1>2. PICK p : p = CHOOSE g : Is(g, k)
  OBVIOUS
<1>3. Is(p, k)
  <2>1. \E g : Is(g, k)
    BY <1>1
  <2> HIDE DEF Is
  <2> QED BY <1>2, <2>1
<1>4. Before(l, k) = p[k]
  BY <1>2 DEF Before
<1>50. \A i \in 0 .. k : p[i] = IF i = 0 THEN 1 ELSE p[i - 1] + l.sizes[i]
  BY <1>3
<1>51. p[0] = 1
  <2>1. 0 \in 0 .. k
    BY <1>00
  <2> QED BY <1>50, <2>1, Zenon
<1>52. ASSUME NEW i \in 1 .. k PROVE p[i] = p[i - 1] + sizes[i]
  <2>1. i \in 0 .. k /\ i # 0
    OBVIOUS
  <2> QED BY <1>01, <1>50, <2>1
<1>5. p[0] = 1 /\ \A i \in 1 .. k : p[i] = p[i - 1] + sizes[i]
  BY <1>51, <1>52
<1> DEFINE S == {i \in 0 .. k : p[i] = o[i] + 1}
<1>6. 0 \in S
  BY <1>02, <1>5
<1>7. ASSUME NEW i \in 0 .. k - 1, i \in S PROVE i + 1 \in S
  <2>1. i + 1 \in 1 .. k /\ i + 1 \in 1 .. n /\ (i + 1) - 1 = i /\ i + 1 \in 0 .. k /\ i \in 0 .. n
        /\ i + 1 \in 0 .. n
    BY <1>00
  <2>2. PICK x \in Nat, y \in Nat, z \in Nat : x = o[i + 1] /\ y = o[i] /\ z = sizes[i + 1]
    BY <2>1
  <2>3. p[i + 1] = p[i] + sizes[i + 1] /\ x = y + z
    BY <1>02, <1>5, <2>1, <2>2
  <2>4. p[i] = y + 1
    BY <1>7, <2>2
  <2>5. p[i + 1] = (y + 1) + z
    BY <2>2, <2>3, <2>4, Zenon
  <2>6. (y + 1) + z = x + 1
    BY <2>3
  <2> QED BY <2>1, <2>2, <2>5, <2>6
<1>8. k \in S
  <2> HIDE DEF S
  <2> QED BY <1>00, <1>6, <1>7, UpTo
<1> QED BY <1>4, <1>8

\* What fits a frame: numbers of its sizes that are understood as they are,
\* and as many units of payload as its length can tell.
Framed(l, n, tag, sizes, length, unit, values, payload, count) ==
    /\ l.tag = tag /\ l.sizes = sizes /\ l.length = length /\ l.unit = unit
    /\ \A i \in 1 .. n : values[i] \in 0 .. Most(sizes[i]) /\ Understood(l, i, values[i]) = values[i]
    /\ Sensible(l, values)
    /\ Len(payload) = unit * count /\ count <= Most(length)

FrameBytes(l, values, payload, count) ==
    <<l.tag>> \o FlattenSeq([i \in DOMAIN values |-> LE(values[i], l.sizes[i])])
              \o LE(count, l.length) \o payload

\* The pieces of a frame and their places.
FrameLaid(l, n, tag, sizes, length, values, payload, count, o) ==
    /\ o[0] = 0 /\ \A i \in 1 .. n : o[i] = o[i - 1] + sizes[i]
    /\ Len(FrameBytes(l, values, payload, count)) = 1 + o[n] + length + Len(payload)
    /\ \A b \in Seq(Nat) : Agrees(b, 1, FrameBytes(l, values, payload, count)) =>
          /\ Agrees(b, 1, <<tag>>)
          /\ \A i \in 1 .. n : Agrees(b, 2 + o[i - 1], LE(values[i], sizes[i]))
          /\ Agrees(b, 2 + o[n], LE(count, length))
          /\ Agrees(b, 2 + o[n] + length, payload)

LEMMA FrameParts ==
    ASSUME NEW n \in Nat, NEW l, NEW sizes \in [1 .. n -> Nat], NEW values \in [1 .. n -> Nat],
           NEW payload \in Seq(Nat), NEW count \in Nat, NEW tag \in Nat, NEW length \in Nat,
           NEW unit \in Nat \ {0}, Framed(l, n, tag, sizes, length, unit, values, payload, count)
    PROVE  /\ FrameBytes(l, values, payload, count) \in Seq(Nat)
           /\ \E o \in [0 .. n -> Nat] : FrameLaid(l, n, tag, sizes, length, values, payload, count, o)
<1> DEFINE parts == [i \in 1 .. n |-> LE(values[i], sizes[i])]
<1>1. parts \in [1 .. n -> Seq(Nat)] /\ \A i \in 1 .. n : parts[i] = LE(values[i], sizes[i]) /\ Len(parts[i]) = sizes[i]
  BY LEType
<1>2. DOMAIN values = 1 .. n /\ parts = [i \in DOMAIN values |-> LE(values[i], l.sizes[i])]
  BY DEF Framed
<1> HIDE DEF parts
<1>3. PICK f \in Seq(Nat), c \in Seq(Nat), t \in Seq(Nat) :
          f = FlattenSeq(parts) /\ c = LE(count, length) /\ t = <<tag>> /\ Len(c) = length /\ Len(t) = 1
  <2>1. FlattenSeq(parts) \in Seq(Nat)
    BY <1>1, FlattenPlaces
  <2>2. LE(count, length) \in Seq(Nat) /\ Len(LE(count, length)) = length
    BY LEType
  <2>3. <<tag>> \in Seq(Nat) /\ Len(<<tag>>) = 1
    OBVIOUS
  <2> QED BY <2>1, <2>2, <2>3, Zenon
<1>4. PICK e \in Seq(Nat) : e = ((t \o f) \o c) \o payload /\ e = FrameBytes(l, values, payload, count)
  <2>1. FrameBytes(l, values, payload, count) = ((t \o f) \o c) \o payload
    <3>1. l.tag = tag /\ l.length = length
      BY DEF Framed
    <3> QED BY <1>2, <1>3, <3>1, Zenon DEF FrameBytes
  <2>2. ((t \o f) \o c) \o payload \in Seq(Nat)
    OBVIOUS
  <2> QED BY <2>1, <2>2, Zenon
<1>5. PICK o \in [0 .. n -> Nat] :
          /\ Len(f) = o[n] /\ o[0] = 0
          /\ \A i \in 1 .. n : o[i] = o[i - 1] + Len(parts[i])
          /\ \A b \in Seq(Nat), at \in Place :
                Agrees(b, at, f) => \A i \in 1 .. n : Agrees(b, at + o[i - 1], parts[i])
  <2>1. \E o \in [0 .. n -> Nat] :
          /\ Len(FlattenSeq(parts)) = o[n] /\ o[0] = 0
          /\ \A i \in 1 .. n : o[i] = o[i - 1] + Len(parts[i])
          /\ \A b \in Seq(Nat), at \in Place :
                Agrees(b, at, FlattenSeq(parts)) => \A i \in 1 .. n : Agrees(b, at + o[i - 1], parts[i])
    BY <1>1, FlattenPlaces
  <2> QED BY <1>3, <2>1, Zenon
<1>6. \A i \in 1 .. n : o[i] = o[i - 1] + sizes[i]
  BY <1>1, <1>5
<1>7. PICK w \in Nat : w = o[n]
  OBVIOUS
<1>8. PICK k \in Nat : k = Len(payload)
  OBVIOUS
<1>9. /\ t \o f \in Seq(Nat) /\ Len(t \o f) = 1 + w
      /\ (t \o f) \o c \in Seq(Nat) /\ Len((t \o f) \o c) = 1 + w + length
      /\ Len(e) = 1 + w + length + k
  <2>1. \A x, y \in Seq(Nat) : x \o y \in Seq(Nat) /\ Len(x \o y) = Len(x) + Len(y)
    OBVIOUS
  <2>2. t \o f \in Seq(Nat) /\ Len(t \o f) = 1 + w
    <3>1. Len(t \o f) = Len(t) + Len(f) /\ t \o f \in Seq(Nat)
      BY <2>1
    <3> QED BY <1>3, <1>5, <1>7, <3>1, Zenon
  <2>3. (t \o f) \o c \in Seq(Nat) /\ Len((t \o f) \o c) = 1 + w + length
    <3>1. Len((t \o f) \o c) = Len(t \o f) + Len(c) /\ (t \o f) \o c \in Seq(Nat)
      BY <2>1, <2>2
    <3> QED BY <1>3, <2>2, <3>1, Zenon
  <2>4. Len(e) = Len((t \o f) \o c) + Len(payload)
    BY <1>4, <2>1, <2>3
  <2> QED BY <1>8, <2>2, <2>3, <2>4, Zenon
<1>10. Len(FrameBytes(l, values, payload, count)) = 1 + o[n] + length + Len(payload)
  BY <1>4, <1>7, <1>8, <1>9, Zenon
<1>11. ASSUME NEW b \in Seq(Nat), Agrees(b, 1, e)
       PROVE  /\ Agrees(b, 1, <<tag>>)
              /\ \A i \in 1 .. n : Agrees(b, 2 + o[i - 1], LE(values[i], sizes[i]))
              /\ Agrees(b, 2 + o[n], LE(count, length))
              /\ Agrees(b, 2 + o[n] + length, payload)
  <2>1. 1 \in Place /\ 2 \in Place
    BY DEF Place
  <2>2. Agrees(b, 1, ((t \o f) \o c) \o payload)
    BY <1>4, <1>11, Zenon
  <2>3. Agrees(b, 1, (t \o f) \o c) /\ Agrees(b, 1 + Len((t \o f) \o c), payload)
    BY <1>9, <2>1, <2>2, AgreesSplit
  <2>4. Agrees(b, 1, t \o f) /\ Agrees(b, 1 + Len(t \o f), c)
    BY <1>9, <2>1, <2>3, AgreesSplit
  <2>5. Agrees(b, 1, t) /\ Agrees(b, 1 + Len(t), f)
    BY <1>9, <2>1, <2>4, AgreesSplit
  <2>6. 1 + (1 + w + length) = 2 + w + length /\ 1 + (1 + w) = 2 + w /\ 1 + 1 = 2
    OBVIOUS
  <2>7. /\ Agrees(b, 1, t) /\ Agrees(b, 2, f) /\ Agrees(b, 2 + o[n], c)
        /\ Agrees(b, 2 + o[n] + length, payload)
    BY <1>3, <1>7, <1>9, <2>3, <2>4, <2>5, <2>6, Zenon
  <2>8. \A i \in 1 .. n : Agrees(b, 2 + o[i - 1], parts[i])
    BY <1>5, <2>1, <2>7
  <2> QED BY <1>1, <1>3, <2>7, <2>8, Zenon
<1>12. \A b \in Seq(Nat) : Agrees(b, 1, FrameBytes(l, values, payload, count)) =>
          /\ Agrees(b, 1, <<tag>>)
          /\ \A i \in 1 .. n : Agrees(b, 2 + o[i - 1], LE(values[i], sizes[i]))
          /\ Agrees(b, 2 + o[n], LE(count, length))
          /\ Agrees(b, 2 + o[n] + length, payload)
  BY <1>4, <1>11, Zenon
<1>13. FrameLaid(l, n, tag, sizes, length, values, payload, count, o)
  BY <1>5, <1>6, <1>10, <1>12, Zenon DEF FrameLaid
<1> QED BY <1>4, <1>13

\* A whole frame is read as it was written, and one that is cut short is refused.
THEOREM FrameIs ==
    ASSUME NEW n \in Nat, NEW l, NEW sizes \in [1 .. n -> Nat], NEW values \in [1 .. n -> Nat],
           NEW payload \in Seq(Nat), NEW count \in Nat, NEW tag \in Nat, NEW length \in Nat,
           NEW unit \in Nat \ {0}, Framed(l, n, tag, sizes, length, unit, values, payload, count)
    PROVE  /\ EncodeFrame(l, values, payload) = FrameBytes(l, values, payload, count)
           /\ FrameBytes(l, values, payload, count) \in Seq(Nat)
           /\ \A b \in Seq(Nat) : Agrees(b, 1, FrameBytes(l, values, payload, count)) =>
                ParseFrame(l, b) = IF Len(FrameBytes(l, values, payload, count)) <= Len(b)
                                   THEN [values |-> values, payload |-> payload] ELSE Refused
<1>1. /\ l.tag = tag /\ l.sizes = sizes /\ l.length = length /\ l.unit = unit
      /\ \A i \in 1 .. n : values[i] \in 0 .. Most(sizes[i]) /\ Understood(l, i, values[i]) = values[i]
      /\ Sensible(l, values)
  BY DEF Framed
<1>2. Len(payload) = unit * count /\ count <= Most(length)
  BY DEF Framed
<1>3. PICK e \in Seq(Nat) : e = FrameBytes(l, values, payload, count)
  BY FrameParts
<1>4. PICK o \in [0 .. n -> Nat] :
         /\ o[0] = 0 /\ \A i \in 1 .. n : o[i] = o[i - 1] + sizes[i]
         /\ Len(FrameBytes(l, values, payload, count)) = 1 + o[n] + length + Len(payload)
         /\ \A b \in Seq(Nat) : Agrees(b, 1, FrameBytes(l, values, payload, count)) =>
               /\ Agrees(b, 1, <<tag>>)
               /\ \A i \in 1 .. n : Agrees(b, 2 + o[i - 1], LE(values[i], sizes[i]))
               /\ Agrees(b, 2 + o[n], LE(count, length))
               /\ Agrees(b, 2 + o[n] + length, payload)
  <2>1. PICK o \in [0 .. n -> Nat] : FrameLaid(l, n, tag, sizes, length, values, payload, count, o)
    BY FrameParts
  <2> QED BY <2>1, Zenon DEF FrameLaid
<1>5. PICK w \in Nat : w = o[n]
  OBVIOUS
<1>6. PICK k \in Nat : k = Len(payload) /\ k = unit * count
  BY <1>2
<1>7. Len(e) = 1 + w + length + k
  BY <1>3, <1>4, <1>5, <1>6, Zenon
<1>8. EncodeFrame(l, values, payload) = e
  <2>1. PICK most \in Nat : most = Most(length)
    BY MostIs
  <2>2. ~(k > unit * most)
    <3>1. unit * count <= unit * most
      BY <1>2, <2>1, TimesGrows
    <3>2. PICK x \in Nat : x = unit * most
      OBVIOUS
    <3> QED BY <1>6, <3>1, <3>2
  <2>3. k \div unit = count
    <3>1. 0 \in 0 .. unit - 1
      OBVIOUS
    <3>2. (0 + unit * count) \div unit = count
      BY <3>1, DivModIs
    <3>3. 0 + unit * count = k
      BY <1>6
    <3> QED BY <3>2, <3>3
  <2>4. ~(Len(payload) > l.unit * Most(l.length) \/ ~Sensible(l, values))
    BY <1>1, <1>6, <2>1, <2>2, Zenon
  <2>5. Len(payload) \div l.unit = count
    BY <1>1, <1>6, <2>3, Zenon
  <2> QED BY <1>3, <2>4, <2>5, Zenon DEF EncodeFrame, FrameBytes
<1>9. /\ HeaderSize(l) = 1 + w + length
      /\ \A i \in 1 .. n : Before(l, i - 1) + 1 = 2 + o[i - 1]
      /\ Before(l, Len(l.sizes)) + 1 = 2 + w
      /\ DOMAIN l.sizes = 1 .. n
  <2>1. \A i \in 0 .. n : Before(l, i) = o[i] + 1 /\ o[i] \in Nat
    <3>1. o[0] = 0 /\ \A j \in 1 .. n : o[j] = o[j - 1] + sizes[j]
      BY <1>4
    <3>2. l.sizes = sizes
      BY <1>1
    <3>3. Offsets(o, n, l.sizes) /\ l.sizes \in [1 .. n -> Nat]
      BY <3>1, <3>2, Zenon DEF Offsets
    <3>4. \A i \in 0 .. n : Before(l, i) = o[i] + 1
      BY <3>3, BeforeIs
    <3> QED BY <3>4
  <2>2. Len(l.sizes) = n /\ DOMAIN l.sizes = 1 .. n
    BY <1>1, LenIs
  <2>3. Before(l, n) = w + 1
    BY <1>5, <2>1
  <2>4. (w + 1) + length = 1 + w + length /\ (w + 1) + 1 = 2 + w
    OBVIOUS
  <2>5. ASSUME NEW i \in 1 .. n PROVE Before(l, i - 1) + 1 = 2 + o[i - 1]
    <3>1. i - 1 \in 0 .. n
      OBVIOUS
    <3>2. PICK x \in Nat : x = o[i - 1]
      BY <3>1
    <3>3. Before(l, i - 1) = x + 1
      BY <2>1, <3>1, <3>2
    <3>4. (x + 1) + 1 = 2 + x
      OBVIOUS
    <3> QED BY <3>2, <3>3, <3>4, Zenon
  <2>6. HeaderSize(l) = (w + 1) + length
    BY <1>1, <2>2, <2>3, Zenon DEF HeaderSize
  <2>7. Before(l, Len(l.sizes)) + 1 = 2 + w
    BY <2>2, <2>3, <2>4, Zenon
  <2> QED BY <2>2, <2>4, <2>5, <2>6, <2>7, Zenon
<1>10. ASSUME NEW b \in Seq(Nat), Agrees(b, 1, e)
       PROVE  ParseFrame(l, b) = IF Len(e) <= Len(b) THEN [values |-> values, payload |-> payload] ELSE Refused
  <2>1. PICK len \in Nat : len = Len(b)
    OBVIOUS
  <2>2. /\ Agrees(b, 1, <<tag>>)
        /\ \A i \in 1 .. n : Agrees(b, 2 + o[i - 1], LE(values[i], sizes[i]))
        /\ Agrees(b, 2 + w, LE(count, length)) /\ Agrees(b, 2 + w + length, payload)
    BY <1>3, <1>4, <1>5, <1>10, Zenon
  <2>3. CASE len < 1 + w + length
    <3>1. ~(1 + w + length + k <= len)
      BY <2>3
    <3>2. Len(b) < HeaderSize(l)
      BY <1>9, <2>1, <2>3, Zenon
    <3>3. ~(Len(e) <= Len(b))
      BY <1>7, <2>1, <3>1, Zenon
    <3> QED BY <3>2, <3>3, Zenon DEF ParseFrame
  <2>4. CASE ~(len < 1 + w + length)
    <3>1. b[1] = tag
      <4>1. 1 <= len /\ 1 \in Place
        BY <2>4 DEF Place
      <4> QED BY <2>1, <2>2, <4>1, AgreesOne
    <3>2. Values(l, b) = values
      <4>1. ASSUME NEW i \in 1 .. n
            PROVE  Understood(l, i, At(b, Before(l, i - 1) + 1, l.sizes[i])) = values[i]
        <5>1. i - 1 \in 0 .. n /\ o[i - 1] \in Nat /\ sizes[i] \in Nat /\ o[i] \in Nat
          OBVIOUS
        <5>2. PICK x \in Nat, z \in Nat, y \in Nat : x = o[i - 1] /\ z = sizes[i] /\ y = o[i]
          BY <5>1, Zenon
        <5>3. y = x + z
          BY <1>4, <5>2
        <5>4. y <= w
          <6>1. i \in 0 .. n /\ \A j \in 1 .. n : o[j] = o[j - 1] + sizes[j]
            BY <1>4
          <6>2. o[i] <= o[n]
            BY <6>1, OffsetsGrow
          <6> QED BY <1>5, <5>2, <6>2
        <5>5. 2 + x \in Place /\ 2 + x + z - 1 <= len
          BY <2>4, <5>3, <5>4 DEF Place
        <5>6. At(b, 2 + x, z) = values[i]
          <6>1. Agrees(b, 2 + x, LE(values[i], z)) /\ values[i] \in 0 .. Most(z)
            BY <1>1, <2>2, <5>2
          <6> QED BY <2>1, <5>5, <6>1, ReadNumber
        <5> QED BY <1>1, <1>9, <5>2, <5>6, Zenon
      <4>2. Values(l, b) = [i \in 1 .. n |-> Understood(l, i, At(b, Before(l, i - 1) + 1, l.sizes[i]))]
        BY <1>9, Zenon DEF Values
      <4> QED BY <4>1, <4>2
    <3>3. PayloadSize(l, b) = k
      <4>1. At(b, 2 + w, length) = count
        <5>1. 2 + w \in Place /\ 2 + w + length - 1 <= len /\ count \in 0 .. Most(length)
          BY <1>2, <2>4, MostIs DEF Place
        <5> QED BY <2>1, <2>2, <5>1, ReadNumber
      <4> QED BY <1>1, <1>6, <1>9, <4>1, Zenon DEF PayloadSize
    <3>4. Fits(l, b) <=> Len(e) <= Len(b)
      BY <1>7, <1>9, <3>3, Zenon DEF Fits
    <3>5. CASE ~(Len(e) <= Len(b))
      BY <3>4, <3>5, Zenon DEF ParseFrame
    <3>6. CASE Len(e) <= Len(b)
      <4>1. SubSeq(b, HeaderSize(l) + 1, HeaderSize(l) + PayloadSize(l, b)) = payload
        <5>1. 2 + w + length \in Place /\ 2 + w + length + k - 1 <= len
          <6>1. 1 + w + length + k <= len
            BY <1>7, <2>1, <3>6, Zenon
          <6> QED BY <6>1 DEF Place
        <5>2. Whole(b, 2 + w + length, payload)
          BY <1>6, <2>1, <5>1, Zenon DEF Whole
        <5>3. SubSeq(b, 2 + w + length, 2 + w + length + k - 1) = payload
          BY <1>6, <2>2, <5>1, <5>2, AgreesAll
        <5>4. (1 + w + length) + 1 = 2 + w + length /\ (1 + w + length) + k = 2 + w + length + k - 1
          OBVIOUS
        <5> QED BY <1>9, <3>3, <5>3, <5>4, Zenon
      <4>2. ~(Len(b) < HeaderSize(l))
        BY <1>9, <2>1, <2>4, Zenon
      <4>3. ~(Len(b) < HeaderSize(l) \/ b[1] # l.tag \/ ~Fits(l, b) \/ ~Sensible(l, Values(l, b)))
        BY <1>1, <3>1, <3>2, <3>4, <3>6, <4>2, Zenon
      <4>4. ParseFrame(l, b) = [values |-> Values(l, b), payload |-> payload]
        BY <4>1, <4>3, Zenon DEF ParseFrame
      <4> QED BY <3>2, <3>6, <4>4, Zenon
    <3> QED BY <3>5, <3>6
  <2> QED BY <2>3, <2>4
<1> QED BY <1>3, <1>8, <1>10, Zenon

-----------------------------------------------------------------------------
(* The greeting *)

\* How many of the hashes come before one.
Below(D, h) == Cardinality({g \in D : g < h})

LEMMA BelowIs ==
    ASSUME NEW D \in SUBSET Nat, IsFiniteSet(D), NEW h \in D
    PROVE  /\ Below(D, h) \in Nat /\ Below(D, h) < Cardinality(D) /\ Cardinality(D) \in Nat
           /\ \A k \in D : h < k => Below(D, h) < Below(D, k)
<1> DEFINE before(k) == {g \in D : g < k}
<1>1. ASSUME NEW T \in SUBSET D, h \in T, before(h) \subseteq T
      PROVE  Cardinality(before(h)) \in Nat /\ Cardinality(before(h)) < Cardinality(T) /\ Cardinality(T) \in Nat
  <2>1. IsFiniteSet(T) /\ before(h) \in SUBSET T
    BY <1>1, FS_Subset
  <2>2. IsFiniteSet(before(h)) /\ Cardinality(before(h)) <= Cardinality(T)
        /\ (Cardinality(T) = Cardinality(before(h)) => T = before(h))
    BY <2>1, FS_Subset
  <2>3. h \notin before(h)
    OBVIOUS
  <2>4. Cardinality(before(h)) \in Nat /\ Cardinality(T) \in Nat
    BY <2>1, <2>2, FS_CardinalityType
  <2>5. Cardinality(before(h)) # Cardinality(T)
    BY <1>1, <2>2, <2>3
  <2> HIDE DEF before
  <2> QED BY <2>2, <2>4, <2>5
<1>2. Below(D, h) \in Nat /\ Below(D, h) < Cardinality(D) /\ Cardinality(D) \in Nat
  <2>1. before(h) \subseteq D
    OBVIOUS
  <2>2. Cardinality(before(h)) \in Nat /\ Cardinality(before(h)) < Cardinality(D) /\ Cardinality(D) \in Nat
    <3> HIDE DEF before
    <3> QED BY <1>1, <2>1
  <2> QED BY <2>2 DEF Below
<1>3. ASSUME NEW k \in D, h < k PROVE Below(D, h) < Below(D, k)
  <2>0. \A x, y, z \in Nat : x < y /\ y < z => x < z
    OBVIOUS
  <2>1. before(k) \in SUBSET D /\ h \in before(k) /\ before(h) \subseteq before(k)
    BY <1>3, <2>0
  <2>2. Cardinality(before(h)) < Cardinality(before(k))
    <3> HIDE DEF before
    <3> QED BY <1>1, <2>1
  <2> QED BY <2>2 DEF Below
<1> QED BY <1>2, <1>3

\* Every place of the table has a hash, and every hash a place.
LEMMA RankedIs ==
    ASSUME NEW D \in SUBSET Nat, IsFiniteSet(D)
    PROVE  /\ \A i \in 1 .. Cardinality(D) : Ranked(D, i) \in D
           /\ \A h \in D : \E i \in 1 .. Cardinality(D) : Ranked(D, i) = h
<1>1. PICK n \in Nat : n = Cardinality(D)
  BY FS_CardinalityType
<1>2. \A h \in D : Below(D, h) \in 0 .. n - 1
  BY <1>1, BelowIs
<1>3. ASSUME NEW h \in D, NEW k \in D, Below(D, h) = Below(D, k) PROVE h = k
  <2>1. h < k => Below(D, h) < Below(D, k)
    BY BelowIs
  <2>2. k < h => Below(D, k) < Below(D, h)
    BY BelowIs
  <2>3. h < k \/ k < h \/ h = k
    OBVIOUS
  <2>4. PICK x \in Nat : x = Below(D, h) /\ x = Below(D, k)
    BY <1>3, BelowIs
  <2> QED BY <2>1, <2>2, <2>3, <2>4
<1>4. ASSUME NEW i \in 1 .. n PROVE \E h \in D : Below(D, h) = i - 1
  <2>1. SUFFICES ASSUME \A h \in D : Below(D, h) # i - 1 PROVE FALSE
    OBVIOUS
  <2> DEFINE T == (0 .. n - 1) \ {i - 1}
             f == [h \in D |-> Below(D, h)]
  <2>2. f \in [D -> T]
    BY <1>2, <2>1
  <2>3. IsFiniteSet(T) /\ Cardinality(T) = n - 1
    <3>1. IsFiniteSet(0 .. n - 1) /\ Cardinality(0 .. n - 1) = n
      <4>1. 0 \in Int /\ n - 1 \in Int /\ ~(0 > n - 1) /\ (n - 1) - 0 + 1 = n
        OBVIOUS
      <4> QED BY <4>1, FS_Interval
    <3>2. i - 1 \in 0 .. n - 1
      OBVIOUS
    <3>3. PICK I : I = 0 .. n - 1
      OBVIOUS
    <3>4. PICK e : e = i - 1
      OBVIOUS
    <3>5. IsFiniteSet(I) /\ e \in I /\ Cardinality(I) = n
      BY <3>1, <3>2, <3>3, <3>4
    <3>6. /\ IsFiniteSet(I \ {e})
          /\ Cardinality(I \ {e}) = IF e \in I THEN Cardinality(I) - 1 ELSE Cardinality(I)
      BY <3>5, FS_RemoveElement, Zenon
    <3>7. Cardinality(I \ {e}) = n - 1
      BY <3>5, <3>6, Zenon
    <3> QED BY <3>3, <3>4, <3>6, <3>7, Zenon
  <2>4. Cardinality(T) < Cardinality(D)
    BY <1>1, <2>3
  <2> HIDE DEF T
  <2>5. \E x, y \in D : x # y /\ f[x] = f[y]
    <3> HIDE DEF f
    <3> QED BY <2>2, <2>3, <2>4, FS_PigeonHole
  <2> QED BY <1>3, <2>5
<1>5. ASSUME NEW i \in 1 .. n PROVE Ranked(D, i) \in D /\ Below(D, Ranked(D, i)) = i - 1
  BY <1>4 DEF Ranked, Below
<1>6. ASSUME NEW h \in D PROVE \E i \in 1 .. n : Ranked(D, i) = h
  <2>1. PICK x \in 0 .. n - 1 : x = Below(D, h)
    BY <1>2
  <2>2. x + 1 \in 1 .. n /\ (x + 1) - 1 = x
    OBVIOUS
  <2>3. Ranked(D, x + 1) \in D /\ Below(D, Ranked(D, x + 1)) = x
    BY <1>5, <2>2
  <2> QED BY <1>3, <2>1, <2>2, <2>3
<1> QED BY <1>1, <1>5, <1>6

\* Entries of one size lie at its multiples.
LEMMA EvenOffsets ==
    ASSUME NEW n \in Nat, NEW u \in Nat, NEW o \in [0 .. n -> Nat], o[0] = 0,
           \A i \in 1 .. n : o[i] = o[i - 1] + u
    PROVE  \A i \in 0 .. n : o[i] = u * i
<1> DEFINE S == {i \in 0 .. n : o[i] = u * i}
<1>1. 0 \in S
  OBVIOUS
<1>2. ASSUME NEW i \in 0 .. n - 1, i \in S PROVE i + 1 \in S
  <2>1. i + 1 \in 1 .. n /\ (i + 1) - 1 = i /\ i + 1 \in 0 .. n
    OBVIOUS
  <2>2. \A a, b \in Nat : a * (b + 1) = a * b + a
    OBVIOUS
  <2>3. u * (i + 1) = u * i + u
    BY <2>2
  <2>4. o[i + 1] = o[i] + u
    BY <2>1
  <2>5. o[i] = u * i
    BY <1>2
  <2>6. o[i + 1] = u * (i + 1)
    BY <2>3, <2>4, <2>5, Zenon
  <2> QED BY <2>1, <2>6
<1>3. \A i \in 0 .. n : i \in S
  <2> HIDE DEF S
  <2> QED BY <1>1, <1>2, UpTo
<1> QED BY <1>3

LEMMA RegistryIs ==
    ASSUME NEW r, IsRegistry(r)
    PROVE  /\ DOMAIN r \in SUBSET Nat /\ IsFiniteSet(DOMAIN r) /\ Cardinality(DOMAIN r) \in Nat
           /\ \A h \in DOMAIN r : /\ h \in Nat /\ h \in 0 .. Most(Word) /\ r[h] \in Metas
                                  /\ r[h].version \in 0 .. Most(Half) /\ r[h].version \in Nat
<1>1. Most(Word) \in Nat /\ Most(Half) \in Nat
  BY BaseIs, MostIs
<1>2. DOMAIN r \in SUBSET Nat /\ \A h \in DOMAIN r : h \in 0 .. Most(Word) /\ h \in Nat /\ r[h] \in Metas
  BY <1>1 DEF IsRegistry
<1>3. IsFiniteSet(DOMAIN r)
  <2>1. \A h \in DOMAIN r : h <= Most(Word)
    BY <1>1, <1>2
  <2> QED BY <1>1, <1>2, <2>1, FS_BoundedSetOfNaturals
<1>4. \A h \in DOMAIN r : r[h].version \in 0 .. Most(Half) /\ r[h].version \in Nat
  BY <1>1, <1>2 DEF Metas
<1> QED BY <1>2, <1>3, <1>4, FS_CardinalityType

\* The table has every type with its version.
LEMMA TableIs ==
    ASSUME NEW r, IsRegistry(r)
    PROVE  /\ SchemaTable(r) \in Seq(Nat)
           /\ Len(SchemaTable(r)) = (Word + Half) * Cardinality(DOMAIN r)
           /\ \A h \in DOMAIN r : \E i \in 1 .. Len(SchemaTable(r)) \div (Word + Half) :
                 Hash(SchemaTable(r), i) = h /\ Version(SchemaTable(r), i) = r[h].version
<1>1. PICK word \in Nat \ {0}, half \in Nat \ {0} : word = Word /\ half = Half
  BY BaseIs
<1>2. PICK u \in Nat \ {0} : u = word + half
  OBVIOUS
<1>3. PICK c \in Nat : c = Cardinality(DOMAIN r)
  BY RegistryIs
<1>4. PICK D \in SUBSET Nat : D = DOMAIN r /\ IsFiniteSet(D)
  BY RegistryIs
<1> DEFINE hash(i) == Ranked(D, i)
           parts == [i \in 1 .. c |-> LE(hash(i), word) \o LE(r[hash(i)].version, half)]
<1>5. \A i \in 1 .. c : hash(i) \in DOMAIN r
  BY <1>3, <1>4, RankedIs
<1>6. \A h \in DOMAIN r : \E i \in 1 .. c : hash(i) = h
  BY <1>3, <1>4, RankedIs
<1> HIDE DEF hash
<1>7. ASSUME NEW h \in DOMAIN r
      PROVE  /\ LE(h, word) \in Seq(Nat) /\ Len(LE(h, word)) = word
             /\ LE(r[h].version, half) \in Seq(Nat) /\ Len(LE(r[h].version, half)) = half
             /\ LE(h, word) \o LE(r[h].version, half) \in Seq(Nat)
             /\ Len(LE(h, word) \o LE(r[h].version, half)) = u
  <2>1. h \in Nat /\ r[h].version \in Nat
    BY RegistryIs
  <2>2. PICK x \in Seq(Nat), y \in Seq(Nat) :
          x = LE(h, word) /\ Len(x) = word /\ y = LE(r[h].version, half) /\ Len(y) = half
    BY <2>1, LEType
  <2>3. x \o y \in Seq(Nat) /\ Len(x \o y) = Len(x) + Len(y)
    OBVIOUS
  <2>4. Len(x \o y) = u
    BY <1>2, <2>2, <2>3, Zenon
  <2> QED BY <2>2, <2>3, <2>4, Zenon
<1>8. /\ parts \in [1 .. c -> Seq(Nat)]
      /\ \A i \in 1 .. c : Len(parts[i]) = u /\ parts[i] = LE(hash(i), word) \o LE(r[hash(i)].version, half)
  BY <1>5, <1>7
<1>9. SchemaTable(r) = FlattenSeq(parts)
  BY <1>1, <1>3, <1>4, Zenon DEF SchemaTable, hash
<1> HIDE DEF parts
<1>10. PICK o \in [0 .. c -> Nat] :
          /\ Len(FlattenSeq(parts)) = o[c] /\ o[0] = 0
          /\ \A i \in 1 .. c : o[i] = o[i - 1] + Len(parts[i])
          /\ \A b \in Seq(Nat), at \in Place :
                Agrees(b, at, FlattenSeq(parts)) => \A i \in 1 .. c : Agrees(b, at + o[i - 1], parts[i])
  BY <1>8, FlattenPlaces
<1>11. PICK table \in Seq(Nat) : table = SchemaTable(r)
  BY <1>8, <1>9, FlattenPlaces
<1>12. \A i \in 0 .. c : o[i] = u * i
  <2>1. o[0] = 0 /\ \A i \in 1 .. c : o[i] = o[i - 1] + u
    BY <1>8, <1>10
  <2> QED BY <2>1, EvenOffsets
<1>13. Len(table) = u * c
  <2>1. Len(table) = o[c]
    BY <1>9, <1>10, <1>11, Zenon
  <2>2. o[c] = u * c
    BY <1>12
  <2> QED BY <2>1, <2>2, Zenon
<1>14. Len(table) \div u = c
  <2>1. 0 \in 0 .. u - 1
    OBVIOUS
  <2>2. (0 + u * c) \div u = c
    BY <2>1, DivModIs
  <2>3. PICK x \in Nat : x = u * c
    OBVIOUS
  <2> QED BY <1>13, <2>2, <2>3
<1>15. ASSUME NEW i \in 1 .. c
       PROVE  Hash(table, i) = hash(i) /\ Version(table, i) = r[hash(i)].version
  <2>1. PICK p \in Nat, x \in Nat, len \in Nat : p = o[i - 1] /\ x = o[i] /\ len = Len(table)
    <3>1. i - 1 \in 0 .. c /\ i \in 0 .. c
      OBVIOUS
    <3>2. o[i - 1] \in Nat /\ o[i] \in Nat /\ Len(table) \in Nat
      BY <3>1
    <3> QED BY <3>2, Zenon
  <2>2. x = p + u
    BY <1>8, <1>10, <2>1
  <2>3. x <= len
    <3>1. PICK sizes \in [1 .. c -> Nat] : \A j \in 1 .. c : sizes[j] = u
      <4> DEFINE sz == [j \in 1 .. c |-> u]
      <4>1. sz \in [1 .. c -> Nat] /\ \A j \in 1 .. c : sz[j] = u
        OBVIOUS
      <4> HIDE DEF sz
      <4> QED BY <4>1
    <3>2. \A j \in 1 .. c : o[j] = o[j - 1] + sizes[j]
      BY <1>8, <1>10, <3>1
    <3>3. i \in 0 .. c
      OBVIOUS
    <3>4. o[i] <= o[c]
      BY <3>2, <3>3, OffsetsGrow
    <3>5. len = o[c]
      BY <1>9, <1>10, <1>11, <2>1, Zenon
    <3> QED BY <2>1, <3>4, <3>5
  <2>4. Agrees(table, 1 + p, parts[i])
    <3>1. Agrees(table, 1, FlattenSeq(parts)) /\ 1 \in Place
      BY <1>9, <1>11 DEF Agrees, Place
    <3> QED BY <1>10, <2>1, <3>1
  <2>50. PICK h \in DOMAIN r : h = hash(i)
    BY <1>5
  <2>51. PICK v : v = r[h].version
    OBVIOUS
  <2>5. h = hash(i) /\ v = r[h].version
    BY <2>50, <2>51
  <2>6. /\ LE(h, word) \in Seq(Nat) /\ LE(v, half) \in Seq(Nat) /\ Len(LE(h, word)) = word
        /\ h \in 0 .. Most(word) /\ v \in 0 .. Most(half)
    BY <1>1, <1>7, <2>5, RegistryIs
  <2>7. 1 + p \in Place /\ 1 + p + word \in Place
    BY DEF Place
  <2>8. Agrees(table, 1 + p, LE(h, word) \o LE(v, half))
    BY <1>8, <2>4, <2>5
  <2>9. Agrees(table, 1 + p, LE(h, word)) /\ Agrees(table, 1 + p + word, LE(v, half))
    BY <2>6, <2>7, <2>8, AgreesSplit
  <2>10. 1 + p + word - 1 <= len /\ 1 + p + word + half - 1 <= len
    BY <1>2, <2>2, <2>3
  <2>11. At(table, 1 + p, word) = h /\ At(table, 1 + p + word, half) = v
    BY <2>1, <2>6, <2>7, <2>9, <2>10, ReadNumber
  <2>12. u * (i - 1) + 1 = 1 + p /\ u * (i - 1) + word + 1 = 1 + p + word
    <3>1. i - 1 \in 0 .. c
      OBVIOUS
    <3>2. p = u * (i - 1)
      BY <1>12, <2>1, <3>1
    <3>3. p + 1 = 1 + p /\ p + word + 1 = 1 + p + word
      OBVIOUS
    <3> QED BY <3>2, <3>3, Zenon
  <2> QED BY <1>1, <1>2, <2>5, <2>11, <2>12, Zenon DEF Hash, Version
<1>16. ASSUME NEW h \in DOMAIN r
       PROVE  \E i \in 1 .. Len(table) \div u : Hash(table, i) = h /\ Version(table, i) = r[h].version
  <2>1. PICK i \in 1 .. c : hash(i) = h
    BY <1>6
  <2>2. Hash(table, i) = h /\ Version(table, i) = r[h].version
    BY <1>15, <2>1
  <2> QED BY <1>14, <2>2, Zenon
<1> QED BY <1>1, <1>2, <1>3, <1>11, <1>13, <1>16, Zenon

\* Builds that are told apart by no entry of the table agree on what they share.
LEMMA NotDrifted ==
    ASSUME NEW here, NEW there, IsRegistry(here), IsRegistry(there),
           ~Drifted(there, SchemaTable(here)), NEW t \in DOMAIN here \cap DOMAIN there
    PROVE  here[t].version = there[t].version
<1>1. PICK i \in 1 .. Len(SchemaTable(here)) \div (Word + Half) :
         Hash(SchemaTable(here), i) = t /\ Version(SchemaTable(here), i) = here[t].version
  BY TableIs
<1> QED BY <1>1 DEF Drifted

-----------------------------------------------------------------------------
(* The world file *)

\* One part more at the end.
Joined(x, s, t, m, n) ==
    /\ x = s \o t /\ Len(x) = n
    /\ \A b \in Seq(Nat), at \in Place : Agrees(b, at, x) => Agrees(b, at, s) /\ Agrees(b, at + m, t)

LEMMA Longer ==
    ASSUME NEW s \in Seq(Nat), NEW t \in Seq(Nat), NEW n \in Nat, Len(s) + Len(t) = n
    PROVE  \E x \in Seq(Nat) : Joined(x, s, t, Len(s), n)
<1>1. \A x, y \in Seq(Nat) : x \o y \in Seq(Nat) /\ Len(x \o y) = Len(x) + Len(y)
  OBVIOUS
<1>2. PICK x \in Seq(Nat) : x = s \o t
  BY <1>1
<1>3. Len(x) = n
  BY <1>1, <1>2
<1>4. ASSUME NEW b \in Seq(Nat), NEW at \in Place, Agrees(b, at, x)
      PROVE  Agrees(b, at, s) /\ Agrees(b, at + Len(s), t)
  <2>1. Agrees(b, at, s \o t)
    BY <1>2, <1>4, Zenon
  <2> QED BY <2>1, AgreesSplit
<1> QED BY <1>2, <1>3, <1>4 DEF Joined

\* Where the pieces of an entity lie: its label and payload have the lengths
\* size and rest, and the pieces end after m1, .. m8 bytes.
EntitySizes(e, word, half, size, rest) ==
    word = Word /\ half = Half /\ size = Len(e.label) /\ rest = Len(e.payload)
EntityEnds(word, half, size, rest, m2, m3, m4, m5, m6, m7, m8) ==
    /\ m2 = word + 1 /\ m3 = m2 + word /\ m4 = m3 + word /\ m5 = m4 + half
    /\ m6 = m5 + size /\ m7 = m6 + word /\ m8 = m7 + rest
EntityLaid(e, b, at, word, half, size, rest, m2, m3, m4, m5, m6, m7) ==
    /\ Agrees(b, at, LE(e.id, word)) /\ Agrees(b, at + word, <<e.authority>>)
    /\ Agrees(b, at + m2, LE(e.owner, word)) /\ Agrees(b, at + m3, LE(e.type, word))
    /\ Agrees(b, at + m4, LE(size, half)) /\ Agrees(b, at + m5, e.label)
    /\ Agrees(b, at + m6, LE(rest, word)) /\ Agrees(b, at + m7, e.payload)

LEMMA EntityBytes ==
    ASSUME NEW e \in Entities, NEW word \in Nat \ {0}, NEW half \in Nat \ {0}, NEW size \in Nat, NEW rest \in Nat,
           EntitySizes(e, word, half, size, rest),
           NEW m2 \in Nat, NEW m3 \in Nat, NEW m4 \in Nat, NEW m5 \in Nat, NEW m6 \in Nat, NEW m7 \in Nat,
           NEW m8 \in Nat, EntityEnds(word, half, size, rest, m2, m3, m4, m5, m6, m7, m8)
    PROVE  /\ EncodeEntity(e) \in Seq(Nat) /\ Len(EncodeEntity(e)) = m8
           /\ \A b \in Seq(Nat), at \in Place :
                 Agrees(b, at, EncodeEntity(e)) =>
                    EntityLaid(e, b, at, word, half, size, rest, m2, m3, m4, m5, m6, m7)
<1>0. /\ m2 = word + 1 /\ m3 = m2 + word /\ m4 = m3 + word /\ m5 = m4 + half
      /\ m6 = m5 + size /\ m7 = m6 + word /\ m8 = m7 + rest
  BY DEF EntityEnds
<1>1. Base \in Nat /\ Most(Word) \in Nat /\ Most(Half) \in Nat
  BY BaseIs, MostIs
<1>2. /\ e.id \in Nat /\ e.authority \in Nat /\ e.owner \in Nat /\ e.type \in Nat
      /\ e.label \in Seq(Nat) /\ e.payload \in Seq(Nat)
  BY <1>1 DEF Entities, Byte
<1>3. PICK x1 \in Seq(Nat) : x1 = LE(e.id, word) /\ Len(x1) = word
  BY <1>2, LEType
<1>4. PICK x2 \in Seq(Nat) : x2 = <<e.authority>> /\ Len(x2) = 1
  <2>1. PICK x \in Nat : x = e.authority
    BY <1>2
  <2>2. <<x>> \in Seq(Nat) /\ Len(<<x>>) = 1
    OBVIOUS
  <2> QED BY <2>1, <2>2, Zenon
<1>5. PICK x3 \in Seq(Nat) : x3 = LE(e.owner, word) /\ Len(x3) = word
  BY <1>2, LEType
<1>6. PICK x4 \in Seq(Nat) : x4 = LE(e.type, word) /\ Len(x4) = word
  BY <1>2, LEType
<1>7. PICK x5 \in Seq(Nat) : x5 = LE(size, half) /\ Len(x5) = half
  BY LEType
<1>8. PICK x6 \in Seq(Nat) : x6 = e.label /\ Len(x6) = size
  BY <1>2 DEF EntitySizes
<1>9. PICK x7 \in Seq(Nat) : x7 = LE(rest, word) /\ Len(x7) = word
  BY LEType
<1>10. PICK x8 \in Seq(Nat) : x8 = e.payload /\ Len(x8) = rest
  BY <1>2 DEF EntitySizes
<1>12. PICK y2 \in Seq(Nat) : Joined(y2, x1, x2, word, m2) /\ Len(y2) = m2
  <2>1. Len(x1) + Len(x2) = m2
    BY <1>0, <1>3, <1>4, Zenon
  <2>2. PICK x \in Seq(Nat) : Joined(x, x1, x2, Len(x1), m2)
    BY <2>1, Longer
  <2>3. Len(x) = m2
    BY <2>2 DEF Joined
  <2> QED BY <1>3, <2>2, <2>3, Zenon
<1>13. PICK y3 \in Seq(Nat) : Joined(y3, y2, x3, m2, m3) /\ Len(y3) = m3
  <2>1. Len(y2) + Len(x3) = m3
    BY <1>0, <1>12, <1>5, Zenon
  <2>2. PICK x \in Seq(Nat) : Joined(x, y2, x3, Len(y2), m3)
    BY <2>1, Longer
  <2>3. Len(x) = m3
    BY <2>2 DEF Joined
  <2> QED BY <1>12, <2>2, <2>3, Zenon
<1>14. PICK y4 \in Seq(Nat) : Joined(y4, y3, x4, m3, m4) /\ Len(y4) = m4
  <2>1. Len(y3) + Len(x4) = m4
    BY <1>0, <1>13, <1>6, Zenon
  <2>2. PICK x \in Seq(Nat) : Joined(x, y3, x4, Len(y3), m4)
    BY <2>1, Longer
  <2>3. Len(x) = m4
    BY <2>2 DEF Joined
  <2> QED BY <1>13, <2>2, <2>3, Zenon
<1>15. PICK y5 \in Seq(Nat) : Joined(y5, y4, x5, m4, m5) /\ Len(y5) = m5
  <2>1. Len(y4) + Len(x5) = m5
    BY <1>0, <1>14, <1>7, Zenon
  <2>2. PICK x \in Seq(Nat) : Joined(x, y4, x5, Len(y4), m5)
    BY <2>1, Longer
  <2>3. Len(x) = m5
    BY <2>2 DEF Joined
  <2> QED BY <1>14, <2>2, <2>3, Zenon
<1>16. PICK y6 \in Seq(Nat) : Joined(y6, y5, x6, m5, m6) /\ Len(y6) = m6
  <2>1. Len(y5) + Len(x6) = m6
    BY <1>0, <1>15, <1>8, Zenon
  <2>2. PICK x \in Seq(Nat) : Joined(x, y5, x6, Len(y5), m6)
    BY <2>1, Longer
  <2>3. Len(x) = m6
    BY <2>2 DEF Joined
  <2> QED BY <1>15, <2>2, <2>3, Zenon
<1>17. PICK y7 \in Seq(Nat) : Joined(y7, y6, x7, m6, m7) /\ Len(y7) = m7
  <2>1. Len(y6) + Len(x7) = m7
    BY <1>0, <1>16, <1>9, Zenon
  <2>2. PICK x \in Seq(Nat) : Joined(x, y6, x7, Len(y6), m7)
    BY <2>1, Longer
  <2>3. Len(x) = m7
    BY <2>2 DEF Joined
  <2> QED BY <1>16, <2>2, <2>3, Zenon
<1>18. PICK y8 \in Seq(Nat) : Joined(y8, y7, x8, m7, m8) /\ Len(y8) = m8
  <2>1. Len(y7) + Len(x8) = m8
    BY <1>0, <1>17, <1>10, Zenon
  <2>2. PICK x \in Seq(Nat) : Joined(x, y7, x8, Len(y7), m8)
    BY <2>1, Longer
  <2>3. Len(x) = m8
    BY <2>2 DEF Joined
  <2> QED BY <1>17, <2>2, <2>3, Zenon
<1>19. EncodeEntity(e) = y8
  <2>1. /\ y2 = x1 \o x2 /\ y3 = y2 \o x3 /\ y4 = y3 \o x4 /\ y5 = y4 \o x5
        /\ y6 = y5 \o x6 /\ y7 = y6 \o x7 /\ y8 = y7 \o x8
    BY <1>12, <1>13, <1>14, <1>15, <1>16, <1>17, <1>18, Zenon DEF Joined
  <2>2. EncodeEntity(e) = (((((((x1 \o x2) \o x3) \o x4) \o x5) \o x6) \o x7) \o x8)
    BY <1>3, <1>4, <1>5, <1>6, <1>7, <1>8, <1>9, <1>10, Zenon DEF EncodeEntity, EntitySizes
  <2> QED BY <2>1, <2>2, Zenon
<1>20. ASSUME NEW b \in Seq(Nat), NEW at \in Place, Agrees(b, at, y8)
       PROVE  EntityLaid(e, b, at, word, half, size, rest, m2, m3, m4, m5, m6, m7)
  <2>1. Agrees(b, at, y7) /\ Agrees(b, at + m7, x8)
    BY <1>18, <1>20, Zenon DEF Joined
  <2>2. Agrees(b, at, y6) /\ Agrees(b, at + m6, x7)
    BY <1>17, <2>1, Zenon DEF Joined
  <2>3. Agrees(b, at, y5) /\ Agrees(b, at + m5, x6)
    BY <1>16, <2>2, Zenon DEF Joined
  <2>4. Agrees(b, at, y4) /\ Agrees(b, at + m4, x5)
    BY <1>15, <2>3, Zenon DEF Joined
  <2>5. Agrees(b, at, y3) /\ Agrees(b, at + m3, x4)
    BY <1>14, <2>4, Zenon DEF Joined
  <2>6. Agrees(b, at, y2) /\ Agrees(b, at + m2, x3)
    BY <1>13, <2>5, Zenon DEF Joined
  <2>7. Agrees(b, at, x1) /\ Agrees(b, at + word, x2)
    BY <1>12, <2>6, Zenon DEF Joined
  <2> QED BY <1>3, <1>4, <1>5, <1>6, <1>7, <1>8, <1>9, <1>10, <2>1, <2>2, <2>3, <2>4, <2>5, <2>6, <2>7, Zenon
     DEF EntityLaid
<1> QED BY <1>18, <1>19, <1>20, Zenon

\* What ReadEntity makes of the lengths it reads.
EntityAt(b, at, label, size, payload, rest) ==
    [id        |-> At(b, at, Word),
     authority |-> b[at + Word],
     owner     |-> At(b, at + Word + 1, Word),
     type      |-> At(b, at + 2 * Word + 1, Word),
     label     |-> SubSeq(b, label, label + size - 1),
     payload   |-> SubSeq(b, payload, payload + rest - 1)]

LEMMA ReadEntityIs ==
    ASSUME NEW b, NEW at, NEW f, f = 3 * Word + 1
    PROVE  /\ ReadFixed(b, at + f, Half) = Refused => ReadEntity(b, at) = Refused
           /\ \A size, n : ReadFixed(b, at + f, Half) = [value |-> size, next |-> n] =>
                /\ ReadFixed(b, n + size, Word) = Refused => ReadEntity(b, at) = Refused
                /\ \A rest, k : ReadFixed(b, n + size, Word) = [value |-> rest, next |-> k] =>
                     ReadEntity(b, at) = IF k + rest - 1 > Len(b) THEN Refused
                        ELSE [entity |-> EntityAt(b, at, n, size, k, rest), next |-> k + rest]
<1>1. ReadEntity(b, at) =
        LET label == ReadFixed(b, at + f, Half)
            size  == ReadFixed(b, label.next + label.value, Word)
        IN  IF label = Refused \/ size = Refused \/ size.next + size.value - 1 > Len(b)
            THEN Refused
            ELSE [entity |-> EntityAt(b, at, label.next, label.value, size.next, size.value),
                  next   |-> size.next + size.value]
  BY Zenon DEF ReadEntity, EntityAt
<1>2. ReadFixed(b, at + f, Half) = Refused => ReadEntity(b, at) = Refused
  BY <1>1, Zenon
<1>3. ASSUME NEW size, NEW n, ReadFixed(b, at + f, Half) = [value |-> size, next |-> n]
      PROVE  /\ ReadFixed(b, n + size, Word) = Refused => ReadEntity(b, at) = Refused
             /\ \A rest, k : ReadFixed(b, n + size, Word) = [value |-> rest, next |-> k] =>
                  ReadEntity(b, at) = IF k + rest - 1 > Len(b) THEN Refused
                     ELSE [entity |-> EntityAt(b, at, n, size, k, rest), next |-> k + rest]
  <2>1. PICK label : label = ReadFixed(b, at + f, Half)
    OBVIOUS
  <2>2. label.next = n /\ label.value = size
    BY <1>3, <2>1
  <2>3. label # Refused
    BY <1>3, <2>1, NotRefused, Zenon
  <2>4. PICK read : read = ReadFixed(b, n + size, Word)
    OBVIOUS
  <2>5. ReadEntity(b, at) =
          IF read = Refused \/ read.next + read.value - 1 > Len(b) THEN Refused
          ELSE [entity |-> EntityAt(b, at, n, size, read.next, read.value), next |-> read.next + read.value]
    BY <1>1, <2>1, <2>2, <2>3, <2>4, Zenon
  <2>6. read = Refused => ReadEntity(b, at) = Refused
    BY <2>5, Zenon
  <2>7. ASSUME NEW rest, NEW k, read = [value |-> rest, next |-> k]
        PROVE  ReadEntity(b, at) = IF k + rest - 1 > Len(b) THEN Refused
                     ELSE [entity |-> EntityAt(b, at, n, size, k, rest), next |-> k + rest]
    <3>1. read.next = k /\ read.value = rest
      BY <2>7
    <3>2. read # Refused
      BY <2>7, NotRefused, Zenon
    <3> QED BY <2>5, <3>1, <3>2, Zenon
  <2> QED BY <2>4, <2>6, <2>7, Zenon
<1> QED BY <1>2, <1>3, Zenon

\* A whole entity is read as it was written; one that is cut short is refused.
LEMMA EntityIs ==
    ASSUME NEW e \in Entities
    PROVE  /\ EncodeEntity(e) \in Seq(Nat)
           /\ \A b \in Seq(Nat), at \in Place :
                Agrees(b, at, EncodeEntity(e)) =>
                ReadEntity(b, at) = IF Whole(b, at, EncodeEntity(e))
                                    THEN [entity |-> e, next |-> at + Len(EncodeEntity(e))] ELSE Refused
<1>1. PICK word \in Nat \ {0}, half \in Nat \ {0} : word = Word /\ half = Half
  BY BaseIs
<1>2. e.label \in Seq(Nat) /\ e.payload \in Seq(Nat)
  BY DEF Entities
<1>3. PICK size \in Nat, rest \in Nat : size = Len(e.label) /\ rest = Len(e.payload)
  <2>1. Len(e.label) \in Nat /\ Len(e.payload) \in Nat
    BY <1>2
  <2> QED BY <2>1, Zenon
<1>4. EntitySizes(e, word, half, size, rest)
  BY <1>1, <1>3, Zenon DEF EntitySizes
<1>5. PICK m2 \in Nat, m3 \in Nat, m4 \in Nat, m5 \in Nat, m6 \in Nat, m7 \in Nat, m8 \in Nat :
         EntityEnds(word, half, size, rest, m2, m3, m4, m5, m6, m7, m8)
  <2>1. PICK x2 \in Nat : x2 = word + 1
    OBVIOUS
  <2>2. PICK x3 \in Nat : x3 = x2 + word
    OBVIOUS
  <2>3. PICK x4 \in Nat : x4 = x3 + word
    OBVIOUS
  <2>4. PICK x5 \in Nat : x5 = x4 + half
    OBVIOUS
  <2>5. PICK x6 \in Nat : x6 = x5 + size
    OBVIOUS
  <2>6. PICK x7 \in Nat : x7 = x6 + word
    OBVIOUS
  <2>7. PICK x8 \in Nat : x8 = x7 + rest
    OBVIOUS
  <2>8. EntityEnds(word, half, size, rest, x2, x3, x4, x5, x6, x7, x8)
    BY <2>1, <2>2, <2>3, <2>4, <2>5, <2>6, <2>7, Zenon DEF EntityEnds
  <2> QED BY <2>8, Zenon
<1>6. EncodeEntity(e) \in Seq(Nat) /\ Len(EncodeEntity(e)) = m8
  BY <1>4, <1>5, EntityBytes
<1>7. ASSUME NEW b \in Seq(Nat), NEW at \in Place, Agrees(b, at, EncodeEntity(e))
      PROVE  ReadEntity(b, at) = IF at + m8 - 1 <= Len(b)
                                 THEN [entity |-> e, next |-> at + m8] ELSE Refused
  <2>1. EntityLaid(e, b, at, word, half, size, rest, m2, m3, m4, m5, m6, m7)
    BY <1>4, <1>5, <1>7, EntityBytes
  <2>2. PICK len \in Nat : len = Len(b)
    OBVIOUS
  <2>3. PICK p \in Nat \ {0} : p = at
    BY DEF Place
  <2>4. /\ m2 = word + 1 /\ m3 = m2 + word /\ m4 = m3 + word /\ m5 = m4 + half
        /\ m6 = m5 + size /\ m7 = m6 + word /\ m8 = m7 + rest
    BY <1>5 DEF EntityEnds
  <2>5. /\ e.id \in 0 .. Most(word) /\ e.owner \in 0 .. Most(word) /\ e.type \in 0 .. Most(word)
        /\ e.authority \in Nat /\ size \in 0 .. Most(half) /\ rest \in 0 .. Most(word)
    <3>1. Base \in Nat /\ Most(Half) \in Nat /\ Most(Word) \in Nat
      BY BaseIs, MostIs
    <3>2. /\ e.id \in 0 .. Most(Word) /\ e.owner \in 0 .. Most(Word) /\ e.type \in 0 .. Most(Word)
          /\ e.authority \in Nat
      BY <3>1 DEF Entities, Byte
    <3>3. Len(e.label) <= Most(Half) /\ Len(e.payload) <= Most(Word)
      BY DEF Entities
    <3>4. size <= Most(half) /\ rest <= Most(word)
      BY <1>1, <1>3, <3>3, Zenon
    <3>5. Most(half) \in Nat /\ Most(word) \in Nat
      BY <1>1, <3>1, Zenon
    <3>6. size \in 0 .. Most(half) /\ rest \in 0 .. Most(word)
      BY <3>4, <3>5
    <3> QED BY <1>1, <3>2, <3>6, Zenon
  <2>6. /\ p + m2 \in Place /\ p + m3 \in Place /\ p + m4 \in Place /\ p + m5 \in Place
        /\ p + m6 \in Place /\ p + m7 \in Place /\ p + word \in Place /\ p \in Place
    BY DEF Place
  <2>7. ReadFixed(b, p + m4, half) = IF p + m4 + half - 1 <= len
                                     THEN [value |-> size, next |-> p + m4 + half] ELSE Refused
    <3>1. Agrees(b, p + m4, LE(size, half))
      BY <2>1, <2>3, Zenon DEF EntityLaid
    <3> QED BY <2>2, <2>5, <2>6, <3>1, FixedIs
  <2>8. ReadFixed(b, p + m6, word) = IF p + m6 + word - 1 <= len
                                     THEN [value |-> rest, next |-> p + m6 + word] ELSE Refused
    <3>1. Agrees(b, p + m6, LE(rest, word))
      BY <2>1, <2>3, Zenon DEF EntityLaid
    <3> QED BY <2>2, <2>5, <2>6, <3>1, FixedIs
  <2>9. m4 = 3 * word + 1
    BY <2>4
  <2>10. m4 = 3 * Word + 1
    BY <1>1, <2>9, Zenon
  <2>11. PICK n \in Nat, k \in Nat : n = p + m5 /\ k = p + m7
    OBVIOUS
  <2>12. /\ p + m4 + half = n /\ n + size = p + m6 /\ p + m6 + word = k /\ k + rest = p + m8
         /\ p + m4 + half - 1 = n - 1 /\ p + m6 + word - 1 = k - 1
    BY <2>4, <2>11
  <2>13. ReadFixed(b, p + m4, Half) = IF n - 1 <= len THEN [value |-> size, next |-> n] ELSE Refused
    BY <1>1, <2>7, <2>12, Zenon
  <2>14. ReadFixed(b, n + size, Word) = IF k - 1 <= len THEN [value |-> rest, next |-> k] ELSE Refused
    BY <1>1, <2>8, <2>12, Zenon
  <2>15. ReadEntity(b, p) = IF n - 1 <= len /\ k - 1 <= len /\ k + rest - 1 <= len
                            THEN [entity |-> EntityAt(b, p, n, size, k, rest), next |-> k + rest]
                            ELSE Refused
    <3>1. CASE ~(n - 1 <= len)
      BY <2>10, <2>13, <3>1, ReadEntityIs, Zenon
    <3>2. CASE n - 1 <= len /\ ~(k - 1 <= len)
      BY <2>10, <2>13, <2>14, <3>2, ReadEntityIs, Zenon
    <3>3. CASE n - 1 <= len /\ k - 1 <= len
      <4>1. ReadEntity(b, p) = IF k + rest - 1 > Len(b) THEN Refused
                        ELSE [entity |-> EntityAt(b, p, n, size, k, rest), next |-> k + rest]
        BY <2>10, <2>13, <2>14, <3>3, ReadEntityIs, Zenon
      <4>2. (k + rest - 1 > Len(b)) <=> ~(k + rest - 1 <= len)
        BY <2>2
      <4> QED BY <3>3, <4>1, <4>2, Zenon
    <3> QED BY <3>1, <3>2, <3>3, Zenon
  <2>16. (n - 1 <= len /\ k - 1 <= len /\ k + rest - 1 <= len) <=> p + m8 - 1 <= len
    BY <2>4, <2>11
  <2>17. ASSUME p + m8 - 1 <= len
         PROVE  EntityAt(b, p, n, size, k, rest) = e
    <3>1. At(b, p, word) = e.id /\ At(b, p + m2, word) = e.owner /\ At(b, p + m3, word) = e.type
      <4>1. p + word - 1 <= Len(b) /\ p + m2 + word - 1 <= Len(b) /\ p + m3 + word - 1 <= Len(b)
        BY <2>2, <2>4, <2>17
      <4>2. Agrees(b, p, LE(e.id, word)) /\ Agrees(b, p + m2, LE(e.owner, word)) /\ Agrees(b, p + m3, LE(e.type, word))
        BY <2>1, <2>3, Zenon DEF EntityLaid
      <4> QED BY <2>5, <2>6, <4>1, <4>2, ReadNumber
    <3>2. b[p + word] = e.authority
      <4>1. p + word <= Len(b)
        BY <2>2, <2>4, <2>17
      <4>2. Agrees(b, p + word, <<e.authority>>)
        BY <2>1, <2>3, Zenon DEF EntityLaid
      <4> QED BY <2>5, <2>6, <4>1, <4>2, AgreesOne
    <3>3. SubSeq(b, n, n + size - 1) = e.label
      <4>1. n + size - 1 <= Len(b) /\ n \in Place
        BY <2>2, <2>4, <2>6, <2>11, <2>17
      <4>2. Agrees(b, n, e.label)
        BY <2>1, <2>3, <2>11, Zenon DEF EntityLaid
      <4>3. Whole(b, n, e.label)
        BY <1>3, <4>1, Zenon DEF Whole
      <4> QED BY <1>2, <1>3, <4>1, <4>2, <4>3, AgreesAll
    <3>4. SubSeq(b, k, k + rest - 1) = e.payload
      <4>1. k + rest - 1 <= Len(b) /\ k \in Place
        BY <2>2, <2>4, <2>6, <2>11, <2>17
      <4>2. Agrees(b, k, e.payload)
        BY <2>1, <2>3, <2>11, Zenon DEF EntityLaid
      <4>3. Whole(b, k, e.payload)
        BY <1>3, <4>1, Zenon DEF Whole
      <4> QED BY <1>2, <1>3, <4>1, <4>2, <4>3, AgreesAll
    <3>5. p + word + 1 = p + m2 /\ p + 2 * word + 1 = p + m3
      BY <2>4
    <3>6. e = [id |-> e.id, authority |-> e.authority, owner |-> e.owner, type |-> e.type,
               label |-> e.label, payload |-> e.payload]
      BY DEF Entities
    <3>7. EntityAt(b, p, n, size, k, rest)
          = [id |-> e.id, authority |-> e.authority, owner |-> e.owner, type |-> e.type,
             label |-> e.label, payload |-> e.payload]
      BY <1>1, <3>1, <3>2, <3>3, <3>4, <3>5, Zenon DEF EntityAt
    <3> QED BY <3>6, <3>7, Zenon
  <2>18. k + rest = p + m8
    BY <2>12
  <2> QED BY <2>2, <2>3, <2>15, <2>16, <2>17, <2>18, Zenon
<1>8. \A b \in Seq(Nat), at \in Place :
         Whole(b, at, EncodeEntity(e)) <=> at + m8 - 1 <= Len(b)
  BY <1>6, Zenon DEF Whole
<1> QED BY <1>6, <1>7, <1>8, Zenon

\* The first elements of a sequence, one more at a time.
LEMMA Starts ==
    ASSUME NEW V, NEW s \in Seq(V)
    PROVE  /\ SubSeq(s, 1, 0) = <<>> /\ SubSeq(s, 1, Len(s)) = s
           /\ \A i \in 0 .. Len(s) - 1 : SubSeq(s, 1, i + 1) = Append(SubSeq(s, 1, i), s[i + 1])
<1>1. SubSeq(s, 1, 0) = <<>> /\ SubSeq(s, 1, Len(s)) = s
  OBVIOUS
<1>2. ASSUME NEW i \in 0 .. Len(s) - 1
      PROVE  SubSeq(s, 1, i + 1) = Append(SubSeq(s, 1, i), s[i + 1])
  <2>0. ASSUME NEW n \in 0 .. Len(s)
        PROVE  \E x \in Seq(V) : x = SubSeq(s, 1, n) /\ Len(x) = n /\ \A j \in 1 .. n : x[j] = s[j]
    <3>1. SubSeq(s, 1, n) \in Seq(V) /\ Len(SubSeq(s, 1, n)) = n
      OBVIOUS
    <3>2. \A j \in 1 .. n : SubSeq(s, 1, n)[j] = s[j]
      OBVIOUS
    <3> QED BY <3>1, <3>2, Zenon
  <2>1. PICK x \in Seq(V) : x = SubSeq(s, 1, i) /\ Len(x) = i /\ \A j \in 1 .. i : x[j] = s[j]
    <3>1. i \in 0 .. Len(s)
      OBVIOUS
    <3> QED BY <2>0, <3>1, Zenon
  <2>2. PICK y \in Seq(V) : y = SubSeq(s, 1, i + 1) /\ Len(y) = i + 1 /\ \A j \in 1 .. i + 1 : y[j] = s[j]
    <3>1. i + 1 \in 0 .. Len(s)
      OBVIOUS
    <3> QED BY <2>0, <3>1, Zenon
  <2>3. PICK v \in V : v = s[i + 1]
    OBVIOUS
  <2>4. PICK z \in Seq(V) : z = Append(x, v) /\ Len(z) = i + 1 /\ z[i + 1] = v /\ \A j \in 1 .. i : z[j] = x[j]
    <3>1. Append(x, v) \in Seq(V) /\ Len(Append(x, v)) = Len(x) + 1 /\ Append(x, v)[Len(x) + 1] = v
      OBVIOUS
    <3>2. \A j \in 1 .. Len(x) : Append(x, v)[j] = x[j]
      OBVIOUS
    <3> QED BY <2>1, <3>1, <3>2, Zenon
  <2>5. \A j \in 1 .. i + 1 : y[j] = z[j]
    BY <2>1, <2>2, <2>3, <2>4
  <2>6. y = z
    BY <2>2, <2>4, <2>5
  <2> QED BY <2>1, <2>2, <2>3, <2>4, <2>6, Zenon
<1> QED BY <1>1, <1>2

Loads(got, registry, b, n) ==
    /\ LoadEntities(registry, b, n) = got[n]
    /\ got[0] = [ok |-> TRUE, entities |-> <<>>, next |-> WorldHeader + 1]
    /\ \A i \in 1 .. n : got[i] = LoadNext(registry, b, got[i - 1])

LEMMA LoadRuns ==
    ASSUME NEW registry, NEW b, NEW n \in Nat
    PROVE  \E got : Loads(got, registry, b, n)
<1> DEFINE first == [ok |-> TRUE, entities |-> <<>>, next |-> WorldHeader + 1]
           e(x) == LoadNext(registry, b, x)
           Is(p, k) == p = [i \in 0 .. k |-> IF i = 0 THEN first ELSE e(p[i - 1])]
           S == {k \in Nat : \E p : Is(p, k)}
<1> HIDE DEF e, first
<1>1. 0 \in S
  <2>1. Is([k \in 0 .. 0 |-> first], 0)
    OBVIOUS
  <2> QED BY <2>1
<1>2. ASSUME NEW k \in Nat, k \in S PROVE k + 1 \in S
  <2>1. PICK p : Is(p, k)
    BY <1>2
  <2> DEFINE q == [i \in 0 .. k + 1 |-> IF i = k + 1 THEN e(p[k]) ELSE p[i]]
  <2>2. ASSUME NEW i \in 0 .. k + 1 PROVE q[i] = IF i = 0 THEN first ELSE e(q[i - 1])
    BY <2>1
  <2> HIDE DEF q
  <2>3. q = [i \in 0 .. k + 1 |-> q[i]]
    BY DEF q
  <2>4. Is(q, k + 1)
    BY <2>2, <2>3
  <2> HIDE DEF Is
  <2> QED BY <2>4
<1>3. n \in S
  <2> HIDE DEF S
  <2> QED BY <1>1, <1>2, EveryNat
<1>4. PICK got : got = CHOOSE g : Is(g, n)
  OBVIOUS
<1>5. Is(got, n)
  <2>1. \E g : Is(g, n)
    BY <1>3
  <2> HIDE DEF Is
  <2> QED BY <1>4, <2>1
<1>6. LoadEntities(registry, b, n) = got[n]
  BY <1>4 DEF e, first, LoadEntities
<1>7. got[0] = first /\ \A i \in 1 .. n : got[i] = e(got[i - 1])
  BY <1>5
<1> QED BY <1>6, <1>7 DEF e, first, Loads

\* What has been loaded so far.
Loaded(x, at)  == [ok |-> TRUE, entities |-> x, next |-> at]
Lost(x, at)    == [ok |-> FALSE, entities |-> x, next |-> at]
Grown(g, e, w) == [g EXCEPT !.entities = Append(@, e), !.next = w]

LEMMA LoadNextIs ==
    ASSUME NEW registry, NEW b, NEW x, NEW at
    PROVE  /\ ReadEntity(b, at) = Refused => LoadNext(registry, b, Loaded(x, at)) = Lost(x, at)
           /\ \A e, w : ReadEntity(b, at) = [entity |-> e, next |-> w] =>
                LoadNext(registry, b, Loaded(x, at)) =
                   IF e.type \in DOMAIN registry THEN Loaded(Append(x, e), w) ELSE Lost(x, at)
<1>0. PICK g : g = Loaded(x, at)
  OBVIOUS
<1>1. g = [ok |-> TRUE, entities |-> x, next |-> at]
  BY <1>0 DEF Loaded
<1>2. g.ok = TRUE /\ g.next = at
  BY <1>1
<1>3. g \in [ok : {TRUE}, entities : {x}, next : {at}]
  BY <1>1
<1>4. Aborts(g) = Lost(x, at)
  <2>1. PICK q : q = [g EXCEPT !.ok = FALSE]
    OBVIOUS
  <2>2. q \in [ok : {FALSE}, entities : {x}, next : {at}]
    BY <1>3, <2>1
  <2>3. q = [ok |-> FALSE, entities |-> x, next |-> at]
    BY <2>2
  <2> QED BY <2>1, <2>3, Zenon DEF Aborts, Lost
<1>5. ASSUME NEW e, NEW w PROVE Grown(g, e, w) = Loaded(Append(x, e), w)
  <2>1. PICK q : q = [g EXCEPT !.entities = Append(@, e), !.next = w]
    OBVIOUS
  <2>2. q \in [ok : {TRUE}, entities : {Append(x, e)}, next : {w}]
    BY <1>3, <2>1
  <2>3. q = [ok |-> TRUE, entities |-> Append(x, e), next |-> w]
    BY <2>2
  <2> QED BY <2>1, <2>3, Zenon DEF Grown, Loaded
<1>6. PICK read : read = ReadEntity(b, at)
  OBVIOUS
<1>7. LoadNext(registry, b, g)
      = IF read = Refused \/ read.entity.type \notin DOMAIN registry THEN Aborts(g)
        ELSE Grown(g, read.entity, read.next)
  <2>1. LoadNext(registry, b, g)
        = IF ~g.ok THEN g
          ELSE IF ReadEntity(b, g.next) = Refused \/ ReadEntity(b, g.next).entity.type \notin DOMAIN registry
               THEN Aborts(g)
          ELSE [g EXCEPT !.entities = Append(@, ReadEntity(b, g.next).entity),
                         !.next = ReadEntity(b, g.next).next]
    BY Zenon DEF LoadNext, Malformed
  <2>2. ReadEntity(b, g.next) = read
    BY <1>2, <1>6, Zenon
  <2> QED BY <1>2, <2>1, <2>2, Zenon DEF Grown
<1>8. read = Refused => LoadNext(registry, b, g) = Lost(x, at)
  BY <1>4, <1>7, Zenon
<1>9. ASSUME NEW e, NEW w, read = [entity |-> e, next |-> w]
      PROVE  LoadNext(registry, b, g) =
                   IF e.type \in DOMAIN registry THEN Loaded(Append(x, e), w) ELSE Lost(x, at)
  <2>1. read # Refused
    <3>1. \A u, v : [entity |-> u, next |-> v] # [refused |-> TRUE]
      OBVIOUS
    <3> QED BY <1>9, <3>1, Zenon DEF Refused
  <2>2. read.entity = e /\ read.next = w
    BY <1>9
  <2> QED BY <1>4, <1>5, <1>7, <2>1, <2>2, Zenon
<1> QED BY <1>0, <1>6, <1>8, <1>9, Zenon

\* The entities of a world, as they are to be read from first on.
Stored(b, first, es, parts, o, n, len) ==
    /\ len = Len(b) /\ Len(es) = n /\ first = WorldHeader + 1
    /\ \A i \in 1 .. n : parts[i] = EncodeEntity(es[i])
    /\ o[0] = 0 /\ \A i \in 1 .. n : o[i] = o[i - 1] + Len(parts[i])
    /\ \A i \in 1 .. n : Agrees(b, first + o[i - 1], parts[i])

Known(registry, es, n) == \A i \in 1 .. n : es[i].type \in DOMAIN registry

\* Entities are read one after the other, as far as they are there and known.
LEMMA EntitiesRun ==
    ASSUME NEW n \in Nat, NEW registry, NEW b \in Seq(Nat), NEW len \in Nat, NEW es \in Seq(Entities),
           NEW first \in Nat \ {0}, first - 1 <= len,
           NEW parts \in [1 .. n -> Seq(Nat)], NEW o \in [0 .. n -> Nat],
           Stored(b, first, es, parts, o, n, len)
    PROVE  IF first + o[n] - 1 <= len /\ Known(registry, es, n)
           THEN /\ LoadEntities(registry, b, n).ok
                /\ LoadEntities(registry, b, n).entities = es
           ELSE ~LoadEntities(registry, b, n).ok
<1>0. /\ len = Len(b) /\ Len(es) = n /\ first = WorldHeader + 1
      /\ \A i \in 1 .. n : parts[i] = EncodeEntity(es[i])
      /\ \A i \in 1 .. n : Agrees(b, first + o[i - 1], parts[i])
  BY DEF Stored
<1>00. o[0] = 0 /\ \A i \in 1 .. n : o[i] = o[i - 1] + Len(parts[i])
  BY DEF Stored
<1>01. \A i \in 1 .. n : es[i] \in Entities
  BY <1>0
<1>1. PICK got : Loads(got, registry, b, n)
  BY LoadRuns
<1> DEFINE part(i) == SubSeq(es, 1, i)
<1>02. part(0) = <<>> /\ part(n) = es /\ \A i \in 0 .. n - 1 : part(i + 1) = Append(part(i), es[i + 1])
  BY <1>0, Starts
<1> HIDE DEF part
<1>2. /\ LoadEntities(registry, b, n) = got[n]
      /\ got[0] = Loaded(part(0), first)
      /\ \A i \in 1 .. n : got[i] = LoadNext(registry, b, got[i - 1])
  BY <1>0, <1>02, <1>1, Zenon DEF Loads, Loaded
<1> DEFINE known(i) == \A j \in 1 .. i : es[j].type \in DOMAIN registry
           is(i, p) == IF p - 1 <= len /\ known(i) THEN got[i] = Loaded(part(i), p)
                       ELSE got[i].ok = FALSE
           S == {i \in 0 .. n : is(i, first + o[i])}
<1>03. known(0)
  OBVIOUS
<1>04. ASSUME NEW i \in 0 .. n - 1
       PROVE  known(i + 1) <=> known(i) /\ es[i + 1].type \in DOMAIN registry
  <2>1. 1 .. i + 1 = (1 .. i) \cup {i + 1}
    OBVIOUS
  <2> QED BY <2>1, Zenon
<1> HIDE DEF known, is
<1>3. 0 \in S
  <2>2. first + o[0] - 1 <= len /\ first + o[0] = first /\ 0 \in 0 .. n
    BY <1>00
  <2>3. is(0, first + o[0])
    BY <1>03, <1>2, <2>2 DEF is
  <2> QED BY <2>2, <2>3
<1>4. ASSUME NEW i \in 0 .. n - 1, i \in S PROVE i + 1 \in S
  <2>1. /\ i + 1 \in 1 .. n /\ (i + 1) - 1 = i /\ i + 1 \in 0 .. n /\ i \in 0 .. n /\ i \in Nat
    OBVIOUS
  <2>2. got[i + 1] = LoadNext(registry, b, got[i])
    BY <1>2, <2>1
  <2>3. /\ o[i + 1] = o[i] + Len(parts[i + 1]) /\ o[i] \in Nat /\ o[i + 1] \in Nat
        /\ Agrees(b, first + o[i], parts[i + 1]) /\ parts[i + 1] \in Seq(Nat)
    BY <1>0, <1>00, <2>1
  <2>31. PICK u \in Nat, l \in Nat, w \in Nat : u = o[i] /\ l = Len(parts[i + 1]) /\ w = o[i + 1]
    BY <2>3
  <2>32. w = u + l
    BY <2>3, <2>31, Zenon
  <2>33. PICK p \in Nat \ {0}, q \in Nat : p = first + u /\ q = first + w /\ q = p + l
    BY <2>32
  <2>4. p = first + o[i] /\ l = Len(parts[i + 1]) /\ q = p + l /\ q = first + o[i + 1]
    BY <2>31, <2>33, Zenon
  <2>5. IF p - 1 <= len /\ known(i) THEN got[i] = Loaded(part(i), p) ELSE got[i].ok = FALSE
    <3>1. is(i, p)
      BY <1>4, <2>4
    <3> QED BY <3>1 DEF is
  <2>6. SUFFICES IF q - 1 <= len /\ known(i + 1) THEN got[i + 1] = Loaded(part(i + 1), q)
                 ELSE got[i + 1].ok = FALSE
    <3>1. is(i + 1, q)
      BY <2>6 DEF is
    <3> QED BY <2>1, <2>4, <3>1
  <2>7. p \in Place
    BY DEF Place
  <2> HIDE DEF S
  <2>70. PICK e \in Entities : e = es[i + 1]
    BY <1>01, <2>1
  <2>71. known(i + 1) <=> known(i) /\ e.type \in DOMAIN registry
    BY <1>04, <2>70
  <2>72. part(i + 1) = Append(part(i), e)
    BY <1>02, <2>70
  <2>8. CASE ~(p - 1 <= len /\ known(i))
    <3>1. got[i].ok = FALSE
      BY <2>5, <2>8
    <3>2. got[i + 1] = got[i]
      BY <2>2, <3>1 DEF LoadNext
    <3>3. ~(q - 1 <= len /\ known(i + 1))
      <4>1. q - 1 <= len => p - 1 <= len
        BY <2>33
      <4> QED BY <2>71, <2>8, <4>1, Zenon
    <3> QED BY <3>1, <3>2, <3>3
  <2>9. CASE p - 1 <= len /\ known(i)
    <3>1. parts[i + 1] = EncodeEntity(e)
      BY <1>0, <2>1, <2>70
    <3>2. Agrees(b, p, EncodeEntity(e)) /\ Len(EncodeEntity(e)) = l
      BY <2>3, <2>4, <3>1
    <3>3. Whole(b, p, EncodeEntity(e)) <=> q - 1 <= len
      <4>1. Whole(b, p, EncodeEntity(e)) <=> p + l - 1 <= len
        BY <1>0, <3>2, Zenon DEF Whole
      <4> QED BY <2>33, <4>1
    <3>4. ReadEntity(b, p) = IF Whole(b, p, EncodeEntity(e))
                             THEN [entity |-> e, next |-> p + Len(EncodeEntity(e))] ELSE Refused
      BY <2>7, <3>2, EntityIs
    <3>5. ReadEntity(b, p) = IF q - 1 <= len THEN [entity |-> e, next |-> q] ELSE Refused
      BY <2>4, <3>2, <3>3, <3>4, Zenon
    <3>6. got[i] = Loaded(part(i), p)
      BY <2>5, <2>9
    <3>7. ASSUME got[i + 1] = Lost(part(i), p) PROVE got[i + 1].ok = FALSE
      BY <3>7 DEF Lost
    <3>8. CASE ~(q - 1 <= len)
      <4>1. got[i + 1] = Lost(part(i), p)
        <5>1. ReadEntity(b, p) = Refused
          BY <3>5, <3>8, Zenon
        <5>2. LoadNext(registry, b, Loaded(part(i), p)) = Lost(part(i), p)
          BY <5>1, LoadNextIs
        <5> QED BY <2>2, <3>6, <5>2, Zenon
      <4> QED BY <3>7, <3>8, <4>1
    <3>9. CASE q - 1 <= len
      <4>1. got[i + 1] = IF e.type \in DOMAIN registry THEN Loaded(Append(part(i), e), q) ELSE Lost(part(i), p)
        <5>1. ReadEntity(b, p) = [entity |-> e, next |-> q]
          BY <3>5, <3>9, Zenon
        <5>2. LoadNext(registry, b, Loaded(part(i), p))
              = IF e.type \in DOMAIN registry THEN Loaded(Append(part(i), e), q) ELSE Lost(part(i), p)
          BY <5>1, LoadNextIs
        <5> QED BY <2>2, <3>6, <5>2, Zenon
      <4> QED BY <2>71, <2>72, <2>9, <3>7, <3>9, <4>1, Zenon
    <3> QED BY <3>8, <3>9
  <2> QED BY <2>8, <2>9
<1>5. n \in S
  <2> HIDE DEF S
  <2> QED BY <1>3, <1>4, UpTo
<1>6. IF first + o[n] - 1 <= len /\ known(n)
      THEN got[n] = Loaded(part(n), first + o[n]) ELSE got[n].ok = FALSE
  BY <1>5 DEF is
<1>7. known(n) <=> Known(registry, es, n)
  BY Zenon DEF known, Known
<1>8. CASE first + o[n] - 1 <= len /\ known(n)
  <2>1. LoadEntities(registry, b, n) = Loaded(es, first + o[n])
    BY <1>02, <1>2, <1>6, <1>8, Zenon
  <2> QED BY <1>7, <1>8, <2>1 DEF Loaded
<1>9. CASE ~(first + o[n] - 1 <= len /\ known(n))
  BY <1>2, <1>6, <1>7, <1>9
<1> QED BY <1>8, <1>9

\* What a world is made of.
WorldIsOf(w, x1, x2, x3, x4, x5, x6, parts, n, word, long) ==
    /\ word = Word /\ long = Long /\ n = Len(w.entities)
    /\ x1 = Magic /\ x2 = WorldVersion /\ x3 = n
    /\ x4 = w.counters[1] /\ x5 = w.counters[2] /\ x6 = w.counters[3]
    /\ x2 \in 0 .. Most(Word) /\ x3 \in 0 .. Most(Word) /\ x4 \in 0 .. Most(Word)
    /\ x5 \in 0 .. Most(Word) /\ x6 \in 0 .. Most(Long)
    /\ w.entities \in Seq(Entities)
    /\ \A i \in 1 .. n : parts[i] = EncodeEntity(w.entities[i])
    /\ w = [counters |-> <<x4, x5, x6>>, entities |-> w.entities]

LEMMA WorldParts ==
    ASSUME NEW w, IsWorld(w)
    PROVE  \E word \in Nat \ {0}, long \in Nat \ {0}, n \in Nat :
             \E x1 \in Nat, x2 \in Nat, x3 \in Nat, x4 \in Nat, x5 \in Nat, x6 \in Nat :
               \E parts \in [1 .. n -> Seq(Nat)] :
                 WorldIsOf(w, x1, x2, x3, x4, x5, x6, parts, n, word, long)
<1>1. PICK word \in Nat \ {0}, long \in Nat \ {0} : word = Word /\ long = Long
  BY BaseIs
<1>2. w.entities \in Seq(Entities) /\ Len(w.entities) <= Most(Word)
  BY DEF IsWorld
<1>3. PICK n \in Nat : n = Len(w.entities)
  <2>1. Len(w.entities) \in Nat
    BY <1>2
  <2> QED BY <2>1, Zenon
<1>4. Most(Word) \in Nat /\ Most(Long) \in Nat /\ Most(Half) \in Nat
  BY BaseIs, MostIs
<1>5. Most(Word) >= 15
  BY BaseIs, MostAtLeast
<1>6. /\ w.counters = <<w.counters[1], w.counters[2], w.counters[3]>>
      /\ w.counters[1] \in 0 .. Most(Word) /\ w.counters[2] \in 0 .. Most(Word)
      /\ w.counters[3] \in 0 .. Most(Long)
  BY DEF IsWorld
<1>7. w = [counters |-> w.counters, entities |-> w.entities]
  BY DEF IsWorld
<1>8. PICK x4 \in Nat, x5 \in Nat, x6 \in Nat :
         x4 = w.counters[1] /\ x5 = w.counters[2] /\ x6 = w.counters[3]
  <2>1. w.counters[1] \in Nat /\ w.counters[2] \in Nat /\ w.counters[3] \in Nat
    BY <1>4, <1>6
  <2> QED BY <2>1, Zenon
<1>9. PICK x1 \in Nat, x2 \in Nat : x1 = Magic /\ x2 = WorldVersion /\ x2 \in 0 .. Most(Word)
  <2>1. 9 \in Nat /\ 1 \in Nat /\ 1 \in 0 .. Most(Word)
    BY <1>4, <1>5
  <2> QED BY <2>1, Zenon DEF Magic, WorldVersion
<1>10. n \in 0 .. Most(Word)
  BY <1>2, <1>3, <1>4
<1> DEFINE parts == [i \in 1 .. n |-> EncodeEntity(w.entities[i])]
<1>11. parts \in [1 .. n -> Seq(Nat)] /\ \A i \in 1 .. n : parts[i] = EncodeEntity(w.entities[i])
  <2>1. \A i \in 1 .. n : w.entities[i] \in Entities
    BY <1>2, <1>3
  <2>2. \A i \in 1 .. n : EncodeEntity(w.entities[i]) \in Seq(Nat)
    BY <2>1, EntityIs
  <2> QED BY <2>2
<1> HIDE DEF parts
<1>12. w = [counters |-> <<x4, x5, x6>>, entities |-> w.entities]
  BY <1>6, <1>7, <1>8, Zenon
<1>13. WorldIsOf(w, x1, x2, n, x4, x5, x6, parts, n, word, long)
  BY <1>1, <1>2, <1>3, <1>6, <1>8, <1>9, <1>10, <1>11, <1>12, Zenon DEF WorldIsOf
<1> QED BY <1>11, <1>13, Zenon

\* Where the pieces of a world lie: they end after m2, .. m6 bytes, the entities after m7.
WorldEnds(word, long, l, m2, m3, m4, m5, m6, m7) ==
    /\ m2 = 1 + word /\ m3 = m2 + word /\ m4 = m3 + word /\ m5 = m4 + word
    /\ m6 = m5 + long /\ m7 = m6 + l
WorldLaid(b, x1, x2, x3, x4, x5, x6, f, word, long, m2, m3, m4, m5, m6) ==
    /\ Agrees(b, 1, <<x1>>) /\ Agrees(b, 1 + 1, LE(x2, word)) /\ Agrees(b, 1 + m2, LE(x3, word))
    /\ Agrees(b, 1 + m3, LE(x4, word)) /\ Agrees(b, 1 + m4, LE(x5, word))
    /\ Agrees(b, 1 + m5, LE(x6, long)) /\ Agrees(b, 1 + m6, f)

Flattened(f, parts, l) == f = FlattenSeq(parts) /\ l = Len(f)

LEMMA WorldBytes ==
    ASSUME NEW w, NEW n \in Nat, NEW word \in Nat \ {0}, NEW long \in Nat \ {0},
           NEW x1 \in Nat, NEW x2 \in Nat, NEW x3 \in Nat, NEW x4 \in Nat, NEW x5 \in Nat, NEW x6 \in Nat,
           NEW parts \in [1 .. n -> Seq(Nat)],
           WorldIsOf(w, x1, x2, x3, x4, x5, x6, parts, n, word, long),
           NEW f \in Seq(Nat), NEW l \in Nat, Flattened(f, parts, l),
           NEW m2 \in Nat, NEW m3 \in Nat, NEW m4 \in Nat, NEW m5 \in Nat, NEW m6 \in Nat, NEW m7 \in Nat,
           WorldEnds(word, long, l, m2, m3, m4, m5, m6, m7)
    PROVE  /\ EncodeWorld(w) \in Seq(Nat) /\ Len(EncodeWorld(w)) = m7
           /\ \A b \in Seq(Nat) : Agrees(b, 1, EncodeWorld(w)) =>
                 WorldLaid(b, x1, x2, x3, x4, x5, x6, f, word, long, m2, m3, m4, m5, m6)
<1>0. /\ m2 = 1 + word /\ m3 = m2 + word /\ m4 = m3 + word /\ m5 = m4 + word
      /\ m6 = m5 + long /\ m7 = m6 + l
  BY DEF WorldEnds
<1>1. PICK y1 \in Seq(Nat) : y1 = <<x1>> /\ Len(y1) = 1
  <2>1. <<x1>> \in Seq(Nat) /\ Len(<<x1>>) = 1
    OBVIOUS
  <2> QED BY <2>1, Zenon
<1>2. PICK z2 \in Seq(Nat) : z2 = LE(x2, word) /\ Len(z2) = word
  BY LEType
<1>3. PICK z3 \in Seq(Nat) : z3 = LE(x3, word) /\ Len(z3) = word
  BY LEType
<1>4. PICK z4 \in Seq(Nat) : z4 = LE(x4, word) /\ Len(z4) = word
  BY LEType
<1>5. PICK z5 \in Seq(Nat) : z5 = LE(x5, word) /\ Len(z5) = word
  BY LEType
<1>6. PICK z6 \in Seq(Nat) : z6 = LE(x6, long) /\ Len(z6) = long
  BY LEType
<1>12. PICK y2 \in Seq(Nat) : Joined(y2, y1, z2, 1, m2) /\ Len(y2) = m2
  <2>1. Len(y1) + Len(z2) = m2
    BY <1>0, <1>1, <1>2, Zenon
  <2>2. PICK x \in Seq(Nat) : Joined(x, y1, z2, Len(y1), m2)
    BY <2>1, Longer
  <2>3. Len(x) = m2
    BY <2>2 DEF Joined
  <2> QED BY <1>1, <2>2, <2>3, Zenon
<1>13. PICK y3 \in Seq(Nat) : Joined(y3, y2, z3, m2, m3) /\ Len(y3) = m3
  <2>1. Len(y2) + Len(z3) = m3
    BY <1>0, <1>12, <1>3, Zenon
  <2>2. PICK x \in Seq(Nat) : Joined(x, y2, z3, Len(y2), m3)
    BY <2>1, Longer
  <2>3. Len(x) = m3
    BY <2>2 DEF Joined
  <2> QED BY <1>12, <2>2, <2>3, Zenon
<1>14. PICK y4 \in Seq(Nat) : Joined(y4, y3, z4, m3, m4) /\ Len(y4) = m4
  <2>1. Len(y3) + Len(z4) = m4
    BY <1>0, <1>13, <1>4, Zenon
  <2>2. PICK x \in Seq(Nat) : Joined(x, y3, z4, Len(y3), m4)
    BY <2>1, Longer
  <2>3. Len(x) = m4
    BY <2>2 DEF Joined
  <2> QED BY <1>13, <2>2, <2>3, Zenon
<1>15. PICK y5 \in Seq(Nat) : Joined(y5, y4, z5, m4, m5) /\ Len(y5) = m5
  <2>1. Len(y4) + Len(z5) = m5
    BY <1>0, <1>14, <1>5, Zenon
  <2>2. PICK x \in Seq(Nat) : Joined(x, y4, z5, Len(y4), m5)
    BY <2>1, Longer
  <2>3. Len(x) = m5
    BY <2>2 DEF Joined
  <2> QED BY <1>14, <2>2, <2>3, Zenon
<1>16. PICK y6 \in Seq(Nat) : Joined(y6, y5, z6, m5, m6) /\ Len(y6) = m6
  <2>1. Len(y5) + Len(z6) = m6
    BY <1>0, <1>15, <1>6, Zenon
  <2>2. PICK x \in Seq(Nat) : Joined(x, y5, z6, Len(y5), m6)
    BY <2>1, Longer
  <2>3. Len(x) = m6
    BY <2>2 DEF Joined
  <2> QED BY <1>15, <2>2, <2>3, Zenon
<1>17. PICK y7 \in Seq(Nat) : Joined(y7, y6, f, m6, m7) /\ Len(y7) = m7
  <2>1. Len(y6) + Len(f) = m7
    BY <1>0, <1>16, Zenon DEF Flattened
  <2>2. PICK x \in Seq(Nat) : Joined(x, y6, f, Len(y6), m7)
    BY <2>1, Longer
  <2>3. Len(x) = m7
    BY <2>2 DEF Joined
  <2> QED BY <1>16, <2>2, <2>3, Zenon
<1>18. EncodeWorld(w) = y7
  <2>1. /\ y2 = y1 \o z2 /\ y3 = y2 \o z3 /\ y4 = y3 \o z4 /\ y5 = y4 \o z5
        /\ y6 = y5 \o z6 /\ y7 = y6 \o f
    BY <1>12, <1>13, <1>14, <1>15, <1>16, <1>17, Zenon DEF Joined
  <2>2. /\ word = Word /\ long = Long /\ x1 = Magic /\ x2 = WorldVersion /\ x3 = Len(w.entities)
        /\ x4 = w.counters[1] /\ x5 = w.counters[2] /\ x6 = w.counters[3]
    BY Zenon DEF WorldIsOf
  <2>3. f = FlattenSeq([i \in DOMAIN w.entities |-> EncodeEntity(w.entities[i])])
    <3>1. n = Len(w.entities) /\ w.entities \in Seq(Entities)
          /\ \A i \in 1 .. n : parts[i] = EncodeEntity(w.entities[i])
      BY DEF WorldIsOf
    <3>2. DOMAIN w.entities = 1 .. n
      <4>1. PICK es \in Seq(Entities) : es = w.entities /\ n = Len(es)
        BY <3>1, Zenon
      <4>2. DOMAIN es = 1 .. Len(es)
        OBVIOUS
      <4> QED BY <4>1, <4>2, Zenon
    <3>3. parts = [i \in 1 .. n |-> EncodeEntity(w.entities[i])]
      BY <3>1
    <3> QED BY <3>2, <3>3, Zenon DEF Flattened
  <2>4. EncodeWorld(w) = ((((((y1 \o z2) \o z3) \o z4) \o z5) \o z6) \o f)
    <3>1. EncodeWorld(w) = ((((((<<x1>> \o LE(x2, word)) \o LE(x3, word)) \o LE(x4, word)) \o LE(x5, word))
                              \o LE(x6, long))
                             \o FlattenSeq([i \in DOMAIN w.entities |-> EncodeEntity(w.entities[i])]))
      BY <2>2, Zenon DEF EncodeWorld
    <3> QED BY <1>1, <1>2, <1>3, <1>4, <1>5, <1>6, <2>3, <3>1, Zenon
  <2> QED BY <2>1, <2>4, Zenon
<1>19. ASSUME NEW b \in Seq(Nat), Agrees(b, 1, y7)
       PROVE  WorldLaid(b, x1, x2, x3, x4, x5, x6, f, word, long, m2, m3, m4, m5, m6)
  <2>0. 1 \in Place
    BY DEF Place
  <2>1. Agrees(b, 1, y6) /\ Agrees(b, 1 + m6, f)
    BY <1>17, <1>19, <2>0, Zenon DEF Joined
  <2>2. Agrees(b, 1, y5) /\ Agrees(b, 1 + m5, z6)
    BY <1>16, <2>0, <2>1, Zenon DEF Joined
  <2>3. Agrees(b, 1, y4) /\ Agrees(b, 1 + m4, z5)
    BY <1>15, <2>0, <2>2, Zenon DEF Joined
  <2>4. Agrees(b, 1, y3) /\ Agrees(b, 1 + m3, z4)
    BY <1>14, <2>0, <2>3, Zenon DEF Joined
  <2>5. Agrees(b, 1, y2) /\ Agrees(b, 1 + m2, z3)
    BY <1>13, <2>0, <2>4, Zenon DEF Joined
  <2>6. Agrees(b, 1, y1) /\ Agrees(b, 1 + 1, z2)
    BY <1>12, <2>0, <2>5, Zenon DEF Joined
  <2> QED BY <1>1, <1>2, <1>3, <1>4, <1>5, <1>6, <2>1, <2>2, <2>3, <2>4, <2>5, <2>6, Zenon
     DEF WorldLaid
<1> QED BY <1>17, <1>18, <1>19, Zenon

LEMMA DecodeWorldIs ==
    ASSUME NEW registry, NEW b, NEW p3, NEW p4, NEW p5, NEW p6, NEW head,
           p3 = Word + 2, p4 = 2 * Word + 2, p5 = 3 * Word + 2, p6 = 4 * Word + 2, head = WorldHeader
    PROVE  DecodeWorld(registry, b) =
              IF \/ Len(b) < head \/ b[1] # Magic \/ At(b, 2, Word) # WorldVersion
                 \/ ~LoadEntities(registry, b, At(b, p3, Word)).ok
              THEN Refused
              ELSE [counters |-> <<At(b, p4, Word), At(b, p5, Word), At(b, p6, Long)>>,
                    entities |-> LoadEntities(registry, b, At(b, p3, Word)).entities]
BY Zenon DEF DecodeWorld

\* A whole world of known types is read as it was written, any other is refused.
THEOREM WorldIs ==
    ASSUME NEW w, IsWorld(w)
    PROVE  /\ EncodeWorld(w) \in Seq(Nat)
           /\ \A registry : \A b \in Seq(Nat) : Agrees(b, 1, EncodeWorld(w)) =>
                DecodeWorld(registry, b) =
                   IF Len(EncodeWorld(w)) <= Len(b) /\ Known(registry, w.entities, Len(w.entities))
                   THEN w ELSE Refused
<1>1. PICK word \in Nat \ {0}, long \in Nat \ {0}, n \in Nat :
        \E x1 \in Nat, x2 \in Nat, x3 \in Nat, x4 \in Nat, x5 \in Nat, x6 \in Nat :
           \E parts \in [1 .. n -> Seq(Nat)] :
              WorldIsOf(w, x1, x2, x3, x4, x5, x6, parts, n, word, long)
  BY WorldParts, Zenon
<1>2. PICK x1 \in Nat, x2 \in Nat, x3 \in Nat, x4 \in Nat, x5 \in Nat, x6 \in Nat :
           \E parts \in [1 .. n -> Seq(Nat)] :
              WorldIsOf(w, x1, x2, x3, x4, x5, x6, parts, n, word, long)
  BY <1>1, Zenon
<1>3. PICK parts \in [1 .. n -> Seq(Nat)] : WorldIsOf(w, x1, x2, x3, x4, x5, x6, parts, n, word, long)
  BY <1>2, Zenon
<1>4. PICK f \in Seq(Nat) : f = FlattenSeq(parts)
  BY FlattenPlaces
<1>5. PICK l \in Nat : l = Len(f)
  OBVIOUS
<1>55. Flattened(f, parts, l)
  BY <1>4, <1>5, Zenon DEF Flattened
<1>6. PICK m2 \in Nat, m3 \in Nat, m4 \in Nat, m5 \in Nat, m6 \in Nat, m7 \in Nat :
         WorldEnds(word, long, l, m2, m3, m4, m5, m6, m7)
  <2>1. PICK k2 \in Nat : k2 = 1 + word
    OBVIOUS
  <2>2. PICK k3 \in Nat : k3 = k2 + word
    OBVIOUS
  <2>3. PICK k4 \in Nat : k4 = k3 + word
    OBVIOUS
  <2>4. PICK k5 \in Nat : k5 = k4 + word
    OBVIOUS
  <2>5. PICK k6 \in Nat : k6 = k5 + long
    OBVIOUS
  <2>6. PICK k7 \in Nat : k7 = k6 + l
    OBVIOUS
  <2>7. WorldEnds(word, long, l, k2, k3, k4, k5, k6, k7)
    BY <2>1, <2>2, <2>3, <2>4, <2>5, <2>6, Zenon DEF WorldEnds
  <2> QED BY <2>7, Zenon
<1>7. EncodeWorld(w) \in Seq(Nat) /\ Len(EncodeWorld(w)) = m7
  BY <1>3, <1>55, <1>6, WorldBytes
<1>8. /\ word = Word /\ long = Long /\ n = Len(w.entities)
      /\ x1 = Magic /\ x2 = WorldVersion /\ x3 = n
      /\ x2 \in 0 .. Most(Word) /\ x3 \in 0 .. Most(Word) /\ x4 \in 0 .. Most(Word)
      /\ x5 \in 0 .. Most(Word) /\ x6 \in 0 .. Most(Long)
      /\ w.entities \in Seq(Entities)
      /\ \A i \in 1 .. n : parts[i] = EncodeEntity(w.entities[i])
      /\ w = [counters |-> <<x4, x5, x6>>, entities |-> w.entities]
  BY <1>3, Zenon DEF WorldIsOf
<1>9. PICK es \in Seq(Entities) : es = w.entities
  BY <1>8
<1>10. /\ m2 = 1 + word /\ m3 = m2 + word /\ m4 = m3 + word /\ m5 = m4 + word
       /\ m6 = m5 + long /\ m7 = m6 + l
  BY <1>6 DEF WorldEnds
<1>11. PICK p3 \in Nat, p4 \in Nat, p5 \in Nat, p6 \in Nat, first \in Nat \ {0} :
          p3 = 1 + m2 /\ p4 = 1 + m3 /\ p5 = 1 + m4 /\ p6 = 1 + m5 /\ first = 1 + m6
  <2>1. 1 + m2 \in Nat /\ 1 + m3 \in Nat /\ 1 + m4 \in Nat /\ 1 + m5 \in Nat /\ 1 + m6 \in Nat \ {0}
    OBVIOUS
  <2> QED BY <2>1, Zenon
<1>12. p3 = word + 2 /\ p4 = 2 * word + 2 /\ p5 = 3 * word + 2 /\ p6 = 4 * word + 2
       /\ m6 = 1 + 4 * word + long /\ first = m6 + 1
  BY <1>10, <1>11
<1>13. p3 = Word + 2 /\ p4 = 2 * Word + 2 /\ p5 = 3 * Word + 2 /\ p6 = 4 * Word + 2
       /\ m6 = WorldHeader /\ first = WorldHeader + 1
  BY <1>8, <1>12, Zenon DEF WorldHeader
<1>14. ASSUME NEW registry, NEW b \in Seq(Nat), Agrees(b, 1, EncodeWorld(w))
       PROVE  DecodeWorld(registry, b) = IF m7 <= Len(b) /\ Known(registry, es, n) THEN w ELSE Refused
  <2>1. WorldLaid(b, x1, x2, x3, x4, x5, x6, f, word, long, m2, m3, m4, m5, m6)
    BY <1>3, <1>55, <1>6, <1>14, WorldBytes
  <2>2. /\ Agrees(b, 1, <<x1>>) /\ Agrees(b, 1 + 1, LE(x2, word)) /\ Agrees(b, p3, LE(x3, word))
        /\ Agrees(b, p4, LE(x4, word)) /\ Agrees(b, p5, LE(x5, word))
        /\ Agrees(b, p6, LE(x6, long)) /\ Agrees(b, first, f)
    BY <1>11, <2>1, Zenon DEF WorldLaid
  <2>3. PICK len \in Nat : len = Len(b)
    OBVIOUS
  <2>4. DecodeWorld(registry, b) =
              IF \/ Len(b) < m6 \/ b[1] # Magic \/ At(b, 2, Word) # WorldVersion
                 \/ ~LoadEntities(registry, b, At(b, p3, Word)).ok
              THEN Refused
              ELSE [counters |-> <<At(b, p4, Word), At(b, p5, Word), At(b, p6, Long)>>,
                    entities |-> LoadEntities(registry, b, At(b, p3, Word)).entities]
    BY <1>13, DecodeWorldIs, Zenon
  <2>5. CASE len < m6
    <3>1. ~(m7 <= len)
      BY <1>10, <2>5
    <3> QED BY <2>3, <2>4, <2>5, <3>1, Zenon
  <2>6. CASE ~(len < m6)
    <3>1. /\ 1 <= len /\ 1 + 1 + word - 1 <= len /\ p3 + word - 1 <= len
          /\ p4 + word - 1 <= len /\ p5 + word - 1 <= len
          /\ p6 + long - 1 <= len /\ first - 1 <= len
      BY <1>10, <1>11, <2>6
    <3>2. 1 \in Place /\ 1 + 1 \in Place /\ p3 \in Place /\ p4 \in Place /\ p5 \in Place /\ p6 \in Place
          /\ first \in Place
      BY <1>11 DEF Place
    <3>3. /\ x2 \in 0 .. Most(word) /\ x3 \in 0 .. Most(word) /\ x4 \in 0 .. Most(word)
          /\ x5 \in 0 .. Most(word) /\ x6 \in 0 .. Most(long)
      BY <1>8, Zenon
    <3>4. b[1] = x1
      BY <2>2, <2>3, <3>1, <3>2, AgreesOne
    <3>5. /\ At(b, 1 + 1, word) = x2 /\ At(b, p3, word) = x3 /\ At(b, p4, word) = x4
          /\ At(b, p5, word) = x5 /\ At(b, p6, long) = x6
      BY <2>2, <2>3, <3>1, <3>2, <3>3, ReadNumber
    <3>6. 1 + 1 = 2
      OBVIOUS
    <3>7. At(b, 2, Word) = WorldVersion /\ b[1] = Magic /\ At(b, p3, Word) = n
          /\ At(b, p4, Word) = x4 /\ At(b, p5, Word) = x5 /\ At(b, p6, Long) = x6
      BY <1>8, <3>4, <3>5, <3>6, Zenon
    <3>8. ~(Len(b) < m6)
      BY <2>3, <2>6, Zenon
    <3>9. DecodeWorld(registry, b) =
             IF ~LoadEntities(registry, b, n).ok THEN Refused
             ELSE [counters |-> <<x4, x5, x6>>, entities |-> LoadEntities(registry, b, n).entities]
      BY <2>4, <3>7, <3>8, Zenon
    <3>10. PICK o \in [0 .. n -> Nat] :
          /\ Len(FlattenSeq(parts)) = o[n] /\ o[0] = 0
          /\ \A i \in 1 .. n : o[i] = o[i - 1] + Len(parts[i])
          /\ \A x \in Seq(Nat), at \in Place :
                Agrees(x, at, FlattenSeq(parts)) =>
                  \A i \in 1 .. n : Agrees(x, at + o[i - 1], parts[i])
      BY FlattenPlaces
    <3>11. \A i \in 1 .. n : Agrees(b, first + o[i - 1], parts[i])
      BY <1>4, <2>2, <3>2, <3>10
    <3>12. Stored(b, first, es, parts, o, n, len)
      <4>1. o[0] = 0 /\ \A i \in 1 .. n : o[i] = o[i - 1] + Len(parts[i])
        BY <3>10
      <4>2. Len(es) = n /\ \A i \in 1 .. n : parts[i] = EncodeEntity(es[i])
        BY <1>8, <1>9, Zenon
      <4> QED BY <1>13, <2>3, <3>11, <4>1, <4>2, Zenon DEF Stored
    <3>13. IF first + o[n] - 1 <= len /\ Known(registry, es, n)
           THEN /\ LoadEntities(registry, b, n).ok
                /\ LoadEntities(registry, b, n).entities = es
           ELSE ~LoadEntities(registry, b, n).ok
      BY <3>1, <3>12, EntitiesRun
    <3>14. first + o[n] - 1 <= len <=> m7 <= len
      <4>1. PICK u \in Nat : u = o[n]
        OBVIOUS
      <4>2. u = l
        BY <1>4, <1>5, <3>10, <4>1, Zenon
      <4>3. first + l - 1 = m7
        BY <1>10, <1>11
      <4> QED BY <4>1, <4>2, <4>3, Zenon
    <3> QED BY <1>8, <1>9, <2>3, <3>9, <3>13, <3>14, Zenon
  <2> QED BY <2>5, <2>6
<1> QED BY <1>7, <1>8, <1>9, <1>14, Zenon

-----------------------------------------------------------------------------
(* The invariant *)

\* Components of the receiver: as many fields as their types have.
Held(bd, f) ==
    /\ f \in [DOMAIN bd.there -> Seq(Int)]
    /\ \A t \in DOMAIN bd.there : Len(f[t]) = Len(bd.there[t].fields)

\* All of the bytes are read as what was said, a part of them is refused.
Parses(l, bytes, said) ==
    \A n \in 0 .. Len(bytes) :
        ParseFrame(l, SubSeq(bytes, 1, n)) = IF n = Len(bytes) THEN said ELSE Refused

\* A payload is a snapshot of a type of the sender, or what it begins with.
Carries(bd, more, payload) ==
    /\ more.type \in DOMAIN bd.here
    /\ LET m        == bd.here[more.type]
           snapshot == EncodeSnapshot(m, more.instance, more.mask)
       IN  /\ more.mask \subseteq DOMAIN m.fields /\ Instance(m, more.instance)
           /\ \E n \in 0 .. Len(snapshot) :
                 payload = SubSeq(snapshot, 1, n) /\ (more.whole <=> n = Len(snapshot))

UnderWay(bd, w) ==
    /\ w.kind \in {"schema", "component", "other", "world"}
    /\ w.bytes \in Seq(Nat)
    /\ w.kind = "world" => IsWorld(w.said) /\ w.bytes = EncodeWorld(w.said)
    /\ w.kind # "world" => Parses(w.layout, w.bytes, w.said) /\ w.said # Refused
    /\ w.kind = "schema" => w.layout = SchemaLayout /\ w.said.payload = SchemaTable(bd.here)
    /\ w.kind = "component" => Carries(bd, w.more, w.said.payload)

TypeOK ==
    /\ build \in Builds /\ sends \in 0 .. MaxSends
    /\ Held(build, receiver) /\ Held(build, meant)
    /\ wire # Nothing => UnderWay(build, wire)

IInv == TypeOK /\ AllOrNothing /\ ReadAsWritten

-----------------------------------------------------------------------------
(* What is sent can be told by a frame. *)

LEMMA TimesAtMost ==
    ASSUME NEW u \in Nat \ {0}, NEW c \in Nat, NEW m \in Nat, u * c <= u * m
    PROVE  c <= m
<1> SUFFICES ASSUME m + 1 <= c PROVE FALSE
  OBVIOUS
<1>1. u * (m + 1) <= u * c
  BY TimesGrows
<1>2. u * (m + 1) = u * m + u
  OBVIOUS
<1>3. PICK x \in Nat, y \in Nat : x = u * c /\ y = u * m
  OBVIOUS
<1> QED BY <1>1, <1>2, <1>3

\* Numbers that the fields of a layout hold and that are understood as they are.
Sized(l, n, tag, sizes, length, unit, values) ==
    /\ l.tag = tag /\ l.sizes = sizes /\ l.length = length /\ l.unit = unit
    /\ \A i \in 1 .. n : values[i] \in 0 .. Most(sizes[i]) /\ Understood(l, i, values[i]) = values[i]

Counted(payload, unit, count) == Len(payload) = unit * count

IsFrame(l, values, payload) ==
    \E n \in Nat, tag \in Nat, length \in Nat, unit \in Nat \ {0}, count \in Nat :
       \E sizes \in [1 .. n -> Nat] :
          /\ values \in [1 .. n -> Nat] /\ payload \in Seq(Nat)
          /\ Framed(l, n, tag, sizes, length, unit, values, payload, count)

LEMMA FrameParses ==
    ASSUME NEW l, NEW values, NEW payload, IsFrame(l, values, payload)
    PROVE  /\ EncodeFrame(l, values, payload) \in Seq(Nat)
           /\ Parses(l, EncodeFrame(l, values, payload), [values |-> values, payload |-> payload])
<1>1. PICK n \in Nat, tag \in Nat, length \in Nat, unit \in Nat \ {0}, count \in Nat :
         \E sizes \in [1 .. n -> Nat] :
            /\ values \in [1 .. n -> Nat] /\ payload \in Seq(Nat)
            /\ Framed(l, n, tag, sizes, length, unit, values, payload, count)
  BY Zenon DEF IsFrame
<1>2. PICK sizes \in [1 .. n -> Nat] :
            /\ values \in [1 .. n -> Nat] /\ payload \in Seq(Nat)
            /\ Framed(l, n, tag, sizes, length, unit, values, payload, count)
  BY <1>1, Zenon
<1>3. /\ EncodeFrame(l, values, payload) = FrameBytes(l, values, payload, count)
      /\ FrameBytes(l, values, payload, count) \in Seq(Nat)
      /\ \A b \in Seq(Nat) : Agrees(b, 1, FrameBytes(l, values, payload, count)) =>
           ParseFrame(l, b) = IF Len(FrameBytes(l, values, payload, count)) <= Len(b)
                              THEN [values |-> values, payload |-> payload] ELSE Refused
  BY <1>2, FrameIs
<1>4. PICK f \in Seq(Nat) : f = FrameBytes(l, values, payload, count)
  BY <1>3
<1>5. ASSUME NEW n1 \in 0 .. Len(f)
      PROVE  ParseFrame(l, SubSeq(f, 1, n1)) =
                IF n1 = Len(f) THEN [values |-> values, payload |-> payload] ELSE Refused
  <2>1. PICK b \in Seq(Nat) : b = SubSeq(f, 1, n1) /\ Len(b) = n1 /\ Agrees(b, 1, f)
    BY PrefixAgrees
  <2>2. ParseFrame(l, b) = IF Len(f) <= Len(b) THEN [values |-> values, payload |-> payload] ELSE Refused
    BY <1>3, <1>4, <2>1, Zenon
  <2>3. Len(f) <= Len(b) <=> n1 = Len(f)
    BY <2>1
  <2> QED BY <2>1, <2>2, <2>3, Zenon
<1> QED BY <1>3, <1>4, <1>5, Zenon DEF Parses

\* What is encoded is told by its frame when its numbers are.
LEMMA FrameOf ==
    ASSUME NEW n \in Nat, NEW l, NEW sizes \in [1 .. n -> Nat], NEW values \in [1 .. n -> Nat],
           NEW payload \in Seq(Nat), NEW count \in Nat, NEW tag \in Nat, NEW length \in Nat,
           NEW unit \in Nat \ {0}, Sized(l, n, tag, sizes, length, unit, values),
           Counted(payload, unit, count), EncodeFrame(l, values, payload) # Refused
    PROVE  IsFrame(l, values, payload)
<1>1. ~(Len(payload) > l.unit * Most(l.length)) /\ Sensible(l, values)
  BY DEF EncodeFrame
<1>2. l.unit = unit /\ l.length = length
  BY DEF Sized
<1>3. PICK most \in Nat : most = Most(length)
  BY MostIs
<1>4. ~(unit * count > unit * most)
  BY <1>1, <1>2, <1>3, Zenon DEF Counted
<1>5. count <= most
  <2>1. PICK x \in Nat, y \in Nat : x = unit * count /\ y = unit * most
    OBVIOUS
  <2>2. ~(x > y)
    BY <1>4, <2>1, Zenon
  <2>3. x <= y
    BY <2>2
  <2>4. unit * count <= unit * most
    BY <2>1, <2>3, Zenon
  <2> QED BY <2>4, TimesAtMost
<1>6. Framed(l, n, tag, sizes, length, unit, values, payload, count)
  BY <1>1, <1>3, <1>5, Zenon DEF Framed, Sized, Counted
<1> QED BY <1>6, Zenon DEF IsFrame

LEMMA SchemaFrame ==
    ASSUME NEW r, IsRegistry(r), EncodeFrame(SchemaLayout, << 1 >>, SchemaTable(r)) # Refused
    PROVE  IsFrame(SchemaLayout, << 1 >>, SchemaTable(r))
<1>1. PICK word \in Nat \ {0}, half \in Nat \ {0} : word = Word /\ half = Half
  BY BaseIs
<1>2. PICK unit \in Nat \ {0} : unit = word + half
  OBVIOUS
<1>3. PICK c \in Nat : c = Cardinality(DOMAIN r)
  BY RegistryIs
<1>4. PICK table \in Seq(Nat) : table = SchemaTable(r) /\ Len(table) = unit * c
  <2>1. SchemaTable(r) \in Seq(Nat) /\ Len(SchemaTable(r)) = (Word + Half) * Cardinality(DOMAIN r)
    BY TableIs
  <2> QED BY <1>1, <1>2, <1>3, <2>1, Zenon
<1>5. PICK sizes \in [1 .. 1 -> Nat], values \in [1 .. 1 -> Nat] :
         sizes = <<word>> /\ values = << 1 >> /\ sizes[1] = word /\ values[1] = 1
  <2>1. <<word>> \in [1 .. 1 -> Nat] /\ << 1 >> \in [1 .. 1 -> Nat] /\ <<word>>[1] = word /\ << 1 >>[1] = 1
    OBVIOUS
  <2> QED BY <2>1, Zenon
<1>6. PICK l : l = SchemaLayout
  OBVIOUS
<1>7. l.tag = 2 /\ l.sizes = sizes /\ l.length = half /\ l.unit = unit
  <2>1. l.tag = 2 /\ l.sizes = <<Word>> /\ l.length = Half /\ l.unit = Word + Half
    BY <1>6 DEF SchemaLayout
  <2> QED BY <1>1, <1>2, <1>5, <2>1, Zenon
<1>8. ASSUME NEW i \in 1 .. 1
      PROVE  values[i] \in 0 .. Most(sizes[i]) /\ Understood(l, i, values[i]) = values[i]
  <2>1. values[i] = 1 /\ sizes[i] = word /\ 1 \in 0 .. Most(word)
    BY <1>5, MostAtLeast
  <2>2. Understood(l, i, values[i]) = values[i]
    BY <1>7 DEF Understood, EditLayout, AckLayout
  <2> QED BY <2>1, <2>2
<1>9. Sized(l, 1, 2, sizes, half, unit, values)
  BY <1>7, <1>8, Zenon DEF Sized
<1>10. EncodeFrame(l, values, table) # Refused
  BY <1>4, <1>5, <1>6, Zenon
<1>11. Counted(table, unit, c)
  BY <1>4, Zenon DEF Counted
<1>12. IsFrame(l, values, table)
  BY <1>9, <1>10, <1>11, FrameOf
<1> QED BY <1>4, <1>5, <1>6, <1>12, Zenon

LEMMA SnapshotFrame ==
    ASSUME NEW s \in 0 .. Most(Word), NEW t \in 0 .. Most(Word), NEW payload \in Seq(Nat),
           EncodeFrame(SnapshotLayout, <<s, 1, t>>, payload) # Refused
    PROVE  IsFrame(SnapshotLayout, <<s, 1, t>>, payload)
<1>1. PICK word \in Nat \ {0}, half \in Nat \ {0} : word = Word /\ half = Half
  BY BaseIs
<1>2. s \in Nat /\ t \in Nat /\ 1 \in 0 .. Most(word)
  BY MostAtLeast, BaseIs
<1>3. PICK count \in Nat : Counted(payload, 1, count)
  <2>1. Len(payload) \in Nat /\ Len(payload) = 1 * Len(payload)
    OBVIOUS
  <2> QED BY <2>1, Zenon DEF Counted
<1>4. PICK sizes \in [1 .. 3 -> Nat], values \in [1 .. 3 -> Nat] :
         /\ sizes = <<word, word, word>> /\ values = <<s, 1, t>>
         /\ \A i \in 1 .. 3 : sizes[i] = word /\ values[i] \in {s, 1, t}
  <2>1. /\ <<word, word, word>> \in [1 .. 3 -> Nat] /\ <<s, 1, t>> \in [1 .. 3 -> Nat]
        /\ \A i \in 1 .. 3 : <<word, word, word>>[i] = word /\ <<s, 1, t>>[i] \in {s, 1, t}
    BY <1>2
  <2> QED BY <2>1, Zenon
<1>5. PICK l : l = SnapshotLayout
  OBVIOUS
<1>6. l.tag = 1 /\ l.sizes = sizes /\ l.length = half /\ l.unit = 1
  <2>1. l.tag = 1 /\ l.sizes = <<Word, Word, Word>> /\ l.length = Half /\ l.unit = 1
    BY <1>5 DEF SnapshotLayout
  <2> QED BY <1>1, <1>4, <2>1, Zenon
<1>7. ASSUME NEW i \in 1 .. 3
      PROVE  values[i] \in 0 .. Most(sizes[i]) /\ Understood(l, i, values[i]) = values[i]
  <2>1. sizes[i] = word /\ values[i] \in {s, 1, t}
    BY <1>4
  <2>2. values[i] \in 0 .. Most(word)
    BY <1>1, <1>2, <2>1
  <2>3. Understood(l, i, values[i]) = values[i]
    BY <1>6 DEF Understood, EditLayout, AckLayout
  <2> QED BY <2>1, <2>2, <2>3, Zenon
<1>8. Sized(l, 3, 1, sizes, half, 1, values)
  BY <1>6, <1>7, Zenon DEF Sized
<1>9. EncodeFrame(l, values, payload) # Refused
  BY <1>4, <1>5, Zenon
<1>10. IsFrame(l, values, payload)
  <2>1. 3 \in Nat /\ 1 \in Nat /\ half \in Nat /\ 1 \in Nat \ {0}
    OBVIOUS
  <2> QED BY <1>3, <1>8, <1>9, <2>1, FrameOf, Zenon
<1> QED BY <1>4, <1>5, <1>10, Zenon

LEMMA EditFrame ==
    ASSUME NEW s \in 0 .. Most(Word), NEW t \in 0 .. Most(Word), NEW payload \in Seq(Nat),
           EncodeFrame(EditLayout, <<0, s, 1, 2, 1, t, 5>>, payload) # Refused
    PROVE  IsFrame(EditLayout, <<0, s, 1, 2, 1, t, 5>>, payload)
<1>1. PICK word \in Nat \ {0}, half \in Nat \ {0}, long \in Nat \ {0} :
         word = Word /\ half = Half /\ long = Long /\ word <= long
  BY BaseIs
<1>2. /\ s \in 0 .. Most(word) /\ s \in 0 .. Most(long) /\ t \in 0 .. Most(word) /\ s \in Nat /\ t \in Nat
      /\ \A x \in {0, 1, 2, 5}, n \in {1, word, long} : x \in 0 .. Most(n)
  <2>1. s \in 0 .. Most(word) /\ t \in 0 .. Most(word)
    BY <1>1
  <2>2. Most(word) <= Most(long) /\ Most(word) \in Nat /\ Most(long) \in Nat
    BY <1>1, MostGrows, MostIs
  <2>3. \A n \in {1, word, long} : Most(n) \in Nat /\ Most(n) >= 15
    <3>1. \A n \in {1, word, long} : n \in Nat \ {0}
      OBVIOUS
    <3> QED BY <3>1, MostAtLeast
  <2> QED BY <2>1, <2>2, <2>3
<1>3. PICK count \in Nat : Counted(payload, 1, count)
  <2>1. Len(payload) \in Nat /\ Len(payload) = 1 * Len(payload)
    OBVIOUS
  <2> QED BY <2>1, Zenon DEF Counted
<1>4. PICK sizes \in [1 .. 7 -> Nat], values \in [1 .. 7 -> Nat] :
         /\ sizes = <<1, long, word, 1, word, word, long>> /\ values = <<0, s, 1, 2, 1, t, 5>>
         /\ sizes[1] = 1 /\ sizes[2] = long /\ sizes[3] = word /\ sizes[4] = 1
         /\ sizes[5] = word /\ sizes[6] = word /\ sizes[7] = long
         /\ values[1] = 0 /\ values[2] = s /\ values[3] = 1 /\ values[4] = 2
         /\ values[5] = 1 /\ values[6] = t /\ values[7] = 5
  <2>1. PICK x : x = <<1, long, word, 1, word, word, long>>
    OBVIOUS
  <2>2. /\ x \in [1 .. 7 -> Nat] /\ x[1] = 1 /\ x[2] = long /\ x[3] = word /\ x[4] = 1
        /\ x[5] = word /\ x[6] = word /\ x[7] = long
    BY <2>1
  <2>3. PICK y : y = <<0, s, 1, 2, 1, t, 5>>
    OBVIOUS
  <2>4. /\ y \in [1 .. 7 -> Nat] /\ y[1] = 0 /\ y[2] = s /\ y[3] = 1 /\ y[4] = 2
        /\ y[5] = 1 /\ y[6] = t /\ y[7] = 5
    BY <1>2, <2>3
  <2> QED BY <2>1, <2>2, <2>3, <2>4, Zenon
<1>5. PICK l : l = EditLayout
  OBVIOUS
<1>6. l.tag = 3 /\ l.sizes = sizes /\ l.length = half /\ l.unit = 1
  <2>1. l.tag = 3 /\ l.sizes = <<1, Long, Word, 1, Word, Word, Long>> /\ l.length = Half /\ l.unit = 1
    BY <1>5 DEF EditLayout
  <2> QED BY <1>1, <1>4, <2>1, Zenon
<1>7. ASSUME NEW i \in 1 .. 7
      PROVE  values[i] \in 0 .. Most(sizes[i]) /\ Understood(l, i, values[i]) = values[i]
  <2>1. values[i] \in 0 .. Most(sizes[i])
    <3>1. i \in {1, 2, 3, 4, 5, 6, 7}
      OBVIOUS
    <3>2. /\ values[1] \in 0 .. Most(sizes[1]) /\ values[2] \in 0 .. Most(sizes[2])
          /\ values[3] \in 0 .. Most(sizes[3]) /\ values[4] \in 0 .. Most(sizes[4])
          /\ values[5] \in 0 .. Most(sizes[5]) /\ values[6] \in 0 .. Most(sizes[6])
          /\ values[7] \in 0 .. Most(sizes[7])
      BY <1>2, <1>4
    <3> QED BY <3>1, <3>2, Zenon
  <2>2. Understood(l, i, values[i]) = values[i]
    <3>1. ~(i = 4 /\ values[i] > 3)
      BY <1>4
    <3>2. l.tag # AckLayout.tag
      BY <1>6 DEF AckLayout
    <3> QED BY <3>1, <3>2 DEF Understood
  <2> QED BY <2>1, <2>2
<1>8. Sized(l, 7, 3, sizes, half, 1, values)
  BY <1>6, <1>7, Zenon DEF Sized
<1>9. EncodeFrame(l, values, payload) # Refused
  BY <1>4, <1>5, Zenon
<1>10. IsFrame(l, values, payload)
  <2>1. 7 \in Nat /\ 3 \in Nat /\ half \in Nat /\ 1 \in Nat \ {0}
    OBVIOUS
  <2> QED BY <1>3, <1>8, <1>9, <2>1, FrameOf, Zenon
<1> QED BY <1>4, <1>5, <1>10, Zenon

LEMMA MessageFrame ==
    ASSUME NEW m \in Messages, EncodeFrame(m.layout, m.values, m.payload) # Refused
    PROVE  IsFrame(m.layout, m.values, m.payload)
<1>1. PICK l : l = m.layout
  OBVIOUS
<1>2. /\ l \in {WelcomeLayout, AnnounceLayout, ChunkLayout, AckLayout}
      /\ m.payload \in Seq(Nat) /\ m.values \in Seq(Nat) /\ Len(m.values) = Len(l.sizes)
      /\ \A i \in DOMAIN m.values : /\ m.values[i] <= Most(l.sizes[i])
                                    /\ Understood(l, i, m.values[i]) = m.values[i]
  BY <1>1, MessagesAssumption, Zenon
<1>3. PICK payload \in Seq(Nat) : payload = m.payload
  BY <1>2
<1>4. PICK count \in Nat : Counted(payload, 1, count)
  <2>1. Len(payload) \in Nat /\ Len(payload) = 1 * Len(payload)
    OBVIOUS
  <2> QED BY <2>1, Zenon DEF Counted
<1>5. l.tag \in Nat /\ l.length \in Nat /\ l.sizes \in Seq(Nat) /\ l.unit = 1
  <2>1. Word \in Nat /\ Half \in Nat
    BY BaseIs
  <2>2. CASE l = WelcomeLayout
    BY <2>1, <2>2 DEF WelcomeLayout
  <2>3. CASE l = AnnounceLayout
    BY <2>1, <2>3 DEF AnnounceLayout
  <2>4. CASE l = ChunkLayout
    BY <2>1, <2>4 DEF ChunkLayout
  <2>5. CASE l = AckLayout
    BY <2>1, <2>5 DEF AckLayout
  <2> QED BY <1>2, <2>2, <2>3, <2>4, <2>5
<1>6. PICK sizes \in Seq(Nat), v \in Seq(Nat), tag \in Nat, length \in Nat :
         sizes = l.sizes /\ v = m.values /\ tag = l.tag /\ length = l.length
  BY <1>2, <1>5, Zenon
<1>7. PICK n \in Nat : n = Len(sizes)
  OBVIOUS
<1>8. Len(v) = n
  BY <1>2, <1>6, <1>7, Zenon
<1>9. sizes \in [1 .. n -> Nat] /\ v \in [1 .. n -> Nat] /\ DOMAIN v = 1 .. n
  BY <1>7, <1>8
<1>10. \A i \in 1 .. n : v[i] \in 0 .. Most(sizes[i]) /\ Understood(l, i, v[i]) = v[i]
  <2>1. ASSUME NEW i \in 1 .. n PROVE v[i] \in 0 .. Most(sizes[i]) /\ Understood(l, i, v[i]) = v[i]
    <3>1. v[i] <= Most(sizes[i]) /\ Understood(l, i, v[i]) = v[i]
      BY <1>2, <1>6, <1>9, Zenon
    <3>2. v[i] \in Nat /\ sizes[i] \in Nat
      BY <1>9
    <3>3. Most(sizes[i]) \in Nat
      BY <3>2, MostIs
    <3> QED BY <3>1, <3>2, <3>3
  <2> QED BY <2>1
<1>11. Sized(l, n, tag, sizes, length, 1, v)
  BY <1>5, <1>6, <1>10, Zenon DEF Sized
<1>12. EncodeFrame(l, v, payload) # Refused
  BY <1>1, <1>3, <1>6, Zenon
<1>13. IsFrame(l, v, payload)
  BY <1>4, <1>9, <1>11, <1>12, FrameOf
<1> QED BY <1>1, <1>3, <1>6, <1>13, Zenon

-----------------------------------------------------------------------------
(* Every action keeps the invariant. *)

\* A component of what was sent and one of what was meant.
Close(field, x, y) ==
    IF field.kind = "quantized" THEN 2 * (x - y) \in -field.step .. field.step ELSE x = y

LEMMA CloseIs ==
    AllOrNothing <=> \A t \in DOMAIN receiver : \A i \in DOMAIN receiver[t] :
                        Close(build.there[t].fields[i], receiver[t][i], meant[t][i])
BY Zenon DEF AllOrNothing, Close

LEMMA CloseSame ==
    ASSUME NEW field \in FieldTypes, NEW x \in Int
    PROVE  Close(field, x, x)
<1>1. PICK step \in Nat : step = field.step
  BY DEF FieldTypes
<1>2. 2 * (x - x) \in -step .. step
  OBVIOUS
<1> QED BY <1>1, <1>2, Zenon DEF Close

LEMMA CloseDecoded ==
    ASSUME NEW field \in FieldTypes, NEW v, HasType(field, v)
    PROVE  Close(field, Decoded(field, v), v)
<1>1. PICK step \in Nat \ {0} : step = field.step
  BY DEF FieldTypes
<1>2. v \in Int
  BY FieldIs
<1>3. 2 * (Rounded(v, step) * step - v) \in -step .. step
  BY <1>2, RoundedIs
<1> QED BY <1>1, <1>3, Zenon DEF Close, Decoded

LEMMA FieldsAre ==
    ASSUME NEW m \in Metas
    PROVE  /\ m.fields \in Seq(FieldTypes) /\ Len(m.fields) \in Nat /\ DOMAIN m.fields = 1 .. Len(m.fields)
           /\ \A i \in DOMAIN m.fields : m.fields[i] \in FieldTypes
<1>1. m.fields \in Seq(FieldTypes)
  BY DEF Metas
<1>2. PICK f \in Seq(FieldTypes) : f = m.fields
  BY <1>1
<1>3. Len(f) \in Nat /\ DOMAIN f = 1 .. Len(f) /\ \A i \in DOMAIN f : f[i] \in FieldTypes
  OBVIOUS
<1> QED BY <1>2, <1>3, Zenon

LEMMA BuildIs ==
    ASSUME build \in Builds
    PROVE  /\ IsRegistry(build.here) /\ IsRegistry(build.there)
           /\ \A t \in DOMAIN build.here : build.here[t] \in Metas /\ t \in 0 .. Most(Word)
           /\ \A t \in DOMAIN build.there : build.there[t] \in Metas
           /\ \A t \in DOMAIN build.here \cap DOMAIN build.there :
                 build.here[t].version = build.there[t].version => build.here[t] = build.there[t]
           /\ \A t \in DOMAIN build.here, k \in SampleIds : Instance(build.here[t], Sample(build.here[t], k))
           /\ \A t \in DOMAIN build.there : Instance(build.there[t], Sample(build.there[t], 1))
<1>1. /\ IsRegistry(build.here) /\ IsRegistry(build.there)
      /\ \A t \in DOMAIN build.here \cap DOMAIN build.there :
           build.here[t].version = build.there[t].version => build.here[t] = build.there[t]
      /\ \A t \in DOMAIN build.here, k \in SampleIds : Instance(build.here[t], Sample(build.here[t], k))
      /\ \A t \in DOMAIN build.there : Instance(build.there[t], Sample(build.there[t], 1))
  BY BuildsAssumption
<1>2. \A t \in DOMAIN build.here : build.here[t] \in Metas /\ t \in 0 .. Most(Word)
  BY <1>1, RegistryIs
<1>3. \A t \in DOMAIN build.there : build.there[t] \in Metas
  BY <1>1, RegistryIs
<1> QED BY <1>1, <1>2, <1>3, Zenon

\* The elements of a component of the receiver.
LEMMA HeldIs ==
    ASSUME build \in Builds, NEW f, Held(build, f), NEW t \in DOMAIN build.there
    PROVE  /\ f[t] \in Seq(Int) /\ DOMAIN f[t] = DOMAIN build.there[t].fields
           /\ f[t] \in [DOMAIN build.there[t].fields -> Int]
           /\ \A i \in DOMAIN f[t] : f[t][i] \in Int /\ build.there[t].fields[i] \in FieldTypes
<1>1. PICK m \in Metas : m = build.there[t]
  BY BuildIs
<1>2. PICK s \in Seq(Int) : s = f[t]
  BY DEF Held
<1>3. Len(s) = Len(m.fields)
  BY <1>1, <1>2, Zenon DEF Held
<1>4. DOMAIN s = 1 .. Len(s) /\ s \in [1 .. Len(s) -> Int]
  OBVIOUS
<1>5. DOMAIN s = DOMAIN m.fields /\ s \in [DOMAIN m.fields -> Int]
  BY <1>3, <1>4, FieldsAre, Zenon
<1>6. \A i \in DOMAIN s : s[i] \in Int /\ m.fields[i] \in FieldTypes
  BY <1>5, FieldsAre
<1> QED BY <1>1, <1>2, <1>5, <1>6, Zenon

LEMMA InitHolds == Init => IInv
<1> SUFFICES ASSUME Init PROVE IInv
  OBVIOUS
<1>1. /\ build \in Builds /\ link = "none" /\ wire = Nothing /\ sends = 0 /\ heard = Nothing
      /\ receiver = [t \in DOMAIN build.there |-> Sample(build.there[t], 1)] /\ meant = receiver
  BY DEF Init
<1>2. Held(build, receiver)
  <2>1. \A t \in DOMAIN build.there :
           Sample(build.there[t], 1) \in Seq(Int) /\ Len(Sample(build.there[t], 1)) = Len(build.there[t].fields)
    BY <1>1, BuildIs DEF Instance
  <2> QED BY <1>1, <2>1 DEF Held
<1>3. TypeOK
  BY <1>1, <1>2, MessagesAssumption DEF TypeOK
<1>4. AllOrNothing
  <2>1. ASSUME NEW t \in DOMAIN receiver, NEW i \in DOMAIN receiver[t]
        PROVE  Close(build.there[t].fields[i], receiver[t][i], meant[t][i])
    <3>1. t \in DOMAIN build.there
      BY <1>1
    <3>2. receiver[t][i] \in Int /\ build.there[t].fields[i] \in FieldTypes
      BY <1>1, <1>2, <3>1, HeldIs
    <3> QED BY <1>1, <3>2, CloseSame
  <2> QED BY <2>1, CloseIs
<1>5. ReadAsWritten
  BY <1>1 DEF ReadAsWritten
<1> QED BY <1>3, <1>4, <1>5 DEF IInv

\* What is said is under way.
LEMMA SaysHolds ==
    ASSUME IInv, NEW kind \in {"schema", "component", "other"}, NEW l, NEW values, NEW payload, NEW more,
           Says(kind, l, values, payload, more), sends' \in 0 .. MaxSends,
           IsFrame(l, values, payload),
           kind = "schema" => l = SchemaLayout /\ payload = SchemaTable(build.here),
           kind = "component" => Carries(build, more, payload)
    PROVE  IInv'
<1>1. PICK bytes \in Seq(Nat) : bytes = EncodeFrame(l, values, payload)
  BY FrameParses
<1>2. PICK said : said = [values |-> values, payload |-> payload]
  OBVIOUS
<1>3. /\ wire' = [kind |-> kind, layout |-> l, said |-> said, more |-> more, bytes |-> bytes]
      /\ UNCHANGED <<build, link, receiver, meant, heard>>
  BY <1>1, <1>2, Zenon DEF Says
<1>4. PICK w : w = wire'
  OBVIOUS
<1>5. w.kind = kind /\ w.layout = l /\ w.said = said /\ w.more = more /\ w.bytes = bytes
  BY <1>3, <1>4
<1>6. said # Refused /\ said.payload = payload
  BY <1>2 DEF Refused
<1>7. Parses(l, bytes, said)
  BY <1>1, <1>2, FrameParses, Zenon
<1>8. UnderWay(build, w)
  BY <1>5, <1>6, <1>7 DEF UnderWay
<1>9. TypeOK'
  BY <1>3, <1>4, <1>8 DEF IInv, TypeOK
<1>10. AllOrNothing'
  BY <1>3 DEF IInv, AllOrNothing
<1>11. ReadAsWritten'
  BY <1>3 DEF IInv, ReadAsWritten
<1> QED BY <1>9, <1>10, <1>11 DEF IInv

LEMMA GreetHolds == ASSUME IInv, Greet PROVE IInv'
<1>1. /\ build \in Builds /\ sends' = sends /\ sends \in 0 .. MaxSends
      /\ Says("schema", SchemaLayout, << 1 >>, SchemaTable(build.here), Nothing)
  BY DEF Greet, IInv, TypeOK
<1>2. IsFrame(SchemaLayout, << 1 >>, SchemaTable(build.here))
  <2>1. EncodeFrame(SchemaLayout, << 1 >>, SchemaTable(build.here)) # Refused
    BY <1>1 DEF Says
  <2> QED BY <1>1, <2>1, BuildIs, SchemaFrame
<1> QED BY <1>1, <1>2, SaysHolds

LEMMA SendsIs == ASSUME IInv, Sends PROVE sends' \in 0 .. MaxSends /\ sends \in 0 .. Most(Word)
<1>1. sends \in 0 .. MaxSends /\ sends < MaxSends /\ sends' = sends + 1
  BY DEF IInv, TypeOK, Sends
<1>2. MaxSends \in Nat /\ MaxSends <= Most(Word) + 1 /\ Most(Word) \in Nat
  BY MessagesAssumption, BaseIs, MostIs
<1> QED BY <1>1, <1>2

LEMMA SendHolds ==
    ASSUME IInv, NEW t \in DOMAIN build.here, NEW k \in SampleIds,
           NEW mask \in SUBSET DOMAIN build.here[t].fields, Send(t, k, mask)
    PROVE  IInv'
<1>1. build \in Builds
  BY DEF IInv, TypeOK
<1>20. PICK m \in Metas : m = build.here[t] /\ Instance(m, Sample(m, k))
  <2>1. build.here[t] \in Metas /\ Instance(build.here[t], Sample(build.here[t], k))
    BY <1>1, BuildIs
  <2> QED BY <2>1, Zenon
<1>21. PICK s : s = Sample(m, k)
  OBVIOUS
<1>2. m = build.here[t] /\ s = Sample(m, k) /\ Instance(m, s)
  BY <1>20, <1>21, Zenon
<1>3. t \in 0 .. Most(Word)
  BY <1>1, BuildIs
<1>4. PICK snapshot \in Seq(Nat) : snapshot = EncodeSnapshot(m, s, mask)
  BY <1>2, SnapshotBytes
<1>5. Sends
  BY Zenon DEF Send
<1>6. PICK n \in 0 .. Len(snapshot) :
        LET more == [type |-> t, mask |-> mask, instance |-> s, whole |-> n = Len(snapshot)]
            sent == SubSeq(snapshot, 1, n)
        IN  \/ Says("component", SnapshotLayout, <<sends, 1, t>>, sent, more)
            \/ Says("component", EditLayout, <<0, sends, 1, 2, 1, t, 5>>, sent, more)
  BY <1>2, <1>4, Zenon DEF Send
<1>7. PICK more : more = [type |-> t, mask |-> mask, instance |-> s, whole |-> n = Len(snapshot)]
  OBVIOUS
<1>8. more.type = t /\ more.mask = mask /\ more.instance = s /\ more.whole = (n = Len(snapshot))
  BY <1>7
<1>9. PICK sent \in Seq(Nat) : sent = SubSeq(snapshot, 1, n)
  BY PrefixAgrees
<1>10. Carries(build, more, sent)
  BY <1>2, <1>4, <1>8, <1>9, Zenon DEF Carries
<1>11. sends' \in 0 .. MaxSends /\ sends \in 0 .. Most(Word)
  BY <1>5, SendsIs
<1>12. CASE Says("component", SnapshotLayout, <<sends, 1, t>>, sent, more)
  <2>1. EncodeFrame(SnapshotLayout, <<sends, 1, t>>, sent) # Refused
    BY <1>12 DEF Says
  <2>2. IsFrame(SnapshotLayout, <<sends, 1, t>>, sent)
    BY <1>3, <1>11, <2>1, SnapshotFrame
  <2> QED BY <1>10, <1>11, <1>12, <2>2, SaysHolds
<1>13. CASE Says("component", EditLayout, <<0, sends, 1, 2, 1, t, 5>>, sent, more)
  <2>1. EncodeFrame(EditLayout, <<0, sends, 1, 2, 1, t, 5>>, sent) # Refused
    BY <1>13 DEF Says
  <2>2. IsFrame(EditLayout, <<0, sends, 1, 2, 1, t, 5>>, sent)
    BY <1>3, <1>11, <2>1, EditFrame
  <2> QED BY <1>10, <1>11, <1>13, <2>2, SaysHolds
<1> QED BY <1>6, <1>7, <1>9, <1>12, <1>13, Zenon

LEMMA TellHolds == ASSUME IInv, NEW m \in Messages, Tell(m) PROVE IInv'
<1>1. Sends /\ Says("other", m.layout, m.values, m.payload, Nothing)
  BY DEF Tell
<1>2. IsFrame(m.layout, m.values, m.payload)
  <2>1. EncodeFrame(m.layout, m.values, m.payload) # Refused
    BY <1>1 DEF Says
  <2> QED BY <2>1, MessageFrame
<1>3. sends' \in 0 .. MaxSends
  BY <1>1, SendsIs
<1> QED BY <1>1, <1>2, <1>3, SaysHolds

LEMMA SaveHolds == ASSUME IInv, NEW w \in Worlds, Save(w) PROVE IInv'
<1>1. Sends /\ UNCHANGED <<build, link, receiver, meant, heard>>
  BY DEF Save
<1>2. sends' \in 0 .. MaxSends
  BY <1>1, SendsIs
<1>3. PICK x : x = wire'
  OBVIOUS
<1>4. x.kind = "world" /\ x.said = w /\ x.bytes = EncodeWorld(w)
  BY <1>3 DEF Save
<1>5. IsWorld(w) /\ EncodeWorld(w) \in Seq(Nat)
  BY MessagesAssumption, WorldIs
<1>6. UnderWay(build, x)
  BY <1>4, <1>5 DEF UnderWay
<1>7. TypeOK'
  BY <1>1, <1>2, <1>3, <1>6 DEF IInv, TypeOK
<1>8. AllOrNothing'
  BY <1>1 DEF IInv, AllOrNothing
<1>9. ReadAsWritten'
  BY <1>1 DEF IInv, ReadAsWritten
<1> QED BY <1>7, <1>8, <1>9 DEF IInv

\* What the receiver keeps of what it reads.
LEMMA HearsHolds ==
    ASSUME IInv, wire # Nothing, NEW n \in 0 .. Len(wire.bytes), NEW bytes, bytes = SubSeq(wire.bytes, 1, n),
           wire.kind # "world"
    PROVE  /\ ParseFrame(wire.layout, bytes) = IF bytes = wire.bytes THEN wire.said ELSE Refused
           /\ wire.said # Refused
<1>1. UnderWay(build, wire)
  BY DEF IInv, TypeOK
<1>2. Parses(wire.layout, wire.bytes, wire.said) /\ wire.said # Refused /\ wire.bytes \in Seq(Nat)
  BY <1>1 DEF UnderWay
<1>3. bytes = wire.bytes <=> n = Len(wire.bytes)
  BY <1>2, WholePrefix
<1>4. ParseFrame(wire.layout, SubSeq(wire.bytes, 1, n)) = IF n = Len(wire.bytes) THEN wire.said ELSE Refused
  BY <1>2, Zenon DEF Parses
<1> QED BY <1>2, <1>3, <1>4, Zenon

\* ReadAsWritten after a message that is no world.
LEMMA HeardHolds ==
    ASSUME IInv, NEW bytes, NEW got, Hears(bytes, got), UNCHANGED build, wire.kind # "world",
           got = IF bytes = wire.bytes THEN wire.said ELSE Refused,
           link' \in {"Ok", "ServerHasUnknown"} =>
              \A t \in DOMAIN build.here \cap DOMAIN build.there : build.here[t] = build.there[t]
    PROVE  ReadAsWritten' /\ wire' = Nothing
<1>1. PICK w : w = wire
  OBVIOUS
<1>2. PICK h : h = heard'
  OBVIOUS
<1>3. h = [of |-> w, bytes |-> bytes, got |-> got]
  BY <1>1, <1>2, Zenon DEF Hears
<1>4. h.of = w /\ h.bytes = bytes /\ h.got = got
  BY <1>3
<1>5. heard'.got = IF heard'.bytes = heard'.of.bytes THEN heard'.of.said ELSE Refused
  BY <1>1, <1>2, <1>4, Zenon
<1>6. ~(heard'.of.kind = "world")
  BY <1>1, <1>2, <1>4, Zenon
<1>7. wire' = Nothing
  BY DEF Hears
<1>8. ReadAsWritten'
  BY <1>5, <1>6, Zenon DEF ReadAsWritten
<1> QED BY <1>7, <1>8

LEMMA HearOtherHolds ==
    ASSUME IInv, wire # Nothing, NEW n \in 0 .. Len(wire.bytes), HearOther(SubSeq(wire.bytes, 1, n))
    PROVE  IInv'
<1>1. PICK b : b = SubSeq(wire.bytes, 1, n)
  OBVIOUS
<1>2. wire.kind = "other" /\ Hears(b, ParseFrame(wire.layout, b))
      /\ UNCHANGED <<build, link, receiver, meant, sends>>
  BY <1>1, Zenon DEF HearOther
<1>3. ParseFrame(wire.layout, b) = IF b = wire.bytes THEN wire.said ELSE Refused
  BY <1>1, <1>2, HearsHolds
<1>4. ReadAsWritten' /\ wire' = Nothing
  <2>1. wire.kind # "world" /\ UNCHANGED build
    BY <1>2
  <2>2. link' \in {"Ok", "ServerHasUnknown"} =>
              \A t \in DOMAIN build.here \cap DOMAIN build.there : build.here[t] = build.there[t]
    BY <1>2 DEF IInv, ReadAsWritten
  <2> QED BY <1>2, <1>3, <2>1, <2>2, HeardHolds
<1>5. TypeOK'
  BY <1>2, <1>4 DEF IInv, TypeOK
<1>6. AllOrNothing'
  BY <1>2 DEF IInv, AllOrNothing
<1> QED BY <1>4, <1>5, <1>6 DEF IInv

LEMMA HearGreetingHolds ==
    ASSUME IInv, wire # Nothing, NEW n \in 0 .. Len(wire.bytes), HearGreeting(SubSeq(wire.bytes, 1, n))
    PROVE  IInv'
<1>1. PICK b : b = SubSeq(wire.bytes, 1, n)
  OBVIOUS
<1>20. PICK got : got = ParseFrame(SchemaLayout, b)
  OBVIOUS
<1>2. wire.kind = "schema" /\ Hears(b, got) /\ UNCHANGED <<build, receiver, meant, sends>>
      /\ link' = IF got = Refused THEN "Mismatch" ELSE CompareSchemas(build.there, got.payload)
  BY <1>1, <1>20, Zenon DEF HearGreeting
<1>3. wire.layout = SchemaLayout /\ wire.said.payload = SchemaTable(build.here)
  BY <1>2 DEF IInv, TypeOK, UnderWay
<1>4. got = IF b = wire.bytes THEN wire.said ELSE Refused
  <2>1. wire.kind # "world"
    BY <1>2
  <2>2. ParseFrame(wire.layout, b) = IF b = wire.bytes THEN wire.said ELSE Refused
    BY <1>1, <2>1, HearsHolds
  <2> QED BY <1>3, <1>20, <2>2, Zenon
<1>5. ASSUME link' \in {"Ok", "ServerHasUnknown"}, NEW t \in DOMAIN build.here \cap DOMAIN build.there
      PROVE  build.here[t] = build.there[t]
  <2>1. got # Refused
    BY <1>2, <1>5
  <2>2. got.payload = SchemaTable(build.here)
    BY <1>3, <1>4, <2>1, Zenon
  <2>3. link' = CompareSchemas(build.there, SchemaTable(build.here))
    BY <1>2, <2>1, <2>2, Zenon
  <2>4. ~Drifted(build.there, SchemaTable(build.here))
    BY <1>5, <2>3 DEF CompareSchemas
  <2>5. build \in Builds
    BY DEF IInv, TypeOK
  <2>6. build.here[t].version = build.there[t].version
    BY <2>4, <2>5, BuildIs, NotDrifted
  <2> QED BY <2>5, <2>6, BuildIs
<1>6. ReadAsWritten' /\ wire' = Nothing
  <2>1. wire.kind # "world" /\ UNCHANGED build
    BY <1>2
  <2> QED BY <1>2, <1>4, <1>5, <2>1, HeardHolds
<1>7. TypeOK'
  BY <1>2, <1>6 DEF IInv, TypeOK
<1>8. AllOrNothing'
  BY <1>2 DEF IInv, AllOrNothing
<1> QED BY <1>6, <1>7, <1>8 DEF IInv

LEMMA LoadWorldHolds ==
    ASSUME IInv, wire # Nothing, NEW n \in 0 .. Len(wire.bytes), LoadWorld(SubSeq(wire.bytes, 1, n))
    PROVE  IInv'
<1>1. PICK b : b = SubSeq(wire.bytes, 1, n)
  OBVIOUS
<1>20. PICK got : got = DecodeWorld(build.there, b)
  OBVIOUS
<1>2. wire.kind = "world" /\ Hears(b, got) /\ UNCHANGED <<build, link, receiver, meant, sends>>
  BY <1>1, <1>20, Zenon DEF LoadWorld
<1>3. PICK w : w = wire
  OBVIOUS
<1>4. IsWorld(w.said) /\ w.bytes = EncodeWorld(w.said) /\ w.bytes \in Seq(Nat)
  <2>1. UnderWay(build, wire)
    BY DEF IInv, TypeOK
  <2> QED BY <1>2, <1>3, <2>1 DEF UnderWay
<1>5. PICK f \in Seq(Nat) : f = w.bytes
  BY <1>4
<1>6. n \in 0 .. Len(f)
  BY <1>3, <1>5
<1>7. b = SubSeq(f, 1, n)
  BY <1>1, <1>3, <1>5
<1>8. b \in Seq(Nat) /\ Len(b) = n /\ Agrees(b, 1, f) /\ (b = f <=> n = Len(f))
  BY <1>6, <1>7, PrefixAgrees, WholePrefix
<1>9. got = IF Len(f) <= Len(b) /\ Known(build.there, w.said.entities, Len(w.said.entities))
            THEN w.said ELSE Refused
  <2>1. Agrees(b, 1, EncodeWorld(w.said)) /\ f = EncodeWorld(w.said)
    BY <1>4, <1>5, <1>8, Zenon
  <2> QED BY <1>4, <1>8, <1>20, <2>1, WorldIs, Zenon
<1>10. Len(f) <= Len(b) <=> b = f
  BY <1>6, <1>8
<1>11. Known(build.there, w.said.entities, Len(w.said.entities))
       <=> \A i \in DOMAIN w.said.entities : w.said.entities[i].type \in DOMAIN build.there
  <2>1. PICK es \in Seq(Entities) : es = w.said.entities
    BY <1>4 DEF IsWorld
  <2>2. DOMAIN es = 1 .. Len(es)
    OBVIOUS
  <2> QED BY <2>1, <2>2, Zenon DEF Known
<1>12. PICK h : h = heard'
  OBVIOUS
<1>13. h.of = w /\ h.bytes = b /\ h.got = got
  <2>1. h = [of |-> w, bytes |-> b, got |-> got]
    BY <1>2, <1>3, <1>12, Zenon DEF Hears
  <2> QED BY <2>1
<1>14. wire' = Nothing
  BY <1>2 DEF Hears
<1>15. h.got = IF h.bytes = h.of.bytes
                  /\ (\A i \in DOMAIN h.of.said.entities : h.of.said.entities[i].type \in DOMAIN build.there)
               THEN h.of.said ELSE Refused
  BY <1>5, <1>9, <1>10, <1>11, <1>13, Zenon
<1>16. h.of.kind = "world"
  BY <1>2, <1>3, <1>13
<1>17. ReadAsWritten'
  <2>1. build' = build /\ link' = link
    BY <1>2
  <2>2. heard'.got = IF heard'.bytes = heard'.of.bytes
                  /\ (heard'.of.kind = "world" =>
                        \A i \in DOMAIN heard'.of.said.entities :
                           heard'.of.said.entities[i].type \in DOMAIN build'.there)
               THEN heard'.of.said ELSE Refused
    BY <1>12, <1>15, <1>16, <2>1, Zenon
  <2>3. link' \in {"Ok", "ServerHasUnknown"} =>
              \A t \in DOMAIN build'.here \cap DOMAIN build'.there : build'.here[t] = build'.there[t]
    BY <2>1 DEF IInv, ReadAsWritten
  <2> QED BY <2>2, <2>3, Zenon DEF ReadAsWritten
<1>18. TypeOK'
  BY <1>2, <1>14 DEF IInv, TypeOK
<1>19. AllOrNothing'
  BY <1>2 DEF IInv, AllOrNothing
<1> QED BY <1>17, <1>18, <1>19 DEF IInv

\* A component into which all of a snapshot was read, and what was meant.
Wanted(s, mask, want) == [i \in DOMAIN want |-> IF i \in mask THEN s[i] ELSE want[i]]
Across(m, new, next) ==
    /\ new \in Seq(Int) /\ next \in Seq(Int)
    /\ Len(new) = Len(m.fields) /\ Len(next) = Len(m.fields) /\ DOMAIN new = DOMAIN m.fields
    /\ \A i \in DOMAIN m.fields : Close(m.fields[i], new[i], next[i])

LEMMA MergedIs ==
    ASSUME NEW m \in Metas, NEW s, Instance(m, s), NEW mask \in SUBSET DOMAIN m.fields,
           NEW old \in [DOMAIN m.fields -> Int], NEW want \in [DOMAIN m.fields -> Int],
           \A i \in DOMAIN m.fields : Close(m.fields[i], old[i], want[i])
    PROVE  Across(m, Merged(m, old, s, mask), Wanted(s, mask, want))
<1>1. PICK n \in Nat : n = Len(m.fields) /\ DOMAIN m.fields = 1 .. n
  BY FieldsAre
<1>2. \A i \in 1 .. n : m.fields[i] \in FieldTypes /\ HasType(m.fields[i], s[i])
  BY <1>1, FieldsAre DEF Instance
<1>3. \A i \in 1 .. n : s[i] \in Int /\ Decoded(m.fields[i], s[i]) \in Int
  BY <1>2, FieldIs
<1>4. PICK got : got = Merged(m, old, s, mask)
  OBVIOUS
<1>40. PICK next : next = Wanted(s, mask, want)
  OBVIOUS
<1>5. got = [i \in 1 .. n |-> IF i \in mask THEN Decoded(m.fields[i], s[i]) ELSE old[i]]
  BY <1>1, <1>4 DEF Merged
<1>6. next = [i \in 1 .. n |-> IF i \in mask THEN s[i] ELSE want[i]]
  BY <1>1, <1>40 DEF Wanted
<1>7. got \in [1 .. n -> Int] /\ next \in [1 .. n -> Int]
  BY <1>1, <1>3, <1>5, <1>6
<1>8. got \in Seq(Int) /\ Len(got) = n /\ DOMAIN got = 1 .. n /\ next \in Seq(Int) /\ Len(next) = n
  BY <1>7, LenIs
<1>9. ASSUME NEW i \in 1 .. n PROVE Close(m.fields[i], got[i], next[i])
  <2>1. CASE i \in mask
    <3>1. got[i] = Decoded(m.fields[i], s[i]) /\ next[i] = s[i]
      BY <1>5, <1>6, <2>1
    <3> QED BY <1>2, <3>1, CloseDecoded
  <2>2. CASE i \notin mask
    <3>1. got[i] = old[i] /\ next[i] = want[i]
      BY <1>5, <1>6, <2>2
    <3> QED BY <1>1, <3>1
  <2> QED BY <2>1, <2>2
<1> QED BY <1>1, <1>4, <1>40, <1>8, <1>9, Zenon DEF Across

LEMMA HearComponentHolds ==
    ASSUME IInv, wire # Nothing, NEW n \in 0 .. Len(wire.bytes), HearComponent(SubSeq(wire.bytes, 1, n))
    PROVE  IInv'
<1>1. PICK b : b = SubSeq(wire.bytes, 1, n)
  OBVIOUS
<1>2. PICK got : got = ParseFrame(wire.layout, b)
  OBVIOUS
<1>3. PICK more : more = wire.more
  OBVIOUS
<1>4. PICK t : t = more.type
  OBVIOUS
<1>5. /\ wire.kind = "component" /\ Hears(b, got) /\ UNCHANGED <<build, link, sends>>
      /\ receiver' = IF got = Refused \/ t \notin DOMAIN build.there THEN receiver
                     ELSE [receiver EXCEPT ![t] =
                              Kept(receiver[t], DecodeSnapshot(build.there[t], receiver[t], got.payload))]
      /\ meant' = IF \/ b # wire.bytes \/ ~more.whole \/ t \notin DOMAIN build.there
                     \/ build.there[t] # build.here[t]
                  THEN meant ELSE [meant EXCEPT ![t] = [i \in DOMAIN meant[t] |->
                           IF i \in more.mask THEN more.instance[i] ELSE meant[t][i]]]
  BY <1>1, <1>2, <1>3, <1>4, Zenon DEF HearComponent
<1>6. build \in Builds /\ Held(build, receiver) /\ Held(build, meant) /\ sends \in 0 .. MaxSends
  BY DEF IInv, TypeOK
<1>7. Carries(build, more, wire.said.payload)
  BY <1>3, <1>5, Zenon DEF IInv, TypeOK, UnderWay
<1>8. got = (IF b = wire.bytes THEN wire.said ELSE Refused) /\ wire.said # Refused
  <2>1. wire.kind # "world"
    BY <1>5
  <2> QED BY <1>1, <1>2, <2>1, HearsHolds
<1>9. ReadAsWritten' /\ wire' = Nothing
  <2>1. wire.kind # "world" /\ UNCHANGED build
    BY <1>5
  <2>2. link' \in {"Ok", "ServerHasUnknown"} =>
              \A u \in DOMAIN build.here \cap DOMAIN build.there : build.here[u] = build.there[u]
    BY <1>5 DEF IInv, ReadAsWritten
  <2> QED BY <1>5, <1>8, <2>1, <2>2, HeardHolds
<1>10. ASSUME Held(build, receiver'), Held(build, meant') PROVE TypeOK'
  BY <1>5, <1>6, <1>9, <1>10 DEF TypeOK
<1>11. ASSUME receiver' = receiver, meant' = meant PROVE IInv'
  <2>1. TypeOK'
    BY <1>6, <1>10, <1>11
  <2>2. AllOrNothing'
    BY <1>5, <1>11 DEF IInv, AllOrNothing
  <2> QED BY <1>9, <2>1, <2>2 DEF IInv
<1>12. CASE b # wire.bytes
  <2>1. receiver' = receiver
    BY <1>5, <1>8, <1>12, Zenon
  <2>2. meant' = meant
    BY <1>5, <1>12, Zenon
  <2> QED BY <1>11, <2>1, <2>2
<1>13. CASE t \notin DOMAIN build.there
  <2>1. receiver' = receiver /\ meant' = meant
    BY <1>5, <1>13, Zenon
  <2> QED BY <1>11, <2>1
<1>14. CASE b = wire.bytes /\ t \in DOMAIN build.there
  <2>1. PICK m \in Metas : m = build.here[t]
    BY <1>4, <1>6, <1>7, BuildIs DEF Carries
  <2>2. PICK s : s = more.instance
    OBVIOUS
  <2>3. PICK mask \in SUBSET DOMAIN m.fields : mask = more.mask
    BY <1>4, <1>7, <2>1, Zenon DEF Carries
  <2>4. Instance(m, s)
    BY <1>4, <1>7, <2>1, <2>2, Zenon DEF Carries
  <2>5. PICK snapshot \in Seq(Nat) : snapshot = EncodeSnapshot(m, s, mask)
    BY <2>4, SnapshotBytes
  <2>6. PICK k \in 0 .. Len(snapshot) :
           wire.said.payload = SubSeq(snapshot, 1, k) /\ (more.whole <=> k = Len(snapshot))
    BY <1>4, <1>7, <2>1, <2>2, <2>3, <2>5, Zenon DEF Carries
  <2>7. PICK payload \in Seq(Nat) :
           payload = SubSeq(snapshot, 1, k) /\ Len(payload) = k /\ Agrees(payload, 1, snapshot)
    BY PrefixAgrees
  <2>8. got # Refused /\ got.payload = payload
    BY <1>8, <1>14, <2>6, <2>7, Zenon
  <2>9. PICK there \in Metas : there = build.there[t]
    BY <1>6, <1>14, BuildIs
  <2>10. PICK old \in Seq(Int), want \in Seq(Int) : old = receiver[t] /\ want = meant[t]
    BY <1>6, <1>14, HeldIs
  <2>11. PICK decoded : decoded = DecodeSnapshot(there, old, payload)
    OBVIOUS
  <2>12. receiver' = [receiver EXCEPT ![t] = IF decoded.ok THEN decoded.instance ELSE old]
    BY <1>5, <1>14, <2>8, <2>9, <2>10, <2>11, Zenon DEF Kept, Copied
  <2>13. Agrees(payload, 1, EncodeSnapshot(m, s, mask))
    BY <2>5, <2>7
  <2>14. ASSUME decoded.ok = FALSE PROVE receiver' = receiver
    <3>1. receiver' = [receiver EXCEPT ![t] = receiver[t]]
      BY <2>10, <2>12, <2>14, Zenon
    <3>2. receiver \in [DOMAIN build.there -> Seq(Int)]
      BY <1>6 DEF Held
    <3> QED BY <1>14, <3>1, <3>2
  <2>15. CASE there # m
    <3>1. there.version # m.version
      <4>1. t \in DOMAIN build.here \cap DOMAIN build.there
        BY <1>4, <1>7, <1>14 DEF Carries
      <4> QED BY <1>6, <2>1, <2>9, <2>15, <4>1, BuildIs, Zenon
    <3>2. decoded.ok = FALSE
      BY <2>4, <2>11, <2>13, <3>1, DriftedSnapshot
    <3>3. meant' = meant
      BY <1>5, <2>1, <2>9, <2>15, Zenon
    <3> QED BY <1>11, <2>14, <3>2, <3>3
  <2>16. CASE there = m
    <3>1. old \in [DOMAIN m.fields -> Int] /\ want \in [DOMAIN m.fields -> Int]
      BY <1>6, <1>14, <2>9, <2>10, <2>16, HeldIs
    <3>2. IF Len(EncodeSnapshot(m, s, mask)) <= Len(payload)
           THEN /\ DecodeSnapshot(m, old, payload).ok
                /\ DecodeSnapshot(m, old, payload).instance = Merged(m, old, s, mask)
           ELSE ~DecodeSnapshot(m, old, payload).ok
      BY <2>4, <2>13, <3>1, SnapshotIs
    <3>3. IF Len(snapshot) <= Len(payload)
           THEN decoded.ok /\ decoded.instance = Merged(m, old, s, mask)
           ELSE ~decoded.ok
      BY <2>5, <2>11, <2>16, <3>2, Zenon
    <3>4. Len(snapshot) <= Len(payload) <=> more.whole
      BY <2>6, <2>7
    <3>5. CASE ~more.whole
      <4>1. meant' = meant
        BY <1>5, <3>5, Zenon
      <4>2. ~decoded.ok
        BY <3>3, <3>4, <3>5, Zenon
      <4>3. receiver' = receiver
        <5>1. receiver' = [receiver EXCEPT ![t] = receiver[t]]
          BY <2>10, <2>12, <4>2, Zenon
        <5>2. receiver \in [DOMAIN build.there -> Seq(Int)]
          BY <1>6 DEF Held
        <5> QED BY <1>14, <5>1, <5>2
      <4> QED BY <1>11, <4>1, <4>3
    <3>6. CASE more.whole
      <4>1. PICK new : new = Merged(m, old, s, mask)
        OBVIOUS
      <4>2. PICK next : next = Wanted(s, mask, want)
        OBVIOUS
      <4>3. receiver' = [receiver EXCEPT ![t] = new]
        BY <2>12, <3>3, <3>4, <3>6, <4>1, Zenon
      <4>4. meant' = [meant EXCEPT ![t] = next]
        BY <1>5, <1>14, <2>1, <2>2, <2>3, <2>9, <2>10, <2>16, <3>6, <4>2, Zenon DEF Wanted
      <4>5. \A u \in DOMAIN receiver : \A i \in DOMAIN receiver[u] :
              Close(build.there[u].fields[i], receiver[u][i], meant[u][i])
        BY CloseIs DEF IInv
      <4>6. t \in DOMAIN receiver /\ DOMAIN receiver = DOMAIN build.there /\ DOMAIN old = DOMAIN m.fields
        BY <1>6, <1>14, <3>1 DEF Held
      <4>7. \A i \in DOMAIN m.fields : Close(m.fields[i], old[i], want[i])
        BY <2>9, <2>10, <2>16, <4>5, <4>6, Zenon
      <4>8. /\ new \in Seq(Int) /\ next \in Seq(Int)
            /\ Len(new) = Len(m.fields) /\ Len(next) = Len(m.fields)
            /\ DOMAIN new = DOMAIN m.fields
            /\ \A i \in DOMAIN m.fields : Close(m.fields[i], new[i], next[i])
        <5>1. Across(m, new, next)
          BY <2>4, <3>1, <4>1, <4>2, <4>7, MergedIs
        <5> QED BY <5>1, Zenon DEF Across
      <4>9. Held(build, receiver') /\ Held(build, meant')
        <5>1. /\ receiver' \in [DOMAIN build.there -> Seq(Int)]
              /\ meant' \in [DOMAIN build.there -> Seq(Int)]
          BY <1>6, <1>14, <4>3, <4>4, <4>8 DEF Held
        <5>2. ASSUME NEW u \in DOMAIN build.there
              PROVE  /\ Len(receiver'[u]) = Len(build.there[u].fields)
                     /\ Len(meant'[u]) = Len(build.there[u].fields)
          <6>1. CASE u = t
            <7>1. receiver'[u] = new /\ meant'[u] = next
              BY <1>6, <1>14, <4>3, <4>4, <6>1 DEF Held
            <7> QED BY <2>9, <2>16, <4>8, <6>1, <7>1, Zenon
          <6>2. CASE u # t
            <7>1. receiver'[u] = receiver[u] /\ meant'[u] = meant[u]
              BY <1>6, <1>14, <4>3, <4>4, <6>2 DEF Held
            <7> QED BY <1>6, <7>1, Zenon DEF Held
          <6> QED BY <6>1, <6>2
        <5> QED BY <5>1, <5>2 DEF Held
      <4>10. ASSUME NEW u \in DOMAIN receiver', NEW i \in DOMAIN receiver'[u]
             PROVE  Close(build'.there[u].fields[i], receiver'[u][i], meant'[u][i])
        <5>1. u \in DOMAIN build.there /\ build' = build
          BY <1>5, <1>6, <4>3 DEF Held
        <5>2. CASE u = t
          <6>1. receiver'[u] = new /\ meant'[u] = next
            BY <1>6, <1>14, <4>3, <4>4, <5>2 DEF Held
          <6>2. i \in DOMAIN m.fields
            BY <4>8, <4>10, <6>1, Zenon
          <6> QED BY <2>9, <2>16, <4>8, <5>1, <5>2, <6>1, <6>2, Zenon
        <5>3. CASE u # t
          <6>1. receiver'[u] = receiver[u] /\ meant'[u] = meant[u]
            BY <1>6, <1>14, <4>3, <4>4, <5>1, <5>3 DEF Held
          <6>2. u \in DOMAIN receiver /\ i \in DOMAIN receiver[u]
            BY <4>6, <4>10, <5>1, <6>1, Zenon
          <6> QED BY <4>5, <5>1, <6>1, <6>2, Zenon
        <5> QED BY <5>2, <5>3
      <4>11. AllOrNothing'
        BY <4>10, Zenon DEF AllOrNothing, Close
      <4>12. TypeOK'
        BY <1>10, <4>9
      <4> QED BY <1>9, <4>11, <4>12 DEF IInv
    <3> QED BY <3>5, <3>6
  <2> QED BY <2>15, <2>16
<1> QED BY <1>12, <1>13, <1>14

LEMMA StutterHolds == ASSUME IInv, UNCHANGED vars PROVE IInv'
<1>1. UNCHANGED <<build, link, receiver, wire, sends, meant, heard>>
  BY DEF vars
<1>2. TypeOK'
  BY <1>1 DEF IInv, TypeOK
<1>3. AllOrNothing'
  BY <1>1 DEF IInv, AllOrNothing
<1>4. ReadAsWritten'
  BY <1>1 DEF IInv, ReadAsWritten
<1> QED BY <1>2, <1>3, <1>4 DEF IInv

LEMMA NextHolds == IInv /\ [Next]_vars => IInv'
<1> SUFFICES ASSUME IInv, [Next]_vars PROVE IInv'
  OBVIOUS
<1>1. CASE Greet
  BY <1>1, GreetHolds
<1>2. CASE Hear
  <2>1. wire # Nothing
    BY <1>2 DEF Hear
  <2>2. PICK n \in 0 .. Len(wire.bytes) :
           \/ HearGreeting(SubSeq(wire.bytes, 1, n)) \/ HearComponent(SubSeq(wire.bytes, 1, n))
           \/ HearOther(SubSeq(wire.bytes, 1, n)) \/ LoadWorld(SubSeq(wire.bytes, 1, n))
    BY <1>2, Zenon DEF Hear
  <2>3. CASE HearGreeting(SubSeq(wire.bytes, 1, n))
    BY <2>1, <2>3, HearGreetingHolds
  <2>4. CASE HearComponent(SubSeq(wire.bytes, 1, n))
    BY <2>1, <2>4, HearComponentHolds
  <2>5. CASE HearOther(SubSeq(wire.bytes, 1, n))
    BY <2>1, <2>5, HearOtherHolds
  <2>6. CASE LoadWorld(SubSeq(wire.bytes, 1, n))
    BY <2>1, <2>6, LoadWorldHolds
  <2> QED BY <2>2, <2>3, <2>4, <2>5, <2>6
<1>3. ASSUME NEW t \in DOMAIN build.here, NEW k \in SampleIds,
             NEW mask \in SUBSET DOMAIN build.here[t].fields, Send(t, k, mask)
      PROVE  IInv'
  BY <1>3, SendHolds
<1>4. ASSUME NEW m \in Messages, Tell(m) PROVE IInv'
  BY <1>4, TellHolds
<1>5. ASSUME NEW w \in Worlds, Save(w) PROVE IInv'
  BY <1>5, SaveHolds
<1>6. CASE UNCHANGED vars
  BY <1>6, StutterHolds
<1> QED BY <1>1, <1>2, <1>3, <1>4, <1>5, <1>6, Zenon DEF Next

\* Components and messages both come across as they were meant or not at all,
\* from every build to every other one, wherever the bytes are cut short, and
\* the world file likewise (ReplicationRegistry.cpp 697-817,
\* ReplicationProtocol.cpp 337-372, WorldPersistence.cpp 177-248).
THEOREM WireFaithful == Spec => []WireIsFaithful
<1>1. Init => IInv
  BY InitHolds
<1>2. IInv /\ [Next]_vars => IInv'
  BY NextHolds
<1>3. IInv => WireIsFaithful
  BY DEF IInv, WireIsFaithful
<1> QED BY <1>1, <1>2, <1>3, PTL DEF Spec

=============================================================================
