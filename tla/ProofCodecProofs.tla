-------------------------- MODULE ProofCodecProofs --------------------------
(***************************************************************************)
(* Theorems about ProofCodec and ProofJourney for every radix, word length *)
(* and modulus and every proof and key, and their proofs.                  *)
(***************************************************************************)
EXTENDS ProofJourney, TLAPS, WellFoundedInduction

-----------------------------------------------------------------------------
(* Recursion.                                                              *)

\* The least element of a set of natural numbers: what holds for every number
\* is argued from the least one for which it does not.
LEMMA Least ==
  ASSUME NEW T, T \subseteq Nat, T # {}
  PROVE  \E m \in T : \A k \in T : m <= k
<1>1. IsWellFoundedOn(OpToRel(<, Nat), Nat)
  BY NatLessThanWellFounded
<1>2. PICK m \in T : \A k \in T : ~ (<<k, m>> \in OpToRel(<, Nat))
  BY <1>1, WFMin
<1>3. \A k \in T : ~ (k < m)
  BY <1>2 DEF OpToRel
<1> QED
  BY <1>3

\* A recursion of k steps on the integers defines a function.
LEMMA StepsExist ==
  ASSUME NEW a \in Int, NEW k \in Nat, NEW F \in [1..k -> [Int -> Int]]
  PROVE  \E g \in [0..k -> Int] :
           g[0] = a /\ \A i \in 1..k : g[i] = F[i][g[i - 1]]
<1> DEFINE Good(m, g) == g \in [0..m -> Int] /\ g[0] = a
                         /\ \A i \in 1..m : g[i] = F[i][g[i - 1]]
           Reached(m) == \E g : Good(m, g)
           Bad == {m \in Nat : m <= k /\ ~Reached(m)}
<1> SUFFICES ASSUME Bad # {} PROVE FALSE
  <2>1. Bad = {} => Reached(k)
    <3> HIDE DEF Reached
    <3>1. k \in Nat /\ k <= k
      OBVIOUS
    <3>2. ~Reached(k) => k \in Bad
      BY <3>1
    <3> QED
      BY <3>2
  <2> QED
    BY <2>1
<1>1. PICK m \in Bad : \A x \in Bad : m <= x
  <2> HIDE DEF Reached
  <2> QED
    BY Least
<1>2. m \in Nat /\ m <= k /\ ~Reached(m)
  OBVIOUS
<1>3. m # 0
  <2>1. Good(0, [i \in 0..0 |-> a])
    OBVIOUS
  <2> QED
    BY <1>2, <2>1
<1>4. PICK g : Good(m - 1, g)
  <2>1. Reached(m - 1)
    <3> HIDE DEF Reached
    <3>1. m - 1 \in Nat /\ m - 1 <= k
      BY <1>2, <1>3
    <3>2. m - 1 \notin Bad
      BY <1>1, <1>2
    <3> QED
      BY <3>1, <3>2
  <2> QED
    BY <2>1
<1> DEFINE h == [i \in 0..m |-> IF i = m THEN F[m][g[m - 1]] ELSE g[i]]
<1>5. h \in [0..m -> Int] /\ h[0] = a
  <2>1. g[m - 1] \in Int /\ F[m] \in [Int -> Int] /\ g[0] = a
    <3>1. m - 1 \in 0..(m - 1) /\ m \in 1..k
      BY <1>2, <1>3
    <3> QED
      BY <1>4, <3>1
  <2>2. F[m][g[m - 1]] \in Int
    BY <2>1
  <2>3. \A i \in 0..m : i # m => g[i] \in Int
    BY <1>2, <1>4
  <2> HIDE DEF Good
  <2> QED
    BY <1>2, <1>3, <2>1, <2>2, <2>3
<1>6. \A i \in 1..m : h[i] = F[i][h[i - 1]]
  <2> SUFFICES ASSUME NEW i \in 1..m PROVE h[i] = F[i][h[i - 1]]
    OBVIOUS
  <2>1. i - 1 \in 0..m /\ i - 1 # m /\ i \in 0..m /\ h[i - 1] = g[i - 1]
    BY <1>2
  <2>2. CASE i = m
    BY <2>1, <2>2
  <2>3. CASE i # m
    <3>1. i \in 1..(m - 1) /\ h[i] = g[i]
      BY <1>2, <2>1, <2>3
    <3> QED
      BY <1>4, <2>1, <3>1
  <2> QED
    BY <2>2, <2>3
<1> HIDE DEF h
<1>7. Good(m, h)
  BY <1>5, <1>6
<1> QED
  BY <1>2, <1>7

-----------------------------------------------------------------------------
(* Powers and quotients.                                                   *)

LEMMA Sizes ==
  /\ Radix \in Nat /\ Radix >= 2 /\ WordLen \in Nat /\ WordLen >= 1
  /\ U32Len \in Nat /\ 1 <= U32Len /\ U32Len <= WordLen
  BY CodecAssumption DEF CodecAssumption

LEMMA PowerSteps ==
  /\ Power[0] = 1
  /\ \A k \in 1..WordLen : Power[k] = Radix * Power[k - 1]
<1> DEFINE F == [i \in 1..WordLen |-> [v \in Int |-> Radix * v]]
<1>1. F \in [1..WordLen -> [Int -> Int]]
  BY Sizes
<1>2. PICK g \in [0..WordLen -> Int] :
        g[0] = 1 /\ \A i \in 1..WordLen : g[i] = F[i][g[i - 1]]
  <2>1. \A H \in [1..WordLen -> [Int -> Int]] :
          \E g \in [0..WordLen -> Int] :
            g[0] = 1 /\ \A i \in 1..WordLen : g[i] = H[i][g[i - 1]]
    <3>1. 1 \in Int /\ WordLen \in Nat
      BY Sizes
    <3> QED
      BY <3>1, StepsExist
  <2> HIDE DEF F
  <2> QED
    BY <1>1, <2>1
<1>3. g = [k \in 0..WordLen |-> IF k = 0 THEN 1 ELSE Radix * g[k - 1]]
  <2> SUFFICES ASSUME NEW k \in 0..WordLen
               PROVE  g[k] = IF k = 0 THEN 1 ELSE Radix * g[k - 1]
    BY <1>2
  <2>1. CASE k # 0
    <3>1. k \in 1..WordLen /\ k - 1 \in 0..WordLen
      BY <2>1, Sizes
    <3>2. g[k - 1] \in Int
      BY <3>1
    <3> QED
      BY <1>2, <2>1, <3>1, <3>2
  <2> QED
    BY <1>2, <2>1
<1>4. Power = [k \in 0..WordLen |-> IF k = 0 THEN 1 ELSE Radix * Power[k - 1]]
  BY <1>3 DEF Power
<1>5. Power[0] = 1
  BY <1>4, Sizes
<1>6. ASSUME NEW k \in 1..WordLen
      PROVE  Power[k] = Radix * Power[k - 1]
  <2>1. k \in 0..WordLen /\ k # 0
    BY Sizes
  <2> QED
    BY <1>4, <2>1
<1> QED
  BY <1>5, <1>6

LEMMA PowerNat == \A k \in 0..WordLen : Power[k] \in Nat /\ Power[k] >= 1
<1> DEFINE Bad == {k \in Nat : k <= WordLen /\ ~(Power[k] \in Nat /\ Power[k] >= 1)}
<1> SUFFICES ASSUME Bad # {} PROVE FALSE
  BY Sizes
<1>1. PICK m \in Bad : \A x \in Bad : m <= x
  BY Least
<1>2. m \in Nat /\ m <= WordLen /\ ~(Power[m] \in Nat /\ Power[m] >= 1)
  OBVIOUS
<1>3. m # 0
  BY <1>2, PowerSteps
<1>4. m - 1 \in Nat /\ m - 1 <= WordLen /\ m - 1 \notin Bad
  BY <1>1, <1>2, <1>3, Sizes
<1>5. Power[m - 1] \in Nat /\ Power[m - 1] >= 1
  BY <1>4
<1>6. Power[m] = Radix * Power[m - 1]
  BY <1>2, <1>3, PowerSteps, Sizes
<1>7. \A p \in Nat : p >= 1 => Radix * p \in Nat /\ Radix * p >= 1
  BY Sizes
<1> QED
  BY <1>2, <1>5, <1>6, <1>7

\* A longer word holds greater numbers.
LEMMA PowerGrows ==
  ASSUME NEW a \in 0..WordLen, NEW b \in 0..WordLen, a <= b
  PROVE  Power[a] <= Power[b]
<1> DEFINE Bad == {k \in Nat : a <= k /\ k <= WordLen /\ ~(Power[a] <= Power[k])}
<1> SUFFICES ASSUME Bad # {} PROVE FALSE
  BY Sizes
<1>1. PICK m \in Bad : \A x \in Bad : m <= x
  BY Least
<1>2. m \in Nat /\ a <= m /\ m <= WordLen /\ ~(Power[a] <= Power[m])
  OBVIOUS
<1>3. a \in Nat /\ Power[a] \in Nat /\ m # a /\ m # 0
  BY <1>2, PowerNat
<1>4. m - 1 \in Nat /\ a <= m - 1 /\ m - 1 <= WordLen /\ m - 1 \notin Bad
  BY <1>1, <1>2, <1>3, Sizes
<1>5. Power[a] <= Power[m - 1] /\ Power[m - 1] \in Nat
  BY <1>4, PowerNat, Sizes
<1>6. Power[m] = Radix * Power[m - 1]
  BY <1>2, <1>3, PowerSteps, Sizes
<1>7. Radix * Power[m - 1] \in Nat /\ Radix * Power[m - 1] >= Power[m - 1]
  <2>1. \A p \in Nat : Radix * p \in Nat /\ Radix * p >= p
    BY Sizes
  <2> QED
    BY <1>5, <2>1
<1>8. Power[m] \in Nat /\ Power[m] >= Power[m - 1]
  BY <1>6, <1>7
<1> QED
  BY <1>2, <1>3, <1>5, <1>8

\* Products of a factor that is not 0.
LEMMA ProductAtLeast ==
  ASSUME NEW d \in Nat, NEW e \in Nat, e >= 1
  PROVE  d * e >= d
OBVIOUS

\* A quotient is the only one that leaves a remainder below the divisor.
LEMMA QuotientUnique ==
  ASSUME NEW d \in Nat, d >= 1, NEW q \in Nat, NEW w \in Nat, w < d
  PROVE  (d * q + w) \div d = q /\ (d * q + w) % d = w
<1> DEFINE n == d * q + w
           e == n \div d
           u == n % d
<1>1. n \in Nat /\ e \in Nat /\ u \in Nat /\ u < d /\ n = d * e + u
  OBVIOUS
<1> HIDE DEF e, u
<1>2. d * q + w = d * e + u
  BY <1>1
<1> HIDE DEF n
<1>3. ~(q > e)
  <2> SUFFICES ASSUME q > e PROVE FALSE
    OBVIOUS
  <2>1. q - e \in Nat /\ q - e >= 1
    BY <1>1
  <2>2. d * (q - e) >= d
    BY <2>1, ProductAtLeast
  <2>3. d * (q - e) = d * q - d * e
    BY <1>1
  <2>4. d * q \in Int /\ d * e \in Int
    BY <1>1
  <2> QED
    BY <1>1, <1>2, <2>2, <2>3, <2>4
<1>4. ~(e > q)
  <2> SUFFICES ASSUME e > q PROVE FALSE
    OBVIOUS
  <2>1. e - q \in Nat /\ e - q >= 1
    BY <1>1
  <2>2. d * (e - q) >= d
    BY <2>1, ProductAtLeast
  <2>3. d * (e - q) = d * e - d * q
    BY <1>1
  <2>4. d * q \in Int /\ d * e \in Int
    BY <1>1
  <2> QED
    BY <1>1, <1>2, <2>2, <2>3, <2>4
<1>5. e = q
  BY <1>1, <1>3, <1>4
<1>6. u = w
  <2>1. d * q \in Int
    OBVIOUS
  <2> QED
    BY <1>1, <1>2, <1>5, <2>1
<1> QED
  BY <1>5, <1>6 DEF e, u, n

\* Dividing by p and then by r is dividing by r * p.
LEMMA QuotientStep ==
  ASSUME NEW v \in Nat, NEW p \in Nat, p >= 1, NEW r \in Nat, r >= 1
  PROVE  (v \div (r * p)) * r + ((v \div p) % r) = v \div p
<1> DEFINE q == v \div p
           s == v % p
           q2 == q \div r
           u == q % r
<1>1. q \in Nat /\ s \in Nat /\ s < p /\ v = p * q + s
  OBVIOUS
<1>2. q2 \in Nat /\ u \in Nat /\ u < r /\ q = r * q2 + u
  <2> HIDE DEF q
  <2> QED
    BY <1>1
<1> HIDE DEF q, s, q2, u
<1>3. p * u + s \in Nat /\ p * u + s < r * p /\ r * p \in Nat /\ r * p >= 1
  <2>1. r - u \in Nat /\ r - u >= 1
    BY <1>2
  <2>2. p * (r - u) >= p
    BY <2>1, ProductAtLeast
  <2>3. p * (r - u) = r * p - p * u
    BY <1>2
  <2>4. r * p \in Nat /\ p * u \in Nat
    BY <1>2
  <2> QED
    BY <1>1, <2>2, <2>3, <2>4
<1>4. v = (r * p) * q2 + (p * u + s)
  <2>1. p * q = p * (r * q2) + p * u
    BY <1>2
  <2>2. p * (r * q2) = (r * p) * q2
    BY <1>2
  <2>3. p * q \in Int /\ p * u \in Int /\ (r * p) * q2 \in Int
    BY <1>1, <1>2
  <2> QED
    BY <1>1, <2>1, <2>2, <2>3
<1> DEFINE d == r * p
           w == p * u + s
<1>5. v \div d = q2
  <2>1. d \in Nat /\ d >= 1 /\ w \in Nat /\ w < d /\ v = d * q2 + w
    BY <1>3, <1>4
  <2> HIDE DEF d, w
  <2> QED
    BY <1>2, <2>1, QuotientUnique
<1>6. q2 * r + u = q
  BY <1>2
<1> QED
  BY <1>5, <1>6 DEF q, u

-----------------------------------------------------------------------------
(* Bytes and words.                                                        *)

\* The big-endian number of the len lowest digits of v is v.
LEMMA NumberOfDigits ==
  ASSUME NEW len \in 0..WordLen, NEW v \in Nat, v < Power[len],
         NEW s \in Seq(Int), Len(s) = len,
         \A i \in 1..len : s[i] = (v \div Power[len - i]) % Radix
  PROVE  Number(s) = v
<1> DEFINE Value(g) == g = [i \in 0..Len(s) |-> IF i = 0 THEN 0 ELSE g[i - 1] * Radix + s[i]]
           value == CHOOSE g : Value(g)
           F == [i \in 1..len |-> [x \in Int |-> x * Radix + s[i]]]
<1>1. len \in Nat /\ len <= WordLen /\ WordLen \in Nat /\ Radix \in Nat /\ Radix >= 1
  BY Sizes
<1>2. \A i \in 1..len : s[i] \in Int
  OBVIOUS
<1>3. \E g : Value(g)
  <2>1. \A H \in [1..len -> [Int -> Int]] :
          \E g \in [0..len -> Int] : g[0] = 0 /\ \A i \in 1..len : g[i] = H[i][g[i - 1]]
    <3>1. \A a \in Int, k \in Nat : \A H \in [1..k -> [Int -> Int]] :
            \E g \in [0..k -> Int] : g[0] = a /\ \A i \in 1..k : g[i] = H[i][g[i - 1]]
      BY StepsExist, Zenon
    <3>2. \A k \in Nat : \A H \in [1..k -> [Int -> Int]] :
            \E g \in [0..k -> Int] : g[0] = 0 /\ \A i \in 1..k : g[i] = H[i][g[i - 1]]
      <4>1. 0 \in Int
        OBVIOUS
      <4> QED
        BY <3>1, <4>1, Zenon
    <3> QED
      BY <1>1, <3>2, Zenon
  <2>2. F \in [1..len -> [Int -> Int]]
    BY <1>1, <1>2
  <2> HIDE DEF F
  <2>3. PICK g \in [0..len -> Int] : g[0] = 0 /\ \A i \in 1..len : g[i] = F[i][g[i - 1]]
    BY <2>1, <2>2
  <2>4. ASSUME NEW i \in 0..len
        PROVE  g[i] = IF i = 0 THEN 0 ELSE g[i - 1] * Radix + s[i]
    <3>1. CASE i = 0
      BY <2>3, <3>1
    <3>2. CASE i # 0
      <4>1. i \in 1..len /\ i - 1 \in 0..len
        BY <1>1, <3>2
      <4>2. g[i - 1] \in Int
        BY <4>1
      <4> QED
        BY <2>3, <3>2, <4>1, <4>2 DEF F
    <3> QED
      BY <3>1, <3>2
  <2>5. g = [i \in 0..len |-> g[i]]
    OBVIOUS
  <2>6. g = [i \in 0..len |-> IF i = 0 THEN 0 ELSE g[i - 1] * Radix + s[i]]
    BY <2>4, <2>5, Zenon
  <2>7. Value(g)
    BY <2>6
  <2> HIDE DEF Value
  <2> QED
    BY <2>7
<1>4. Value(value)
  BY <1>3
<1>5. Number(s) = value[len]
  BY DEF Number
<1> HIDE DEF value
<1>6. value[0] = 0 /\ \A i \in 1..len : value[i] = value[i - 1] * Radix + s[i]
  <2>1. value[0] = 0
    BY <1>1, <1>4
  <2>2. ASSUME NEW i \in 1..len
        PROVE  value[i] = value[i - 1] * Radix + s[i]
    <3>1. i \in 0..Len(s) /\ i # 0
      BY <1>1
    <3> QED
      BY <1>4, <3>1
  <2> QED
    BY <2>1, <2>2
<1> HIDE DEF Value
<1> DEFINE Bad == {i \in Nat : i <= len /\ value[i] # v \div Power[len - i]}
<1>7. Bad = {}
  <2> SUFFICES ASSUME Bad # {} PROVE FALSE
    OBVIOUS
  <2>1. PICK m \in Bad : \A x \in Bad : m <= x
    BY Least
  <2>2. m \in Nat /\ m <= len /\ value[m] # v \div Power[len - m]
    OBVIOUS
  <2>3. m # 0
    <3> SUFFICES ASSUME m = 0 PROVE FALSE
      OBVIOUS
    <3>1. Power[len] \in Nat /\ Power[len] >= 1
      BY PowerNat
    <3>2. Power[len] * 0 + v = v
      BY <3>1
    <3>3. v \div Power[len] = 0
      BY <3>1, <3>2, QuotientUnique
    <3> QED
      BY <1>1, <1>6, <2>2, <3>3
  <2>4. m - 1 \in Nat /\ m - 1 <= len /\ m - 1 \notin Bad
    BY <1>1, <2>1, <2>2, <2>3
  <2>5. value[m - 1] = v \div Power[len - (m - 1)]
    BY <2>4
  <2> DEFINE p == Power[len - m]
  <2>6. p \in Nat /\ p >= 1 /\ Power[len - (m - 1)] = Radix * p
    <3>1. len - m \in 0..WordLen
      BY <1>1, <2>2
    <3>2. len - (m - 1) \in 1..WordLen /\ len - (m - 1) - 1 = len - m
      BY <1>1, <2>2, <2>3
    <3> QED
      BY <3>1, <3>2, PowerNat, PowerSteps
  <2>7. value[m] = value[m - 1] * Radix + ((v \div p) % Radix)
    BY <1>6, <2>2, <2>3
  <2>8. value[m - 1] = v \div (Radix * p)
    BY <2>5, <2>6
  <2> HIDE DEF p
  <2> DEFINE x == (v \div (Radix * p)) * Radix + ((v \div p) % Radix)
  <2>9. x = v \div p
    <3>1. Radix \in Nat /\ Radix >= 1 /\ p \in Nat /\ p >= 1
      BY <1>1, <2>6
    <3>2. \A r \in Nat : r >= 1 =>
            (v \div (r * p)) * r + ((v \div p) % r) = v \div p
      BY <3>1, QuotientStep, Zenon
    <3> QED
      BY <3>1, <3>2, Zenon
  <2>10. value[m] = x
    BY <2>7, <2>8, Zenon
  <2> HIDE DEF x
  <2>11. value[m] = v \div p
    BY <2>9, <2>10
  <2> QED
    BY <2>2, <2>11 DEF p
<1>8. value[len] = v \div Power[0]
  <2>1. len \in Nat /\ len <= len /\ len - len = 0 /\ len \notin Bad
    BY <1>1, <1>7
  <2> QED
    BY <2>1
<1> QED
  BY <1>5, <1>8, PowerSteps

\* What bigintToBytes32 writes is read as the same number.
LEMMA NumberOfBytes ==
  ASSUME NEW v \in Nat, v < Power[WordLen]
  PROVE  /\ Bytes32(v) \in Seq(Int) /\ Len(Bytes32(v)) = WordLen
         /\ Number(Bytes32(v)) = v
<1>1. \A i \in 1..WordLen : /\ Bytes32(v)[i] = (v \div Power[WordLen - i]) % Radix
                            /\ (v \div Power[WordLen - i]) % Radix \in Int
  <2> SUFFICES ASSUME NEW i \in 1..WordLen
               PROVE  /\ Bytes32(v)[i] = (v \div Power[WordLen - i]) % Radix
                      /\ (v \div Power[WordLen - i]) % Radix \in Int
    OBVIOUS
  <2>1. WordLen - i \in 0..WordLen
    BY Sizes
  <2>2. Power[WordLen - i] \in Nat /\ Power[WordLen - i] >= 1
    BY <2>1, PowerNat
  <2>3. v \div Power[WordLen - i] \in Int
    BY <2>2
  <2> QED
    BY <2>3, Sizes DEF Bytes32
<1>2. Bytes32(v) \in [1..WordLen -> Int]
  BY <1>1 DEF Bytes32
<1>3. Bytes32(v) \in Seq(Int) /\ Len(Bytes32(v)) = WordLen
  BY <1>2, Sizes
<1>4. WordLen \in 0..WordLen
  BY Sizes
<1> HIDE DEF Bytes32
<1> QED
  BY <1>1, <1>3, <1>4, NumberOfDigits

\* What parses fits a word.
LEMMA ParsedFits ==
  ASSUME NEW t \in TextType, Parses(t)
  PROVE  t.value \in Nat /\ t.value < Power[WordLen]
<1>1. t.value \in Nat /\ t.value < ScalarModulus
  BY DEF TextType, Parses
<1>2. Power[WordLen] \in Nat
  BY PowerNat, Sizes
<1> QED
  BY <1>1, <1>2, CodecAssumption DEF CodecAssumption

\* Byte j of word i.
LEMMA ByteOfWord ==
  ASSUME NEW i \in Nat, i >= 1, NEW j \in 1..WordLen
  PROVE  /\ (((i - 1) * WordLen + j) - 1) \div WordLen = i - 1
         /\ (((i - 1) * WordLen + j) - 1) % WordLen = j - 1
<1>1. WordLen \in Nat /\ WordLen >= 1 /\ i - 1 \in Nat /\ j - 1 \in Nat /\ j - 1 < WordLen
  BY Sizes
<1>2. /\ (WordLen * (i - 1) + (j - 1)) \div WordLen = i - 1
      /\ (WordLen * (i - 1) + (j - 1)) % WordLen = j - 1
  BY <1>1, QuotientUnique
<1>3. ((i - 1) * WordLen + j) - 1 = WordLen * (i - 1) + (j - 1)
  BY <1>1
<1> QED
  BY <1>2, <1>3

\* The bytes of texts that parse hold their values, word for word.
LEMMA EncodedWords ==
  ASSUME NEW texts \in Seq(TextType), AllParse(texts)
  PROVE  /\ Encode(texts) \in Seq(Int) /\ Len(Encode(texts)) = Len(texts) * WordLen
         /\ \A i \in 1..Len(texts) : WordAt(Encode(texts), (i - 1) * WordLen) = texts[i].value
<1> DEFINE n == Len(texts)
           bytes == Encode(texts)
<1>1. n \in Nat /\ WordLen \in Nat /\ WordLen >= 1 /\ n * WordLen \in Nat
  BY Sizes
<1>2. ASSUME NEW i \in 1..n, NEW j \in 1..WordLen
      PROVE  /\ (i - 1) * WordLen + j \in 1..(n * WordLen)
             /\ bytes[(i - 1) * WordLen + j] = Bytes32(texts[i].value)[j]
  <2>1. i \in Nat /\ i >= 1 /\ n - i \in Nat /\ j \in Nat /\ 1 <= j /\ j <= WordLen
    BY <1>1
  <2>2. (i - 1) * WordLen \in Nat
    <3>1. \A x, y \in Nat : x * y \in Nat
      OBVIOUS
    <3> QED
      BY <1>1, <2>1, <3>1
  <2>3. n * WordLen - (i - 1) * WordLen >= WordLen
    <3>1. \A x, y, z \in Int : (x - y) * z = x * z - y * z
      OBVIOUS
    <3>2. (n - (i - 1)) * WordLen = n * WordLen - (i - 1) * WordLen
      BY <1>1, <2>1, <3>1
    <3>3. WordLen * (n - (i - 1)) >= WordLen
      BY <1>1, <2>1, ProductAtLeast
    <3>4. \A x, y \in Int : x * y = y * x
      OBVIOUS
    <3>5. WordLen * (n - (i - 1)) = (n - (i - 1)) * WordLen
      BY <1>1, <2>1, <3>4
    <3> QED
      BY <3>2, <3>3, <3>5
  <2>4. (i - 1) * WordLen + j \in 1..(n * WordLen)
    BY <1>1, <2>1, <2>2, <2>3
  <2>5. bytes[(i - 1) * WordLen + j] = Bytes32(texts[(i - 1) + 1].value)[(j - 1) + 1]
    BY <2>1, <2>4, ByteOfWord DEF Encode
  <2>6. (i - 1) + 1 = i /\ (j - 1) + 1 = j
    BY <2>1
  <2> QED
    BY <2>4, <2>5, <2>6
<1>3. ASSUME NEW i \in 1..n
      PROVE  /\ texts[i].value \in Nat /\ texts[i].value < Power[WordLen]
             /\ Bytes32(texts[i].value) = [k \in 1..WordLen |-> Bytes32(texts[i].value)[k]]
  <2>1. texts[i] \in TextType /\ Parses(texts[i])
    BY DEF AllParse
  <2> QED
    BY <2>1, ParsedFits DEF Bytes32
<1>4. ASSUME NEW k \in 1..(n * WordLen)
      PROVE  bytes[k] \in Int
  <2> DEFINE q == (k - 1) \div WordLen
             u == (k - 1) % WordLen
  <2>1. k - 1 \in Nat /\ k - 1 < n * WordLen
    BY <1>1
  <2>2. q \in Nat /\ u \in Nat /\ u < WordLen /\ k - 1 = WordLen * q + u
    BY <1>1, <2>1
  <2>3. bytes[k] = Bytes32(texts[q + 1].value)[u + 1]
    BY DEF Encode
  <2> HIDE DEF q, u, bytes
  <2>4. q < n
    <3> SUFFICES ASSUME q >= n PROVE FALSE
      BY <1>1, <2>2
    <3>1. q - n \in Nat
      BY <1>1, <2>2
    <3>2. WordLen * (q - n) >= 0
      <4>1. \A x, y \in Nat : x * y >= 0
        OBVIOUS
      <4> QED
        BY <1>1, <3>1, <4>1
    <3>3. WordLen * (q - n) = WordLen * q - WordLen * n
      BY <1>1, <2>2
    <3>4. WordLen * n = n * WordLen /\ WordLen * q \in Int
      BY <1>1, <2>2
    <3> QED
      BY <1>1, <2>1, <2>2, <3>2, <3>3, <3>4
  <2>5. q + 1 \in 1..n /\ u + 1 \in 1..WordLen
    BY <1>1, <2>2, <2>4
  <2>6. Bytes32(texts[q + 1].value) \in Seq(Int) /\ Len(Bytes32(texts[q + 1].value)) = WordLen
    BY <1>3, <2>5, NumberOfBytes
  <2>7. \A b \in Seq(Int), j \in 1..WordLen : Len(b) = WordLen => b[j] \in Int
    OBVIOUS
  <2> QED
    BY <2>3, <2>5, <2>6, <2>7
<1>5. bytes \in Seq(Int) /\ Len(bytes) = n * WordLen
  <2>1. bytes = [k \in 1..(n * WordLen) |-> bytes[k]]
    BY DEF Encode
  <2> HIDE DEF bytes
  <2>2. bytes \in [1..(n * WordLen) -> Int]
    BY <1>4, <2>1
  <2>3. \A m \in Nat : \A b : b \in [1..m -> Int] => b \in Seq(Int) /\ Len(b) = m
    OBVIOUS
  <2> QED
    BY <1>1, <2>2, <2>3
<1>6. ASSUME NEW i \in 1..n
      PROVE  WordAt(bytes, (i - 1) * WordLen) = texts[i].value
  <2>1. [k \in 1..WordLen |-> bytes[(i - 1) * WordLen + k]] = Bytes32(texts[i].value)
    BY <1>2, <1>3
  <2> QED
    BY <1>3, <2>1, NumberOfBytes DEF WordAt
<1> QED
  BY <1>5, <1>6

\* A point whose coordinates parse has them.
LEMMA ParsedElement ==
  ASSUME NEW array \in Seq(TextType), NEW i \in {1, 2}, Parses(ElementAt(array, i))
  PROVE  i <= Len(array) /\ ElementAt(array, i) = array[i]
BY DEF Parses, ElementAt, Missing

LEMMA PointParsed ==
  ASSUME NEW point \in Seq(TextType), AllParse(Coordinates(point))
  PROVE  Len(point) >= 2
<1>1. Parses(Coordinates(point)[2]) /\ Coordinates(point)[2] = ElementAt(point, 2)
  BY DEF AllParse, Coordinates
<1> QED
  BY <1>1, ParsedElement

LEMMA G2PointParsed ==
  ASSUME NEW point \in Seq(Seq(TextType)), Len(point) >= 2, AllParse(G2Coordinates(point))
  PROVE  Len(point[1]) >= 2 /\ Len(point[2]) >= 2
<1>1. /\ Parses(G2Coordinates(point)[1]) /\ G2Coordinates(point)[1] = ElementAt(point[1], 2)
      /\ Parses(G2Coordinates(point)[3]) /\ G2Coordinates(point)[3] = ElementAt(point[2], 2)
  BY DEF AllParse, G2Coordinates
<1>2. point[1] \in Seq(TextType) /\ point[2] \in Seq(TextType)
  OBVIOUS
<1> QED
  BY <1>1, <1>2, ParsedElement

\* A G1 point read from the bytes of two texts.
LEMMA G1Read ==
  ASSUME NEW point \in Seq(TextType), AllParse(Coordinates(point))
  PROVE  ReadG1(Encode(Coordinates(point))) = G1Of(point)
<1> DEFINE texts == Coordinates(point)
           bytes == Encode(texts)
<1>1. /\ texts \in Seq(TextType) /\ Len(texts) = 2
      /\ texts[1] = point[1] /\ texts[2] = point[2]
  BY PointParsed DEF Coordinates, ElementAt
<1> HIDE DEF texts
<1>2. /\ Len(bytes) = 2 * WordLen
      /\ \A i \in 1..2 : WordAt(bytes, (i - 1) * WordLen) = texts[i].value
  BY <1>1, EncodedWords DEF texts
<1> HIDE DEF bytes
<1>3. Len(bytes) \div WordLen = 2
  <2>1. (WordLen * 2 + 0) \div WordLen = 2
    BY Sizes, QuotientUnique
  <2> QED
    BY <1>2, <2>1, Sizes
<1>4. Words(bytes) = [i \in 1..2 |-> texts[i].value]
  <2>1. Words(bytes) = [i \in 1..2 |-> WordAt(bytes, (i - 1) * WordLen)]
    BY <1>3 DEF Words
  <2> QED
    BY <1>2, <2>1
<1>5. ReadG1(bytes) = <<texts[1].value, texts[2].value>>
  BY <1>2, <1>4 DEF ReadG1
<1> QED
  BY <1>1, <1>5 DEF G1Of, bytes, texts

\* A G2 point: the swap of its coordinates is undone by the host's order.
LEMMA G2Read ==
  ASSUME NEW point \in Seq(Seq(TextType)), Len(point) >= 2,
         AllParse(G2Coordinates(point))
  PROVE  ReadG2(Encode(G2Coordinates(point))) = G2Of(point)
<1> DEFINE texts == G2Coordinates(point)
           bytes == Encode(texts)
<1>1. /\ point[1] \in Seq(TextType) /\ Len(point[1]) >= 2
      /\ point[2] \in Seq(TextType) /\ Len(point[2]) >= 2
  BY G2PointParsed
<1>2. /\ texts \in Seq(TextType) /\ Len(texts) = 4
      /\ texts[1] = point[1][2] /\ texts[2] = point[1][1]
      /\ texts[3] = point[2][2] /\ texts[4] = point[2][1]
  BY <1>1 DEF G2Coordinates, ElementAt
<1> HIDE DEF texts
<1>3. /\ Len(bytes) = 4 * WordLen
      /\ \A i \in 1..4 : WordAt(bytes, (i - 1) * WordLen) = texts[i].value
  BY <1>2, EncodedWords DEF texts
<1> HIDE DEF bytes
<1>4. Len(bytes) \div WordLen = 4
  <2>1. (WordLen * 4 + 0) \div WordLen = 4
    BY Sizes, QuotientUnique
  <2> QED
    BY <1>3, <2>1, Sizes
<1>5. Words(bytes) = [i \in 1..4 |-> texts[i].value]
  <2>1. Words(bytes) = [i \in 1..4 |-> WordAt(bytes, (i - 1) * WordLen)]
    BY <1>4 DEF Words
  <2> QED
    BY <1>3, <2>1
<1>6. ReadG2(bytes) = <<texts[2].value, texts[1].value, texts[4].value, texts[3].value>>
  BY <1>3, <1>5 DEF ReadG2
<1> QED
  BY <1>2, <1>6 DEF G2Of, bytes, texts

\* read_expiry_ledger gives back every number of U32Len bytes.
LEMMA ExpiryRead ==
  ASSUME NEW e \in 0..MaxU32
  PROVE  ReadExpiryLedger(Bytes32(e)) = e
<1> DEFINE high == WordLen - U32Len
           low == [k \in 1..U32Len |-> Bytes32(e)[high + k]]
<1>1. /\ Power[U32Len] \in Nat /\ Power[U32Len] <= Power[WordLen] /\ Power[WordLen] \in Nat
  BY Sizes, PowerNat, PowerGrows
<1>2. e \in Nat /\ e < Power[U32Len]
  BY <1>1 DEF MaxU32
<1>3. ASSUME NEW i \in 1..high
      PROVE  Bytes32(e)[i] = 0
  <2>1. i \in 1..WordLen /\ WordLen - i \in 0..WordLen /\ U32Len <= WordLen - i
        /\ U32Len \in 0..WordLen
    BY Sizes
  <2> DEFINE p == Power[WordLen - i]
  <2>2. p \in Nat /\ Power[U32Len] <= p
    BY <2>1, PowerNat, PowerGrows
  <2>3. Bytes32(e)[i] = (e \div p) % Radix
    BY <2>1 DEF Bytes32
  <2> HIDE DEF p
  <2>4. p >= 1 /\ e < p
    BY <1>1, <1>2, <2>2
  <2>5. p * 0 + e = e
    BY <1>2, <2>2
  <2>6. e \div p = 0
    BY <1>2, <2>2, <2>4, <2>5, QuotientUnique
  <2>7. 0 % Radix = 0
    BY Sizes
  <2> QED
    BY <2>3, <2>6, <2>7
<1>4. ASSUME NEW k \in 1..U32Len
      PROVE  low[k] = (e \div Power[U32Len - k]) % Radix /\ low[k] \in Int
  <2>1. high + k \in 1..WordLen /\ WordLen - (high + k) = U32Len - k /\ U32Len - k \in 0..WordLen
    BY Sizes
  <2>2. Bytes32(e)[high + k] = (e \div Power[U32Len - k]) % Radix
    BY <2>1 DEF Bytes32
  <2>3. Power[U32Len - k] \in Nat /\ Power[U32Len - k] >= 1
    BY <2>1, PowerNat
  <2>4. \A x \in Int : x % Radix \in Int
    BY Sizes
  <2>5. e \div Power[U32Len - k] \in Int
    BY <1>2, <2>3
  <2> QED
    BY <2>2, <2>4, <2>5
<1>5. low \in Seq(Int) /\ Len(low) = U32Len
  <2>1. low \in [1..U32Len -> Int]
    BY <1>4
  <2> HIDE DEF low
  <2> QED
    BY <2>1, Sizes
<1> HIDE DEF low
<1>6. U32Len \in 0..WordLen
  BY Sizes
<1>7. Number(low) = e
  BY <1>2, <1>4, <1>5, <1>6, NumberOfDigits
<1> QED
  BY <1>3, <1>7 DEF ReadExpiryLedger, low

-----------------------------------------------------------------------------
(* The validation and the encoders.                                        *)

\* A pair that passed the validation parses.
LEMMA PairParses ==
  ASSUME NEW array \in Seq(TextType), IsProofPair(array)
  PROVE  Parses(ElementAt(array, 1)) /\ Parses(ElementAt(array, 2))
<1>1. ElementAt(array, 1) = array[1] /\ ElementAt(array, 2) = array[2]
  BY DEF IsProofPair, ElementAt
<1> QED
  BY <1>1 DEF IsProofPair, IsProofElement, Parses

\* So the encoders of formatProof never refuse what validateProofInput let by.
LEMMA PointsParse ==
  ASSUME NEW req \in ProofRequestType, ProofShape(req)
  PROVE  /\ AllParse(Coordinates(req.a)) /\ AllParse(G2Coordinates(req.b))
         /\ AllParse(Coordinates(req.c))
<1>1. /\ req.a \in Seq(TextType) /\ req.c \in Seq(TextType)
      /\ req.b \in Seq(Seq(TextType)) /\ Len(req.b) >= 2
  BY DEF ProofRequestType, ProofShape
<1>2. req.b[1] \in Seq(TextType) /\ req.b[2] \in Seq(TextType)
  BY <1>1
<1>3. \A array \in {req.a, req.c, req.b[1], req.b[2]} :
        Parses(ElementAt(array, 1)) /\ Parses(ElementAt(array, 2))
  BY <1>1, <1>2, PairParses DEF ProofShape
<1> QED
  BY <1>3 DEF AllParse, Coordinates, G2Coordinates

\* The words of inputs that parse are read as their values.
LEMMA InputWords ==
  ASSUME NEW texts \in Seq(TextType), AllParse(texts)
  PROVE  LET words == [i \in DOMAIN texts |-> Bytes32(texts[i].value)]
         IN  /\ words \in Seq(Seq(Int)) /\ Len(words) = Len(texts)
             /\ \A i \in 1..Len(texts) : Number(words[i]) = texts[i].value
<1> DEFINE words == [i \in DOMAIN texts |-> Bytes32(texts[i].value)]
<1>1. ASSUME NEW i \in 1..Len(texts)
      PROVE  words[i] \in Seq(Int) /\ Number(words[i]) = texts[i].value
  <2>1. texts[i] \in TextType /\ Parses(texts[i]) /\ words[i] = Bytes32(texts[i].value)
    BY DEF AllParse
  <2> HIDE DEF words
  <2> QED
    BY <2>1, ParsedFits, NumberOfBytes
<1>2. DOMAIN words = 1..Len(texts) /\ words = [i \in 1..Len(texts) |-> words[i]]
  OBVIOUS
<1> HIDE DEF words
<1>3. words \in [1..Len(texts) -> Seq(Int)]
  BY <1>1, <1>2
<1>4. words \in Seq(Seq(Int)) /\ Len(words) = Len(texts)
  BY <1>3
<1> QED
  BY <1>1, <1>4 DEF words

-----------------------------------------------------------------------------
(* The invariant: what was returned and read is that of the request.       *)

CodecInv ==
  /\ op \in {"proof", "key"}
  /\ op = "proof" => request \in ProofRequestType
  /\ op = "key" => request \in KeyRequestType
  /\ op = "proof" /\ output # None => output = FormatProof(request)
  /\ op = "key" /\ output # None => output = FormatVerifyingKey(request)
  /\ received # None => output # None /\ output.ok
  /\ op = "proof" /\ received # None => received = VerifierReads(output)
  /\ op = "key" /\ received # None => received = RegistryReads(output)

LEMMA CodecInvInit == Init => CodecInv
BY RequestAssumption DEF Init, CodecInv, RequestAssumption

LEMMA CodecInvStep == CodecInv /\ [Next]_vars => CodecInv'
<1> SUFFICES ASSUME CodecInv, [Next]_vars PROVE CodecInv'
  OBVIOUS
<1>1. CASE Format
  BY <1>1 DEF CodecInv, Format
<1>2. CASE Receive
  BY <1>2 DEF CodecInv, Receive
<1>3. CASE UNCHANGED vars
  BY <1>3 DEF CodecInv, vars
<1> QED
  BY <1>1, <1>2, <1>3 DEF Next

LEMMA CodecInvariant == Spec => []CodecInv
BY CodecInvInit, CodecInvStep, PTL DEF Spec

LEMMA ShapeIsInField ==
  ASSUME NEW req, req = request
  PROVE  ProofShape(req) <=> ProofInField(ScalarModulus)
BY DEF ProofShape, ProofInField, IsProofPair, IsProofElement, PairInField, InField

LEMMA FormatProofCode ==
  ASSUME request \in ProofRequestType
  PROVE  LET out == FormatProof(request)
         IN  out.ok \/ out.code = IF ProofInField(ScalarModulus)
                                  THEN "INVALID_PUBLIC_INPUT" ELSE "INVALID_PROOF_FORMAT"
<1>1. CASE ~ProofShape(request)
  <2>1. FormatProof(request) = Refused("INVALID_PROOF_FORMAT")
    BY <1>1 DEF FormatProof
  <2> QED
    BY <1>1, <2>1, ShapeIsInField DEF Refused
<1>2. CASE ProofShape(request) /\ (~AllParse(request.signals) \/ ~ExpiryFits(request.expiry))
  <2>1. FormatProof(request) = Refused("INVALID_PUBLIC_INPUT")
    BY <1>2 DEF FormatProof
  <2> QED
    BY <1>2, <2>1, ShapeIsInField DEF Refused
<1>3. CASE ProofShape(request) /\ AllParse(request.signals) /\ ExpiryFits(request.expiry)
  BY <1>3, PointsParse DEF FormatProof
<1> QED
  BY <1>1, <1>2, <1>3

\* What formatProof accepted, and what it made of it.
LEMMA FormatProofOk ==
  ASSUME NEW req, FormatProof(req).ok
  PROVE  /\ ProofShape(req) /\ AllParse(req.signals) /\ ExpiryFits(req.expiry)
         /\ AllParse(Coordinates(req.a)) /\ AllParse(G2Coordinates(req.b))
         /\ AllParse(Coordinates(req.c))
         /\ FormatProof(req).proofA = Encode(Coordinates(req.a))
         /\ FormatProof(req).proofB = Encode(G2Coordinates(req.b))
         /\ FormatProof(req).proofC = Encode(Coordinates(req.c))
         /\ FormatProof(req).publicInputs =
              LET words == [i \in DOMAIN req.signals |-> Bytes32(req.signals[i].value)]
              IN  IF req.expiry = None THEN words ELSE Append(words, Bytes32(req.expiry))
BY DEF FormatProof, Refused

\* The points of the invariant's states.
LEMMA PointsRead == CodecInv => PointsDelivered
<1>1. ASSUME CodecInv, op = "proof", received # None
      PROVE  /\ received.a = G1Of(request.a)
             /\ received.b = G2Of(request.b)
             /\ received.c = G1Of(request.c)
  <2>1. /\ request \in ProofRequestType /\ output = FormatProof(request) /\ output.ok
        /\ received = VerifierReads(output)
    BY <1>1 DEF CodecInv
  <2>2. /\ request.a \in Seq(TextType) /\ request.b \in Seq(Seq(TextType))
        /\ request.c \in Seq(TextType)
    BY <2>1 DEF ProofRequestType
  <2>3. /\ AllParse(Coordinates(request.a)) /\ AllParse(G2Coordinates(request.b))
        /\ AllParse(Coordinates(request.c)) /\ Len(request.b) >= 2
        /\ output.proofA = Encode(Coordinates(request.a))
        /\ output.proofB = Encode(G2Coordinates(request.b))
        /\ output.proofC = Encode(Coordinates(request.c))
    BY <2>1, FormatProofOk DEF ProofShape
  <2>4. /\ received.a = ReadG1(output.proofA) /\ received.b = ReadG2(output.proofB)
        /\ received.c = ReadG1(output.proofC)
    BY <2>1 DEF VerifierReads
  <2> QED
    BY <2>2, <2>3, <2>4, G1Read, G2Read
<1> QED
  BY <1>1 DEF PointsDelivered

\* The inputs of the invariant's states.
LEMMA InputsRead == CodecInv => InputsDelivered
<1>1. ASSUME CodecInv, op = "proof", received # None
      PROVE  LET n == Len(request.signals)
             IN  /\ \A i \in 1..n : received.inputs[i] = request.signals[i].value
                 /\ Len(received.inputs) = IF request.expiry = None THEN n ELSE n + 1
                 /\ n = 1 => received.expiry = request.expiry
  <2> DEFINE n == Len(request.signals)
             words == [i \in DOMAIN request.signals |-> Bytes32(request.signals[i].value)]
             inputs == output.publicInputs
  <2>1. /\ request \in ProofRequestType /\ output = FormatProof(request) /\ output.ok
        /\ received = VerifierReads(output)
    BY <1>1 DEF CodecInv
  <2>2. request.signals \in Seq(TextType) /\ n \in Nat
    BY <2>1 DEF ProofRequestType
  <2>3. /\ AllParse(request.signals) /\ ExpiryFits(request.expiry)
        /\ inputs = IF request.expiry = None THEN words ELSE Append(words, Bytes32(request.expiry))
    BY <2>1, FormatProofOk
  <2>4. /\ received.inputs = [i \in DOMAIN inputs |-> Number(inputs[i])]
        /\ received.expiry = IF Len(inputs) = 2 THEN ReadExpiryLedger(inputs[2]) ELSE None
    BY <2>1 DEF VerifierReads
  <2>5. /\ words \in Seq(Seq(Int)) /\ Len(words) = n
        /\ \A i \in 1..n : Number(words[i]) = request.signals[i].value
    BY <2>2, <2>3, InputWords
  <2> HIDE DEF words, inputs
  <2>6. CASE request.expiry = None
    <3>1. inputs = words
      BY <2>3, <2>6
    <3>2. DOMAIN received.inputs = 1..n
      BY <2>4, <2>5, <3>1
    <3>3. \A i \in 1..n : received.inputs[i] = request.signals[i].value
      BY <2>4, <2>5, <3>1
    <3>4. Len(received.inputs) = n
      BY <2>2, <3>2
    <3> QED
      BY <2>2, <2>4, <2>5, <2>6, <3>1, <3>3, <3>4
  <2>7. CASE request.expiry # None
    <3>1. request.expiry \in 0..MaxU32 /\ inputs = Append(words, Bytes32(request.expiry))
      BY <2>3, <2>7 DEF ExpiryFits
    <3>2. request.expiry \in Nat /\ request.expiry < Power[WordLen]
      <4>1. Power[U32Len] \in Nat /\ Power[WordLen] \in Nat /\ Power[U32Len] <= Power[WordLen]
        BY Sizes, PowerNat, PowerGrows
      <4> QED
        BY <3>1, <4>1 DEF MaxU32
    <3>3. Bytes32(request.expiry) \in Seq(Int)
      BY <3>2, NumberOfBytes
    <3>4. /\ Len(inputs) = n + 1 /\ inputs[n + 1] = Bytes32(request.expiry)
          /\ DOMAIN inputs = 1..(n + 1) /\ \A i \in 1..n : inputs[i] = words[i]
      BY <2>2, <2>5, <3>1, <3>3
    <3>5. \A i \in 1..n : received.inputs[i] = request.signals[i].value
      BY <2>2, <2>4, <2>5, <3>4
    <3>6. Len(received.inputs) = n + 1
      <4>1. DOMAIN received.inputs = 1..(n + 1)
        BY <2>4, <3>4
      <4> QED
        BY <2>2, <4>1
    <3>7. n = 1 => received.expiry = request.expiry
      BY <2>4, <3>1, <3>4, ExpiryRead
    <3> QED
      BY <2>7, <3>5, <3>6, <3>7
  <2> QED
    BY <2>6, <2>7
<1> QED
  BY <1>1 DEF InputsDelivered

-----------------------------------------------------------------------------
(* The three ways a proof is verified.                                     *)

JourneyInv ==
  /\ CodecInv
  /\ op = "proof" /\ offChain # None /\ request.protocol = "groth16" =>
       offChain \in SnarkjsAnswers(request)
  /\ registry # None => received # None /\ registry = RegistryVerdict(received)
  /\ verifier # None => /\ received # None
                       /\ verifier.ledger \in Ledger
                       /\ verifier.answer = VerifierVerdict(received, verifier.ledger)

LEMMA JourneyInvariant == JourneySpec => []JourneyInv
<1>1. JourneyInit => JourneyInv
  BY CodecInvInit DEF JourneyInit, JourneyInv
<1>2. JourneyInv /\ [JourneyNext]_journeyVars => JourneyInv'
  <2> SUFFICES ASSUME JourneyInv, [JourneyNext]_journeyVars PROVE JourneyInv'
    OBVIOUS
  <2>1. [Next]_vars
    BY DEF JourneyNext, journeyVars
  <2>2. CodecInv'
    BY <2>1, CodecInvStep DEF JourneyInv
  <2>3. CASE Next /\ UNCHANGED verdicts
    <3>1. UNCHANGED <<request, op>> /\ (received # None => received' = received)
      BY <2>3 DEF Next, Format, Receive
    <3> QED
      BY <2>2, <2>3, <3>1 DEF JourneyInv, verdicts
  <2>4. CASE VerifyOffChain /\ UNCHANGED vars
    BY <2>2, <2>4 DEF JourneyInv, VerifyOffChain, vars
  <2>5. CASE AskRegistry /\ UNCHANGED vars
    BY <2>2, <2>5 DEF JourneyInv, AskRegistry, vars
  <2>6. ASSUME NEW ledger \in Ledger, AskVerifier(ledger), UNCHANGED vars
        PROVE  JourneyInv'
    BY <2>2, <2>6 DEF JourneyInv, AskVerifier, vars
  <2>7. CASE UNCHANGED journeyVars
    BY <2>2, <2>7 DEF JourneyInv, journeyVars, vars, verdicts
  <2> QED
    BY <2>3, <2>4, <2>5, <2>6, <2>7 DEF JourneyNext
<1> QED
  BY <1>1, <1>2, PTL DEF JourneySpec

\* What formatProof accepts snarkjs can read, and its coordinates are reduced.
LEMMA SnarkjsReads ==
  ASSUME NEW req \in ProofRequestType, FormatProof(req).ok
  PROVE  Len(req.signals) = 1 =>
           SnarkjsAnswers(req) = {Holds(G1Of(req.a), G2Of(req.b), G1Of(req.c),
                                        req.signals[1].value)}
<1>1. /\ req.a \in Seq(TextType) /\ req.b \in Seq(Seq(TextType))
      /\ req.c \in Seq(TextType) /\ req.signals \in Seq(TextType)
  BY DEF ProofRequestType
<1>2. /\ ProofShape(req) /\ AllParse(req.signals) /\ Len(req.b) >= 2
      /\ req.b[1] \in Seq(TextType) /\ req.b[2] \in Seq(TextType)
  <2>1. ProofShape(req) /\ AllParse(req.signals)
    BY FormatProofOk
  <2>2. Len(req.b) >= 2
    BY <2>1 DEF ProofShape
  <2> QED
    BY <1>1, <2>1, <2>2
<1>3. ASSUME NEW array \in {req.a, req.c, req.b[1], req.b[2]}, NEW i \in {1, 2}
      PROVE  /\ ElementAt(array, i) = array[i] /\ array[i].kind = "decimal"
             /\ array[i].value % BaseModulus = array[i].value
  <2>1. array \in Seq(TextType) /\ IsProofPair(array)
    BY <1>1, <1>2 DEF ProofShape
  <2>2. i <= Len(array) /\ array[i] \in TextType /\ IsProofElement(array[i])
    BY <2>1 DEF IsProofPair
  <2>3. array[i].kind = "decimal" /\ array[i].value \in Nat /\ array[i].value < ScalarModulus
    BY <2>2 DEF IsProofElement, TextType
  <2>4. \A v, m \in Nat : v < m => v % m = v
    OBVIOUS
  <2>5. array[i].value < BaseModulus /\ BaseModulus \in Nat
    BY <2>3, CodecAssumption DEF CodecAssumption
  <2> QED
    BY <2>2, <2>3, <2>4, <2>5 DEF ElementAt
<1>4. \A point \in {req.a, req.c} :
        Readable(Coordinates(point)) /\ Reduced(Coordinates(point)) = G1Of(point)
  <2> SUFFICES ASSUME NEW point \in {req.a, req.c}
               PROVE  Readable(Coordinates(point)) /\ Reduced(Coordinates(point)) = G1Of(point)
    OBVIOUS
  <2>1. Coordinates(point) = <<point[1], point[2]>>
    BY <1>3 DEF Coordinates
  <2> QED
    BY <1>3, <2>1 DEF Readable, Reduced, G1Of
<1>5. Readable(SnarkjsG2(req.b)) /\ Reduced(SnarkjsG2(req.b)) = G2Of(req.b)
  <2> DEFINE texts == <<req.b[1][1], req.b[1][2], req.b[2][1], req.b[2][2]>>
  <2>1. SnarkjsG2(req.b) = texts
    BY <1>3 DEF SnarkjsG2
  <2>2. /\ texts[1] = req.b[1][1] /\ texts[2] = req.b[1][2] /\ texts[3] = req.b[2][1]
        /\ texts[4] = req.b[2][2] /\ DOMAIN texts = 1..4
    OBVIOUS
  <2>3. G2Of(req.b) = [i \in 1..4 |-> texts[i].value]
    BY DEF G2Of
  <2> HIDE DEF texts
  <2>4. \A i \in 1..4 : i = 1 \/ i = 2 \/ i = 3 \/ i = 4
    OBVIOUS
  <2>5. \A i \in 1..4 :
          texts[i].kind = "decimal" /\ texts[i].value % BaseModulus = texts[i].value
    BY <1>3, <2>2, <2>4
  <2>6. Readable(texts)
    BY <2>2, <2>5 DEF Readable
  <2>7. Reduced(texts) = [i \in 1..4 |-> texts[i].value]
    BY <2>2, <2>5 DEF Reduced
  <2> QED
    BY <2>1, <2>3, <2>6, <2>7
<1>6. Readable(req.signals)
  BY <1>1, <1>2 DEF Readable, AllParse, Parses
<1> QED
  BY <1>2, <1>4, <1>5, <1>6 DEF SnarkjsAnswers

-----------------------------------------------------------------------------
(* The theorems.                                                           *)

\* Whatever is passed to formatProof, the code of its refusal names the part to
\* mend: the encoders behind the validation never contradict it.
THEOREM RefusalNamesPartHolds == Spec => []RefusalNamesPart
<1>1. CodecInv => RefusalNamesPart
  BY FormatProofCode DEF CodecInv, RefusalNamesPart
<1> QED
  BY <1>1, CodecInvariant, PTL

\* A proof formatProof accepts is read by read_g1 and read_g2 as the points it
\* has: bigintToBytes32 and the swap of encodeG2 are undone, for every size of
\* a byte and of a word, and no assertion on a length fails.
THEOREM PointsDeliveredHolds == Spec => []PointsDelivered
BY PointsRead, CodecInvariant, PTL

\* The inputs and the expiry of an accepted proof reach verify_one as they were
\* given: bigintToBytes32 and read_expiry_ledger agree on every ledger number.
THEOREM InputsDeliveredHolds == Spec => []InputsDelivered
BY InputsRead, CodecInvariant, PTL

\* A key formatVerifyingKey accepts is read by register_circuit as it is.
THEOREM KeyDeliveredHolds == Spec => []KeyDelivered
<1>1. ASSUME CodecInv, op = "key", received # None
      PROVE  /\ received.alpha = G1Of(request.alpha)
             /\ received.beta = G2Of(request.beta)
             /\ received.gamma = G2Of(request.gamma)
             /\ received.delta = G2Of(request.delta)
             /\ received.ic # <<>>
             /\ received.ic = [i \in DOMAIN request.ic |-> G1Of(request.ic[i])]
  <2>1. /\ request \in KeyRequestType /\ output = FormatVerifyingKey(request) /\ output.ok
        /\ received = RegistryReads(output)
    BY <1>1 DEF CodecInv
  <2>2. /\ request.alpha \in Seq(TextType) /\ request.beta \in Seq(Seq(TextType))
        /\ request.gamma \in Seq(Seq(TextType)) /\ request.delta \in Seq(Seq(TextType))
        /\ request.ic \in Seq(Seq(TextType))
    BY <2>1 DEF KeyRequestType
  <2> DEFINE ic == [i \in DOMAIN request.ic |-> Coordinates(request.ic[i])]
  <2>3. /\ KeyShape(request) /\ AllParse(Coordinates(request.alpha))
        /\ AllParse(G2Coordinates(request.beta)) /\ AllParse(G2Coordinates(request.gamma))
        /\ AllParse(G2Coordinates(request.delta)) /\ \A i \in DOMAIN ic : AllParse(ic[i])
        /\ output.alpha = Encode(Coordinates(request.alpha))
        /\ output.beta = Encode(G2Coordinates(request.beta))
        /\ output.gamma = Encode(G2Coordinates(request.gamma))
        /\ output.delta = Encode(G2Coordinates(request.delta))
        /\ output.ic = [i \in DOMAIN ic |-> Encode(ic[i])]
    BY <2>1 DEF FormatVerifyingKey, Refused
  <2>4. /\ Len(request.beta) >= 2 /\ Len(request.gamma) >= 2 /\ Len(request.delta) >= 2
        /\ request.ic # <<>>
    BY <2>3 DEF KeyShape
  <2>5. /\ received.alpha = ReadG1(output.alpha) /\ received.beta = ReadG2(output.beta)
        /\ received.gamma = ReadG2(output.gamma) /\ received.delta = ReadG2(output.delta)
        /\ received.ic = [i \in DOMAIN output.ic |-> ReadG1(output.ic[i])]
    BY <2>1 DEF RegistryReads
  <2>6. ASSUME NEW i \in DOMAIN request.ic
        PROVE  ReadG1(Encode(ic[i])) = G1Of(request.ic[i])
    <3>1. request.ic[i] \in Seq(TextType)
      BY <2>2
    <3>2. i \in DOMAIN ic /\ ic[i] = Coordinates(request.ic[i])
      OBVIOUS
    <3>3. AllParse(ic[i])
      BY <2>3, <3>2
    <3> HIDE DEF ic
    <3> QED
      BY <3>1, <3>2, <3>3, G1Read
  <2>7. received.ic = [i \in DOMAIN request.ic |-> G1Of(request.ic[i])]
    BY <2>3, <2>5, <2>6
  <2>8. received.ic # <<>>
    <3>1. 1 \in DOMAIN request.ic
      BY <2>2, <2>4
    <3>2. DOMAIN received.ic = DOMAIN request.ic
      BY <2>7
    <3>3. DOMAIN <<>> = {}
      OBVIOUS
    <3> QED
      BY <3>1, <3>2, <3>3
  <2> HIDE DEF ic
  <2> QED
    BY <2>2, <2>3, <2>4, <2>5, <2>7, <2>8, G1Read, G2Read
<1>2. CodecInv => KeyDelivered
  BY <1>1 DEF KeyDelivered
<1> QED
  BY <1>2, CodecInvariant, PTL

\* A proof formatProof accepts has one verdict: verifyOffChain, the registry and
\* the verifier, until the proof's expiry, agree on every one of them.
THEOREM AgreementHolds == JourneySpec => []Agreement
<1>1. ASSUME JourneyInv, op = "proof", received # None
      PROVE  /\ \A i \in 1..Len(request.signals) : received.inputs[i] = request.signals[i].value
             /\ Len(received.inputs) = IF request.expiry = None THEN Len(request.signals)
                                       ELSE Len(request.signals) + 1
             /\ Len(request.signals) = 1 => received.expiry = request.expiry
             /\ offChain # None /\ Len(request.signals) = 1 =>
                  offChain = Holds(received.a, received.b, received.c,
                                   request.signals[1].value)
             /\ Len(request.signals) \in Nat
             /\ request.expiry # None => request.expiry \in Nat
  <2>1. /\ CodecInv /\ request \in ProofRequestType /\ FormatProof(request).ok
        /\ offChain # None /\ request.protocol = "groth16" =>
             offChain \in SnarkjsAnswers(request)
    BY <1>1 DEF JourneyInv, CodecInv
  <2>2. ProofShape(request) /\ ExpiryFits(request.expiry)
    BY <2>1, FormatProofOk
  <2>3. PointsDelivered /\ InputsDelivered
    BY <2>1, PointsRead, InputsRead
  <2>4. request.protocol = "groth16" /\ Len(request.signals) \in Nat
    BY <2>1, <2>2 DEF ProofShape, ProofRequestType
  <2>5. offChain # None /\ Len(request.signals) = 1 =>
          offChain = Holds(G1Of(request.a), G2Of(request.b), G1Of(request.c),
                           request.signals[1].value)
    BY <2>1, <2>4, SnarkjsReads
  <2>6. request.expiry # None => request.expiry \in Nat
    <3>1. MaxU32 \in Int
      BY Sizes, PowerNat DEF MaxU32
    <3> QED
      BY <2>2, <3>1 DEF ExpiryFits
  <2> QED
    BY <1>1, <2>3, <2>4, <2>5, <2>6 DEF PointsDelivered, InputsDelivered
<1>2. ASSUME JourneyInv, op = "proof", registry # None, request.expiry = None
      PROVE  IF Len(request.signals) # 1 THEN registry = "False"
             ELSE offChain # None => (registry = "True" <=> offChain = "True")
  <2>1. received # None /\ registry = RegistryVerdict(received)
    BY <1>2 DEF JourneyInv
  <2>2. Len(received.inputs) = Len(request.signals) /\ Len(request.signals) \in Nat
    BY <1>1, <1>2, <2>1
  <2>3. CASE Len(request.signals) = 1
    <3>1. received.inputs[1] = request.signals[1].value
      BY <1>1, <1>2, <2>1, <2>3
    <3>2. registry = Holds(received.a, received.b, received.c, request.signals[1].value)
      BY <2>1, <2>2, <2>3, <3>1 DEF RegistryVerdict
    <3> QED
      BY <1>1, <1>2, <2>1, <2>3, <3>2
  <2>4. CASE Len(request.signals) # 1
    <3>1. \A k \in Nat : k # 1 => k + 1 # 2
      OBVIOUS
    <3>2. Len(received.inputs) \in Nat /\ Len(received.inputs) # 1
      BY <2>2, <2>4
    <3>3. Len(received.inputs) + 1 # 2
      BY <3>1, <3>2
    <3> QED
      BY <2>1, <2>4, <3>3 DEF RegistryVerdict
  <2> QED
    BY <2>3, <2>4
<1>3. ASSUME JourneyInv, op = "proof", verifier # None, request.expiry # None
      PROVE  IF Len(request.signals) # 1 THEN verifier.answer = "False"
             ELSE offChain # None =>
                    (verifier.answer = "True" <=>
                       offChain = "True" /\ verifier.ledger <= request.expiry)
  <2>1. /\ received # None /\ verifier.ledger \in Nat
        /\ verifier.answer = VerifierVerdict(received, verifier.ledger)
    BY <1>3, JourneyAssumption DEF JourneyInv, JourneyAssumption
  <2>2. Len(received.inputs) = Len(request.signals) + 1 /\ Len(request.signals) \in Nat
    BY <1>1, <1>3, <2>1
  <2>3. CASE Len(request.signals) = 1
    BY <1>1, <1>3, <2>1, <2>3 DEF VerifierVerdict, Holds
  <2>4. CASE Len(request.signals) # 1
    <3>1. \A k \in Nat : k # 1 => k + 1 # 2
      OBVIOUS
    <3>2. Len(received.inputs) # 2
      BY <2>2, <2>4, <3>1
    <3> QED
      BY <2>1, <2>4, <3>2 DEF VerifierVerdict
  <2> QED
    BY <2>3, <2>4
<1>4. JourneyInv => Agreement
  BY <1>2, <1>3 DEF Agreement
<1> QED
  BY <1>4, JourneyInvariant, PTL

=============================================================================
