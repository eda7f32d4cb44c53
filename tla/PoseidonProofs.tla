--------------------------- MODULE PoseidonProofs ---------------------------
(***************************************************************************)
(* Theorems about Poseidon, for any number of inputs, of full and of       *)
(* partial rounds.                                                         *)
(***************************************************************************)
EXTENDS PoseidonTables, TLAPS, WellFoundedInduction

-----------------------------------------------------------------------------
(* Arithmetic and intervals.                                               *)

\* One more row of a table starts one row further.
LEMMA NextRow == \A a, b \in Nat : (a + 1) * b = a * b + b
  OBVIOUS

\* Reading on from where the last reading ended keeps the order.
LEMMA TouchInOrder ==
  ASSUME NEW h, h.count \in Nat, InOrder(h), NEW k \in Nat
  PROVE  /\ Touch(h, h.count, k).count = h.count + k
         /\ InOrder(Touch(h, h.count, k))
  BY DEF Touch, InOrder

-----------------------------------------------------------------------------
(* The call.                                                               *)

\* An accepted argument has inputs, and a number of partial rounds.
LEMMA Sizes ==
  ASSUME Accepted
  PROVE  n \in Nat \ {0} /\ t \in Nat /\ PartialRounds[n] \in Nat
  BY PoseidonAssumption DEF Accepted, n, t, MaxInputs

\* What Slots are.
LEMMA SlotsAre == ASSUME Accepted PROVE Slots = 0..n /\ \A i \in Slots : i \in Nat /\ i < t
  BY Sizes DEF Slots, t

\* A function on the slots is not the empty array a call starts with.
LEMMA NotEmpty ==
  ASSUME Accepted, NEW f, DOMAIN f = Slots
  PROVE  f # <<>>
<1>1. 0 \in Slots
  BY Sizes DEF Slots, t
<1>2. DOMAIN <<>> = {}
  OBVIOUS
<1> QED
  BY <1>1, <1>2

\* Half of the full rounds come before the partial ones.
LEMMA Halves == Half \in Nat \ {0} /\ FullRounds = 2 * Half
  BY PoseidonAssumption DEF Half

LEMMA InitOrder == Init => OrderInv
<1> SUFFICES ASSUME Init PROVE OrderInv
  OBVIOUS
<1> QED
  BY DEF Init, OrderInv, InOrder, Hashed

\* A full round in its turn reads the row of C that comes next.
LEMMA FullRoundOrder ==
  ASSUME OrderInv, Running, NEW STATE base, NEW CONSTANT matrix, FullRound(base, matrix),
         round < FullRounds + PartialRounds[n],
         base = CursorC, CursorC' = CursorC + t, CursorS' = CursorS
  PROVE  OrderInv'
<1> USE DEF FullRound
<1>1. Accepted /\ Accepted' /\ n' = n /\ t' = t /\ round' = round + 1
  BY DEF OrderInv, Running, Accepted, n, t
<1>2. t \in Nat /\ readC.count \in Nat /\ round \in Nat /\ PartialRounds[n] \in Nat
  BY <1>1, Sizes DEF OrderInv, Running
<1>3. readC'.count = CursorC' /\ InOrder(readC') /\ readC'.count \in Nat
  <2>1. InOrder(readC) /\ base = readC.count /\ readC' = Touch(readC, readC.count, t)
    BY DEF OrderInv, Running
  <2>2. readC'.count = readC.count + t /\ InOrder(readC')
    BY <1>2, <2>1, TouchInOrder
  <2> QED
    BY <1>2, <2>1, <2>2
<1>4. readS'.count = CursorS' /\ InOrder(readS)'
  BY DEF OrderInv, Running, InOrder
<1>5. state' # <<>>
  <2>1. DOMAIN state' = Slots
    BY <1>1, SlotsAre DEF Mix
  <2> QED
    BY <1>1, <2>1, NotEmpty
<1>6. ~Hashed'
  BY DEF Hashed, Running
<1>7. round' \in 0..(FullRounds + PartialRounds[n])'
  BY <1>1, <1>2, Halves
<1> QED
  BY <1>1, <1>3, <1>4, <1>5, <1>6, <1>7 DEF OrderInv, InOrder, Running

LEMMA FirstRoundOrder == OrderInv /\ FirstRound => OrderInv'
<1> SUFFICES ASSUME OrderInv, FirstRound PROVE OrderInv'
  OBVIOUS
<1>1. n' = n /\ t' = t /\ round' = round + 1 /\ Running /\ round < Half - 1
  BY DEF FirstRound, FullRound, n, t
<1>2. Accepted /\ t \in Nat /\ round \in Nat /\ PartialRounds[n] \in Nat /\ Half \in Nat
  BY <1>1, Sizes, Halves DEF OrderInv, Running
<1>3. CursorC = (round + 1) * t /\ CursorS = 0 /\ CursorS' = 0
  BY <1>1, <1>2 DEF CursorC, CursorS
<1>4. CursorC' = ((round + 1) + 1) * t
  BY <1>1, <1>2 DEF CursorC
<1>5. CursorC' = CursorC + t
  BY <1>2, <1>3, <1>4, NextRow
<1>6. round < FullRounds + PartialRounds[n]
  BY <1>1, <1>2, Halves
<1> QED
  BY <1>1, <1>3, <1>5, <1>6, FullRoundOrder DEF FirstRound

LEMMA MiddleRoundOrder == OrderInv /\ MiddleRound => OrderInv'
<1> SUFFICES ASSUME OrderInv, MiddleRound PROVE OrderInv'
  OBVIOUS
<1>1. n' = n /\ t' = t /\ round' = round + 1 /\ Running /\ round = Half - 1
  BY DEF MiddleRound, FullRound, n, t
<1>2. Accepted /\ t \in Nat /\ PartialRounds[n] \in Nat /\ Half \in Nat \ {0}
  BY <1>1, Sizes, Halves DEF OrderInv, Running
<1>3. CursorC = Half * t /\ CursorS = 0
  BY <1>1, <1>2 DEF CursorC, CursorS
<1>4. CursorC' = (Half + 1) * t
  BY <1>1, <1>2 DEF CursorC
<1>5. CursorS' = 0
  <2>1. (t * 2 - 1) * 0 = 0
    BY <1>2
  <2> QED
    BY <1>1, <1>2, <2>1 DEF CursorS
<1>6. CursorC' = CursorC + t
  BY <1>2, <1>3, <1>4, NextRow
<1>7. round < FullRounds + PartialRounds[n]
  BY <1>1, <1>2, Halves
<1> QED
  BY <1>1, <1>3, <1>5, <1>6, <1>7, FullRoundOrder DEF MiddleRound

LEMMA SecondRoundOrder == OrderInv /\ SecondRound => OrderInv'
<1> SUFFICES ASSUME OrderInv, SecondRound PROVE OrderInv'
  OBVIOUS
<1> DEFINE r == round - Half - PartialRounds[n]
           start == (Half + 1) * t + PartialRounds[n]
<1>1. n' = n /\ t' = t /\ round' = round + 1 /\ Running /\ r \in 0..(Half - 2)
  BY DEF SecondRound, FullRound, n, t
<1>2. Accepted /\ t \in Nat /\ PartialRounds[n] \in Nat /\ Half \in Nat \ {0}
      /\ round \in Nat
  BY <1>1, Sizes, Halves DEF OrderInv, Running
<1>3. start \in Nat
  BY <1>2
<1>4. CursorC = start + r * t
  <2>1. CASE round <= Half
    <3>1. r = 0 /\ round = Half /\ PartialRounds[n] = 0
      BY <1>1, <1>2, <2>1
    <3>2. 0 * t = 0
      BY <1>2
    <3> QED
      BY <1>2, <1>3, <3>1, <3>2 DEF CursorC
  <2>2. CASE round > Half
    BY <1>1, <1>2, <2>2 DEF CursorC
  <2> QED
    BY <1>2, <2>1, <2>2
<1>5. CursorC' = start + (r + 1) * t
  <2>1. round' > Half /\ round' - Half - PartialRounds[n] = r + 1 /\ r + 1 \in 0..(Half - 1)
    BY <1>1, <1>2
  <2> QED
    BY <1>1, <1>2, <2>1 DEF CursorC
<1>6. CursorC' = CursorC + t
  <2>1. r \in Nat /\ r * t \in Nat
    BY <1>1, <1>2
  <2> HIDE DEF start, r
  <2> QED
    BY <1>2, <1>3, <1>4, <1>5, <2>1, NextRow
<1>7. CursorS' = CursorS
  BY <1>1, <1>2 DEF CursorS
<1>8. round < FullRounds + PartialRounds[n]
  BY <1>1, <1>2, Halves
<1> QED
  BY <1>1, <1>4, <1>6, <1>7, <1>8, FullRoundOrder DEF SecondRound

LEMMA PartialRoundOrder == OrderInv /\ PartialRound => OrderInv'
<1> SUFFICES ASSUME OrderInv, PartialRound PROVE OrderInv'
  OBVIOUS
<1> DEFINE r == round - Half
           width == t * 2 - 1
           RP == PartialRounds[n]
<1>1. /\ n' = n /\ t' = t /\ round' = round + 1 /\ Running /\ r \in 0..(RP - 1)
      /\ Accepted'= Accepted /\ output' = output
  BY DEF PartialRound, n, t, Accepted
<1>2. Accepted /\ t \in Nat /\ RP \in Nat /\ Half \in Nat \ {0} /\ round \in Nat /\ t > 0
  BY <1>1, Sizes, Halves DEF OrderInv, Running, t
<1>3. width \in Nat /\ (Half + 1) * t \in Nat
  BY <1>2
<1>4. CursorC = (Half + 1) * t + r
  BY <1>1, <1>2, <1>3 DEF CursorC
<1>5. CursorC' = CursorC + 1
  <2>1. CASE r + 1 < RP
    BY <1>1, <1>2, <1>3, <1>4, <2>1 DEF CursorC
  <2>2. CASE r + 1 = RP
    <3>1. 0 * t = 0
      BY <1>2
    <3>2. round' > Half /\ round' - Half - RP = 0
      BY <1>1, <1>2, <2>2
    <3>3. CursorC' = (Half + 1) * t + RP + 0 * t
      BY <1>1, <1>2, <3>2 DEF CursorC
    <3> QED
      BY <1>2, <1>3, <1>4, <2>2, <3>1, <3>3
  <2> QED
    BY <1>1, <1>2, <2>1, <2>2
<1>6. CursorS = width * r
  BY <1>1, <1>2 DEF CursorS
<1>7. CursorS' = width * (r + 1)
  <2>1. round' - Half = r + 1 /\ ~(r + 1 < 0)
    BY <1>1, <1>2
  <2>2. CASE r + 1 < RP
    BY <1>1, <2>1, <2>2 DEF CursorS
  <2>3. CASE r + 1 = RP
    BY <1>1, <2>1, <2>3 DEF CursorS
  <2> QED
    BY <1>1, <1>2, <2>2, <2>3
<1>8. CursorS' = CursorS + t + (t - 1)
  <2>1. r \in Nat /\ width * r \in Nat /\ width * r = r * width
       /\ width * (r + 1) = (r + 1) * width
    BY <1>1, <1>2, <1>3
  <2>2. (r + 1) * width = r * width + width
    BY <1>3, <2>1, NextRow
  <2>3. CursorS' = CursorS + width
    BY <1>6, <1>7, <2>1, <2>2
  <2> QED
    BY <1>2, <1>3, <1>6, <2>1, <2>3
<1>9. readC'.count = CursorC' /\ InOrder(readC') /\ readC'.count \in Nat
  <2>1. /\ InOrder(readC) /\ readC.count \in Nat /\ readC.count = CursorC
        /\ readC' = Touch(readC, (Half + 1) * t + r, 1)
    BY <1>1 DEF OrderInv, Running, PartialRound
  <2>2. readC' = Touch(readC, readC.count, 1)
    BY <1>4, <2>1
  <2>3. readC'.count = readC.count + 1 /\ InOrder(readC')
    BY <2>1, <2>2, TouchInOrder
  <2> QED
    BY <1>5, <2>1, <2>3
<1>10. readS'.count = CursorS' /\ InOrder(readS') /\ readS'.count \in Nat
  <2> DEFINE first == Touch(readS, readS.count, t)
  <2>1. InOrder(readS) /\ readS.count \in Nat /\ readS.count = width * r
    BY <1>1, <1>6 DEF OrderInv, Running
  <2>2. readS' = Touch(Touch(readS, width * r, t), width * r + t, t - 1)
    BY DEF PartialRound
  <2>3. first.count = readS.count + t /\ InOrder(first)
    BY <1>2, <2>1, TouchInOrder
  <2>4. readS' = Touch(first, first.count, t - 1)
    BY <2>1, <2>2, <2>3
  <2>5. first.count \in Nat /\ t - 1 \in Nat
    BY <1>2, <2>1, <2>3
  <2> HIDE DEF first
  <2>6. readS'.count = first.count + (t - 1) /\ InOrder(readS')
    BY <2>3, <2>4, <2>5, TouchInOrder
  <2> QED
    BY <1>2, <1>6, <1>8, <2>1, <2>3, <2>5, <2>6
<1>11. state' # <<>>
  <2>1. DOMAIN state' = Slots
    BY <1>2, SlotsAre DEF PartialRound, MixSparse
  <2> QED
    BY <1>2, <2>1, NotEmpty
<1>12. ~Hashed' /\ round' \in 0..(FullRounds + RP)
  BY <1>1, <1>2, Halves DEF Hashed, Running
<1> QED
  BY <1>1, <1>2, <1>9, <1>10, <1>11, <1>12 DEF OrderInv, InOrder

LEMMA LastRoundOrder == OrderInv /\ LastRound => OrderInv'
<1> SUFFICES ASSUME OrderInv, LastRound PROVE OrderInv'
  OBVIOUS
<1> DEFINE RP == PartialRounds[n]
<1>1. /\ n' = n /\ t' = t /\ round' = round + 1 /\ Running /\ round = FullRounds + RP - 1
      /\ Accepted' = Accepted /\ readC' = readC /\ readS' = readS
  BY DEF LastRound, n, t, Accepted
<1>2. Accepted /\ t \in Nat /\ RP \in Nat /\ Half \in Nat \ {0} /\ FullRounds = 2 * Half
  BY <1>1, Sizes, Halves DEF OrderInv, Running
<1>3. CursorC = FullRounds * t + RP
  <2>1. (Half + 1) * t + (Half - 1) * t = FullRounds * t
    BY <1>2
  <2>2. (Half + 1) * t \in Nat /\ (Half - 1) * t \in Nat
    BY <1>2
  <2>3. CASE round <= Half
    <3>1. Half = 1 /\ RP = 0 /\ round = 1
      <4> HIDE DEF RP
      <4>1. round = 2 * Half + RP - 1 /\ RP \in Nat /\ Half \in Nat \ {0}
        BY <1>1, <1>2
      <4> QED
        BY <2>3, <4>1
    <3>2. CursorC = 2 * t
      BY <1>2, <3>1 DEF CursorC
    <3> QED
      BY <1>2, <3>1, <3>2
  <2>4. CASE round > Half
    <3>1. round - Half - RP = Half - 1
      BY <1>1, <1>2
    <3>2. CursorC = (Half + 1) * t + RP + (Half - 1) * t
      BY <1>1, <1>2, <2>4, <3>1 DEF CursorC
    <3> QED
      BY <1>2, <2>1, <2>2, <3>2
  <2> QED
    BY <1>1, <1>2, <2>3, <2>4
<1>4. CursorC' = FullRounds * t + RP
  <2>1. round' > Half /\ round' - Half - RP = Half
    BY <1>1, <1>2
  <2> QED
    BY <1>1, <1>2, <2>1 DEF CursorC
<1>5. CursorS' = CursorS
  <2>1. CASE round - Half < RP
    <3>1. Half = 1 /\ round - Half = RP
      BY <1>1, <1>2, <2>1
    <3> QED
      BY <1>2, <2>1, <3>1
  <2>2. CASE ~(round - Half < RP)
    BY <1>1, <1>2, <2>2 DEF CursorS
  <2> QED
    BY <2>1, <2>2
<1>6. state' # <<>>
  <2>1. DOMAIN state' = Slots
    BY <1>2, SlotsAre DEF LastRound, Mix
  <2> QED
    BY <1>2, <2>1, NotEmpty
<1>7. round' = FullRounds + RP /\ round' \in 0..(FullRounds + RP)
  BY <1>1, <1>2
<1> QED
  BY <1>1, <1>2, <1>3, <1>4, <1>5, <1>6, <1>7 DEF OrderInv, InOrder, Running

LEMMA NextOrder == OrderInv /\ [Next]_vars => OrderInv'
<1> SUFFICES ASSUME OrderInv, [Next]_vars PROVE OrderInv'
  OBVIOUS
<1>1. CASE Refuse
  <2>1. state = <<>> /\ state' = <<>> /\ round' = round /\ readC' = readC /\ readS' = readS
    BY <1>1 DEF Refuse, OrderInv
  <2> QED
    BY <2>1 DEF OrderInv, InOrder, Hashed
<1>2. CASE Absorb
  <2>1. /\ state = <<>> /\ Accepted /\ Accepted' /\ n' = n /\ t' = t /\ round' = 0
        /\ output' = None /\ readS' = readS /\ readC' = Touch(readC, 0, t)
        /\ readC.count = 0 /\ readS.count = 0 /\ InOrder(readC) /\ InOrder(readS)
    BY <1>2 DEF Absorb, OrderInv, Accepted, n, t
  <2>2. t \in Nat /\ PartialRounds[n] \in Nat /\ Half \in Nat \ {0} /\ FullRounds \in Nat
    BY <2>1, Sizes, Halves
  <2>3. readC'.count = t /\ InOrder(readC')
    <3>1. readC' = Touch(readC, readC.count, t)
      BY <2>1
    <3>2. readC'.count = 0 + t /\ InOrder(readC')
      BY <2>1, <2>2, <3>1, TouchInOrder
    <3> QED
      BY <2>2, <3>2
  <2>4. CursorC' = t /\ CursorS' = 0
    <3>1. (0 + 1) * t = t
      BY <2>2
    <3> QED
      BY <2>1, <2>2, <3>1 DEF CursorC, CursorS
  <2>5. ~Hashed' /\ round' \in 0..(FullRounds + PartialRounds[n])
    BY <2>1, <2>2 DEF Hashed
  <2>6. state' # <<>>
    <3>1. DOMAIN state' = Slots
      BY <1>2 DEF Absorb, AddFrom
    <3> QED
      BY <2>1, <3>1, NotEmpty
  <2> QED
    BY <2>1, <2>2, <2>3, <2>4, <2>5, <2>6 DEF OrderInv, InOrder
<1>3. CASE FirstRound
  BY <1>3, FirstRoundOrder
<1>4. CASE MiddleRound
  BY <1>4, MiddleRoundOrder
<1>5. CASE PartialRound
  BY <1>5, PartialRoundOrder
<1>6. CASE SecondRound
  BY <1>6, SecondRoundOrder
<1>7. CASE LastRound
  BY <1>7, LastRoundOrder
<1>8. CASE UNCHANGED vars
  BY <1>8 DEF vars, OrderInv, InOrder, Hashed, Accepted, CursorC, CursorS, n, t
<1> QED
  BY <1>1, <1>2, <1>3, <1>4, <1>5, <1>6, <1>7, <1>8 DEF Next

LEMMA OrderGives == OrderInv => ConstantsOnce
<1> SUFFICES ASSUME OrderInv PROVE ConstantsOnce
  OBVIOUS
<1>1. ASSUME Hashed
      PROVE  /\ readC.count = FullRounds * t + PartialRounds[n]
             /\ readS.count = (t * 2 - 1) * PartialRounds[n]
  <2>1. Accepted /\ round = FullRounds + PartialRounds[n]
    BY <1>1 DEF OrderInv, Hashed
  <2>2. t \in Nat /\ PartialRounds[n] \in Nat /\ Half \in Nat \ {0} /\ FullRounds = 2 * Half
    BY <2>1, Sizes, Halves
  <2>3. round > Half /\ round - Half - PartialRounds[n] = Half
       /\ ~(round - Half < PartialRounds[n])
    BY <2>1, <2>2
  <2> QED
    BY <1>1, <2>2, <2>3 DEF OrderInv, Hashed, CursorC, CursorS
<1> QED
  BY <1>1 DEF OrderInv, ConstantsOnce

\* The rounds of the code read each constant of its tables once and in order,
\* whatever the number of inputs: the offsets of poseidon.ts are right for all
\* sixteen sizes, not only for the small ones TLC runs.
THEOREM ConstantsOnceHolds == Spec => []ConstantsOnce
<1>1. Spec => []OrderInv
  BY InitOrder, NextOrder, PTL DEF Spec
<1> QED
  BY <1>1, OrderGives, PTL

-----------------------------------------------------------------------------
(* The field.                                                              *)

\* The operations reduce their results to the field.
LEMMA FieldOps ==
  /\ Field \subseteq Int /\ 0 \in Field
  /\ \A v \in Int : Mod(v) \in Field
  /\ \A v, w \in Int : Add(v, w) \in Field /\ Mul(v, w) \in Field
<1>1. \A v \in Int : Mod(v) \in Field
  BY PoseidonAssumption DEF Mod, Field
<1>2. Field \subseteq Int /\ 0 \in Field
  BY PoseidonAssumption DEF Field
<1>3. \A v, w \in Int : v + w \in Int /\ v * w \in Int
  OBVIOUS
<1> QED
  BY <1>1, <1>2, <1>3 DEF Add, Mul

\* Its elements are numbers.
LEMMA FieldElements == Field \subseteq Int /\ 0 \in Field
  BY FieldOps

LEMMA Pow5InField == \A v \in Int : Pow5(v) \in Field
<1> SUFFICES ASSUME NEW v \in Int PROVE Pow5(v) \in Field
  OBVIOUS
<1>1. Mul(v, v) \in Int
  BY FieldOps
<1>2. Mul(Mul(v, v), Mul(v, v)) \in Int
  BY <1>1, FieldOps
<1> QED
  BY <1>2, FieldOps DEF Pow5

\* The least element of a set of natural numbers: induction is argued from the
\* least counterexample.
LEMMA Least == 
  ASSUME NEW T, T \subseteq Nat, T # {}
  PROVE  \E m \in T : \A k \in T : m <= k
<1>1. IsWellFoundedOn(OpToRel(<, Nat), Nat)
  BY NatLessThanWellFounded
<1>2. PICK m \in T : \A k \in T : ~ (<<k, m>> \in OpToRel(<, Nat))
  BY <1>1, WFMin
<1>3. \A k \in T : ~ (k < m)
  BY <1>2 DEF OpToRel
<1> QED BY <1>3

\* The sum is a function, however long.
LEMMA SumExists ==
  ASSUME NEW f, NEW k \in Nat
  PROVE  \E g : g = [i \in 0..k |-> IF i = 0 THEN 0 ELSE Add(g[i - 1], f[i - 1])]
<1> DEFINE Bad ==
      {m \in Nat : ~ \E g : g = [i \in 0..m |-> IF i = 0 THEN 0 ELSE Add(g[i - 1], f[i - 1])]}
<1> SUFFICES ASSUME Bad # {} PROVE FALSE
  OBVIOUS
<1>1. PICK m \in Bad : \A x \in Bad : m <= x
  BY Least
<1>2. m \in Nat
  OBVIOUS
<1>3. CASE m = 0
  <2> DEFINE g == [i \in 0..m |-> 0]
  <2>1. g = [i \in 0..m |-> IF i = 0 THEN 0 ELSE Add(g[i - 1], f[i - 1])]
    BY <1>3
  <2> QED
    BY <2>1
<1>4. CASE m # 0
  <2>1. m - 1 \in Nat /\ m - 1 \notin Bad
    BY <1>1, <1>2, <1>4
  <2>2. PICK g : g = [i \in 0..(m - 1) |-> IF i = 0 THEN 0 ELSE Add(g[i - 1], f[i - 1])]
    BY <2>1
  <2> DEFINE h == [i \in 0..m |-> IF i = m THEN Add(g[m - 1], f[m - 1]) ELSE g[i]]
  <2>3. \A i \in 0..m : h[i] = IF i = 0 THEN 0 ELSE Add(h[i - 1], f[i - 1])
    <3> SUFFICES ASSUME NEW i \in 0..m PROVE h[i] =
               IF i = 0 THEN 0 ELSE Add(h[i - 1], f[i - 1])
      OBVIOUS
    <3>1. CASE i = m
      BY <1>2, <1>4, <3>1
    <3>2. CASE i # m
      <4>1. i \in 0..(m - 1) /\ (i # 0 => i - 1 \in 0..(m - 1))
        BY <1>2, <3>2
      <4>2. h[i] = g[i] /\ (i # 0 => h[i - 1] = g[i - 1])
        BY <1>2, <3>2, <4>1
      <4>3. g[i] = IF i = 0 THEN 0 ELSE Add(g[i - 1], f[i - 1])
        BY <2>2, <4>1
      <4> QED
        BY <4>2, <4>3
    <3> QED
      BY <3>1, <3>2
  <2>4. h = [i \in 0..m |-> IF i = 0 THEN 0 ELSE Add(h[i - 1], f[i - 1])]
    <3>1. h = [i \in 0..m |-> h[i]]
      OBVIOUS
    <3> HIDE DEF h
    <3> QED
      BY <2>3, <3>1
  <2> QED
    BY <1>2, <2>4
<1> QED
  BY <1>3, <1>4

\* A sum of integers adds them one after the other, in the field.
LEMMA PartialSums ==
  ASSUME NEW f, NEW k \in Nat, \A i \in 0..(k - 1) : f[i] \in Int
  PROVE  \E sum \in [0..k -> Field] :
           /\ sum[0] = 0
           /\ \A i \in 1..k : sum[i] = Add(sum[i - 1], f[i - 1])
           /\ Total(f, k) = sum[k]
<1> DEFINE sum ==
      CHOOSE g : g = [i \in 0..k |-> IF i = 0 THEN 0 ELSE Add(g[i - 1], f[i - 1])]
<1>1. sum = [i \in 0..k |-> IF i = 0 THEN 0 ELSE Add(sum[i - 1], f[i - 1])]
  BY SumExists
<1>2. Total(f, k) = sum[k]
  BY DEF Total
<1> HIDE DEF sum
<1>3. sum[0] = 0 /\ \A i \in 1..k : sum[i] = Add(sum[i - 1], f[i - 1])
  BY <1>1
<1> DEFINE Bad == {i \in Nat : i <= k /\ sum[i] \notin Field}
<1>4. Bad = {}
  <2> SUFFICES ASSUME Bad # {} PROVE FALSE
    OBVIOUS
  <2>1. PICK m \in Bad : \A x \in Bad : m <= x
    BY Least
  <2>2. m \in Nat /\ m <= k /\ sum[m] \notin Field
    OBVIOUS
  <2>3. m # 0
    BY <1>3, <2>2, FieldOps
  <2>4. m - 1 \notin Bad /\ m - 1 \in Nat
    BY <2>1, <2>2, <2>3
  <2>5. sum[m - 1] \in Field /\ f[m - 1] \in Int
    BY <2>2, <2>3, <2>4
  <2>6. sum[m] = Add(sum[m - 1], f[m - 1])
    BY <1>3, <2>2, <2>3
  <2> QED
    BY <2>2, <2>5, <2>6, FieldOps
<1>5. sum \in [0..k -> Field]
  <2>1. \A i \in 0..k : sum[i] \in Field
    BY <1>4
  <2> QED
    BY <1>1, <2>1
<1> QED
  BY <1>2, <1>3, <1>5

\* A sum of integers is in the field.
LEMMA TotalInField ==
  ASSUME NEW f, NEW k \in Nat, \A i \in 0..(k - 1) : f[i] \in Int
  PROVE  Total(f, k) \in Field
  BY PartialSums

-----------------------------------------------------------------------------
(* Arithmetic in the field.                                                *)

LEMMA RemainderIsUnique ==
  ASSUME NEW w \in Nat \ {0}, NEW q \in Int, NEW r \in 0..(w - 1),
         NEW p \in Int, NEW s \in 0..(w - 1), q * w + r = p * w + s
  PROVE  r = s
<1>1. (q - p) * w = s - r
  OBVIOUS
<1>2. CASE q - p >= 1
  <2>1. (q - p) * w >= w
    BY <1>2
  <2> QED
    BY <1>1, <2>1
<1>3. CASE q - p <= -1
  <2>1. (q - p) * w <= -w
    BY <1>3
  <2> QED
    BY <1>1, <2>1
<1>4. CASE q = p
  <2>1. (q - p) * w = 0
    BY <1>4
  <2> QED
    BY <1>1, <2>1
<1> QED
  BY <1>2, <1>3, <1>4

\* A number is its remainder and a multiple of the modulus.
LEMMA ModSplits == \A v \in Int : \E q \in Int : v = q * Modulus + Mod(v)
<1> SUFFICES ASSUME NEW v \in Int PROVE \E q \in Int : v = q * Modulus + Mod(v)
  OBVIOUS
<1>1. v \div Modulus \in Int /\ v = (v \div Modulus) * Modulus + Mod(v)
  BY PoseidonAssumption DEF Mod
<1> QED
  BY <1>1

\* Numbers that differ by a multiple of the modulus are one in the field.
LEMMA ModDrops ==
  ASSUME NEW v \in Int, NEW q \in Int
  PROVE  Mod(v + q * Modulus) = Mod(v)
<1>1. Modulus \in Nat \ {0} /\ v + q * Modulus \in Int
  BY PoseidonAssumption
<1>2. PICK a \in Int : v = a * Modulus + Mod(v)
  BY ModSplits
<1>3. PICK b \in Int : v + q * Modulus = b * Modulus + Mod(v + q * Modulus)
  BY <1>1, ModSplits
<1>4. Mod(v) \in 0..(Modulus - 1) /\ Mod(v + q * Modulus) \in 0..(Modulus - 1)
  BY <1>1, FieldOps DEF Field
<1> DEFINE x == Mod(v)
           y == Mod(v + q * Modulus)
<1>5. (a + q) * Modulus + x = b * Modulus + y /\ a + q \in Int
  <2>1. (a + q) * Modulus = a * Modulus + q * Modulus
    BY <1>1
  <2>2. a * Modulus \in Int /\ q * Modulus \in Int /\ b * Modulus \in Int
    BY <1>1
  <2>3. x \in Int /\ y \in Int
    BY <1>1, <1>4
  <2> HIDE DEF x, y
  <2>4. v = a * Modulus + x /\ v + q * Modulus = b * Modulus + y
    BY <1>2, <1>3 DEF x, y
  <2> QED
    BY <2>1, <2>2, <2>3, <2>4
<1>6. x \in 0..(Modulus - 1) /\ y \in 0..(Modulus - 1)
  BY <1>4
<1> HIDE DEF x, y
<1>7. x = y
  BY <1>1, <1>5, <1>6, RemainderIsUnique
<1> QED
  BY <1>7 DEF x, y

\* Reducing early changes nothing.
LEMMA ModEarly ==
  ASSUME NEW a \in Int, NEW b \in Int
  PROVE  /\ Mod(Mod(a) + b) = Mod(a + b)
         /\ Mod(b + Mod(a)) = Mod(a + b)
         /\ Mod(b * Mod(a)) = Mod(b * a)
<1>1. PICK q \in Int : a = q * Modulus + Mod(a)
  BY ModSplits
<1> DEFINE x == Mod(a)
<1>2. x \in Int /\ Modulus \in Int /\ a = q * Modulus + x
  <2>1. Modulus \in Int
    BY PoseidonAssumption
  <2>2. Mod(a) \in Field
    BY FieldOps
  <2>3. Mod(a) \in Int
    BY <2>2, FieldOps
  <2> QED
    BY <1>1, <2>1, <2>3
<1> HIDE DEF x
<1>3. Mod(x + b) = Mod(a + b)
  <2>1. (x + b) + q * Modulus = a + b /\ x + b \in Int
    BY <1>2
  <2> QED
    BY <2>1, ModDrops
<1>4. Mod(b * x) = Mod(b * a)
  <2>1. b * a = b * x + (b * q) * Modulus /\ b * x \in Int /\ b * q \in Int
    BY <1>2
  <2> QED
    BY <2>1, ModDrops
<1>5. b + x = x + b
  BY <1>2
<1> QED
  BY <1>3, <1>4, <1>5 DEF x

\* A number of the field is its own remainder.
LEMMA ModOfField == \A v \in Field : Mod(v) = v
<1> SUFFICES ASSUME NEW v \in Field PROVE Mod(v) = v
  OBVIOUS
<1>1. v \in 0..(Modulus - 1) /\ Modulus \in Nat \ {0} /\ Mod(v) \in 0..(Modulus - 1)
  BY PoseidonAssumption, FieldOps DEF Field
<1>2. PICK q \in Int : v = q * Modulus + Mod(v)
  <2>1. v \in Int
    BY <1>1
  <2> QED
    BY <2>1, ModSplits
<1>3. q * Modulus + Mod(v) = 0 * Modulus + v
  BY <1>1, <1>2
<1> QED
  BY <1>1, <1>3, RemainderIsUnique

\* Multiplication distributes over addition.
LEMMA MulOfSum ==
  ASSUME NEW a \in Int, NEW b \in Int, NEW c \in Int
  PROVE  Mul(c, Add(a, b)) = Add(Mul(c, a), Mul(c, b))
<1>1. /\ a + b \in Int /\ c * a \in Int /\ c * b \in Int
      /\ c * (a + b) = c * a + c * b /\ c * b + c * a = c * a + c * b
  OBVIOUS
<1>2. Mod(c * Mod(a + b)) = Mod(c * a + c * b)
  BY <1>1, ModEarly
<1>3. Mod(Mod(c * a) + Mod(c * b)) = Mod(c * a + Mod(c * b))
  <2>1. Mod(c * b) \in Int
    BY <1>1, FieldOps
  <2> QED
    BY ONLY <1>1, <2>1, ModEarly
<1>4. Mod(c * a + Mod(c * b)) = Mod(c * b + c * a)
  BY <1>1, ModEarly
<1> QED
  BY <1>1, <1>2, <1>3, <1>4 DEF Add, Mul

\* Sums of four numbers may be paired either way.
LEMMA Interchange ==
  ASSUME NEW a \in Int, NEW b \in Int, NEW c \in Int, NEW d \in Int
  PROVE  Add(Add(a, b), Add(c, d)) = Add(Add(a, c), Add(b, d))
<1>1. /\ a + b \in Int /\ c + d \in Int /\ a + c \in Int /\ b + d \in Int
      /\ a + b + (c + d) = a + c + (b + d)
  OBVIOUS
<1>2. ASSUME NEW x \in Int, NEW y \in Int
      PROVE  Mod(Mod(x) + Mod(y)) = Mod(x + y)
  <2>1. Mod(y) \in Int
    <3>1. Mod(y) \in Field
      BY FieldOps
    <3> QED
      BY <3>1, FieldOps
  <2>2. Mod(Mod(x) + Mod(y)) = Mod(x + Mod(y))
    BY <2>1, ModEarly
  <2>3. Mod(x + Mod(y)) = Mod(y + x)
    BY ModEarly
  <2>4. y + x = x + y
    OBVIOUS
  <2> QED
    BY <2>2, <2>3, <2>4
<1> QED
  BY <1>1, <1>2 DEF Add

\* The sum of sums is the sum of the two sums.
LEMMA TotalOfSums ==
  ASSUME NEW f, NEW g, NEW h, NEW k \in Nat,
         \A i \in 0..(k - 1) : f[i] \in Int /\ g[i] \in Int /\ h[i] = Add(f[i], g[i])
  PROVE  Total(h, k) = Add(Total(f, k), Total(g, k))
<1>1. \A i \in 0..(k - 1) : h[i] \in Int
  BY FieldOps
<1>2. PICK F \in [0..k -> Field] :
       /\ F[0] = 0
       /\ \A i \in 1..k : F[i] = Add(F[i - 1], f[i - 1])
       /\ Total(f, k) = F[k]
  BY PartialSums
<1>3. PICK G \in [0..k -> Field] :
       /\ G[0] = 0
       /\ \A i \in 1..k : G[i] = Add(G[i - 1], g[i - 1])
       /\ Total(g, k) = G[k]
  BY PartialSums
<1>4. PICK H \in [0..k -> Field] :
       /\ H[0] = 0
       /\ \A i \in 1..k : H[i] = Add(H[i - 1], h[i - 1])
       /\ Total(h, k) = H[k]
  BY <1>1, PartialSums
<1> DEFINE Bad == {i \in Nat : i <= k /\ H[i] # Add(F[i], G[i])}
<1>5. Bad = {}
  <2> SUFFICES ASSUME Bad # {} PROVE FALSE
    OBVIOUS
  <2>1. PICK m \in Bad : \A x \in Bad : m <= x
    BY Least
  <2>2. m \in Nat /\ m <= k /\ H[m] # Add(F[m], G[m])
    OBVIOUS
  <2>3. m # 0
    <3>1. Add(0, 0) = 0
      <4>1. 0 + 0 = 0 /\ 0 \in Field
        BY FieldOps
      <4> QED
        BY <4>1, ModOfField DEF Add
    <3> QED
      BY <1>2, <1>3, <1>4, <2>2, <3>1
  <2>4. m - 1 \notin Bad /\ m - 1 \in 0..(k - 1) /\ m \in 1..k
    BY <2>1, <2>2, <2>3
  <2>5. H[m - 1] = Add(F[m - 1], G[m - 1])
    BY <2>4
  <2>6. /\ F[m - 1] \in Int /\ G[m - 1] \in Int
        /\ f[m - 1] \in Int /\ g[m - 1] \in Int /\ h[m - 1] = Add(f[m - 1], g[m - 1])
    <3>1. F[m - 1] \in Field /\ G[m - 1] \in Field
      BY <2>4
    <3> QED
      BY <2>4, <3>1, FieldOps
  <2>7. H[m] = Add(Add(F[m - 1], G[m - 1]), Add(f[m - 1], g[m - 1]))
    BY <1>4, <2>4, <2>5, <2>6
  <2>8. F[m] = Add(F[m - 1], f[m - 1]) /\ G[m] = Add(G[m - 1], g[m - 1])
    BY <1>2, <1>3, <2>4
  <2> QED
    BY <2>2, <2>6, <2>7, <2>8, Interchange
<1>6. H[k] = Add(F[k], G[k])
  BY <1>5
<1> QED
  BY <1>2, <1>3, <1>4, <1>6

\* A sum with one term is that term.
LEMMA TotalOfOne ==
  ASSUME NEW f, NEW k \in Nat, NEW j \in 0..(k - 1), f[j] \in Field,
         \A i \in 0..(k - 1) : i # j => f[i] = 0
  PROVE  Total(f, k) = f[j]
<1>1. \A i \in 0..(k - 1) : f[i] \in Int
  BY FieldElements
<1>2. PICK F \in [0..k -> Field] :
       /\ F[0] = 0
       /\ \A i \in 1..k : F[i] = Add(F[i - 1], f[i - 1])
       /\ Total(f, k) = F[k]
  BY <1>1, PartialSums
<1>3. \A x \in Field : Add(x, 0) = x /\ Add(0, x) = x
  <2> SUFFICES ASSUME NEW x \in Field PROVE Add(x, 0) = x /\ Add(0, x) = x
    OBVIOUS
  <2>1. x \in Int
    BY FieldOps
  <2>2. x + 0 = x /\ 0 + x = x
    BY <2>1
  <2> QED
    BY <2>2, ModOfField DEF Add
<1> DEFINE Due(i) == IF i <= j THEN 0 ELSE f[j]
           Bad == {i \in Nat : i <= k /\ F[i] # Due(i)}
<1>4. Bad = {}
  <2> SUFFICES ASSUME Bad # {} PROVE FALSE
    OBVIOUS
  <2>1. PICK m \in Bad : \A x \in Bad : m <= x
    BY Least
  <2>2. m \in Nat /\ m <= k /\ F[m] # Due(m)
    OBVIOUS
  <2>3. m # 0
    BY <1>2, <2>2
  <2>4. m - 1 \notin Bad /\ m - 1 \in 0..(k - 1) /\ m \in 1..k
    BY <2>1, <2>2, <2>3
  <2>5. F[m - 1] = Due(m - 1)
    BY <2>4
  <2>6. F[m] = Add(F[m - 1], f[m - 1])
    BY <1>2, <2>4
  <2>7. 0 \in Field
    BY FieldOps
  <2>8. CASE m <= j
    <3>1. F[m - 1] = 0 /\ f[m - 1] = 0 /\ Due(m) = 0
      BY <2>2, <2>4, <2>5, <2>8
    <3> QED
      BY <1>3, <2>2, <2>6, <2>7, <3>1
  <2>9. CASE m = j + 1
    <3>1. F[m - 1] = 0 /\ f[m - 1] = f[j] /\ Due(m) = f[j]
      BY <2>2, <2>4, <2>5, <2>9
    <3> QED
      BY <1>3, <2>2, <2>6, <3>1
  <2>10. CASE m > j + 1
    <3>1. F[m - 1] = f[j] /\ f[m - 1] = 0 /\ Due(m) = f[j]
      BY <2>2, <2>4, <2>5, <2>10
    <3> QED
      BY <1>3, <2>2, <2>6, <3>1
  <2> QED
    BY <2>2, <2>8, <2>9, <2>10
<1>5. F[k] = Due(k)
  BY <1>4
<1> QED
  BY <1>2, <1>5

-----------------------------------------------------------------------------
(* The rounds keep the state in the field.                                 *)

\* Row a of a table with b rows of w.
LEMMA RowFits ==
  ASSUME NEW a \in Nat, NEW b \in Nat, NEW w \in Nat, NEW i \in Nat, a < b, i < w
  PROVE  a * w + i \in Nat /\ a * w + i < b * w
<1> DEFINE d == b - a - 1
<1>1. d \in Nat /\ b = a + 1 + d
  OBVIOUS
<1> HIDE DEF d
<1>2. b * w = a * w + w + d * w
  BY <1>1
<1>3. d * w \in Nat /\ a * w \in Nat
  BY <1>1
<1> QED
  BY <1>2, <1>3

LEMMA Widths ==
  ASSUME NEW w \in 1..MaxInputs
  PROVE  /\ w \in Nat \ {0} /\ PartialRounds[w] \in Nat
         /\ Half \in Nat \ {0} /\ FullRounds = 2 * Half
  BY PoseidonAssumption, Halves DEF MaxInputs

LEMMA Matrices ==
  ASSUME NEW w \in 1..MaxInputs
  PROVE  \A row, column \in 0..w : M[w][row][column] \in Int /\ P[w][row][column] \in Int
  BY TablesAssumption

\* The row of each full round of the first half, and the one of the inputs.
LEMMA FirstRows ==
  ASSUME NEW w \in 1..MaxInputs, NEW r \in 0..Half
  PROVE  \A i \in 0..w : C[w][r * (w + 1) + i] \in Int
<1> DEFINE len == FullRounds * (w + 1)
<1>1. /\ r \in Nat /\ w + 1 \in Nat /\ FullRounds \in Nat /\ r < FullRounds
      /\ PartialRounds[w] \in Nat
  BY Widths
<1>2. \A i \in 0..w : r * (w + 1) + i \in Nat /\ r * (w + 1) + i < len
  BY <1>1, RowFits
<1>3. len \in Nat /\ \A i \in 0..(len + PartialRounds[w] - 1) : C[w][i] \in Int
  BY <1>1, TablesAssumption
<1> HIDE DEF len
<1>4. \A i \in 0..w : r * (w + 1) + i \in 0..(len + PartialRounds[w] - 1)
  BY <1>1, <1>2, <1>3
<1> QED
  BY <1>3, <1>4

\* The constant of each partial round.
LEMMA PartialConstants ==
  ASSUME NEW w \in 1..MaxInputs, NEW r \in 0..(PartialRounds[w] - 1)
  PROVE  C[w][(Half + 1) * (w + 1) + r] \in Int
<1> DEFINE done == (Half + 1) * (w + 1)
           left == (Half - 1) * (w + 1)
<1>1. /\ FullRounds * (w + 1) = done + left
      /\ done \in Nat /\ left \in Nat /\ PartialRounds[w] \in Nat
  BY Widths
<1> HIDE DEF done, left
<1>2. done + r \in 0..(FullRounds * (w + 1) + PartialRounds[w] - 1)
  BY <1>1
<1> QED
  BY <1>2, TablesAssumption DEF done

\* The row of each full round of the second half.
LEMMA SecondRows ==
  ASSUME NEW w \in 1..MaxInputs, NEW r \in 0..(Half - 2)
  PROVE  \A i \in 0..w : C[w][SecondBase(w) + r * (w + 1) + i] \in Int
<1> DEFINE done == (Half + 1) * (w + 1)
           left == (Half - 1) * (w + 1)
<1>1. /\ FullRounds * (w + 1) = done + left
      /\ done \in Nat /\ left \in Nat /\ PartialRounds[w] \in Nat
  BY Widths
<1>2. r \in Nat /\ Half - 1 \in Nat /\ r < Half - 1 /\ w + 1 \in Nat
  BY Widths
<1>3. \A i \in 0..w : r * (w + 1) + i \in Nat /\ r * (w + 1) + i < left
  BY <1>2, RowFits
<1>4. r * (w + 1) \in Nat
  BY <1>2
<1>5. SecondBase(w) = done + PartialRounds[w]
  BY DEF SecondBase
<1> HIDE DEF done, left
<1>6. \A i \in 0..w : SecondBase(w) + r * (w + 1) + i
                       \in 0..(FullRounds * (w + 1) + PartialRounds[w] - 1)
  BY <1>1, <1>3, <1>4, <1>5
<1> QED
  BY <1>6, TablesAssumption

\* The sparse matrix of each partial round.
LEMMA SparseRows ==
  ASSUME NEW w \in 1..MaxInputs, NEW r \in 0..(PartialRounds[w] - 1)
  PROVE  \A i \in 0..(2 * w) : S[w][(2 * w + 1) * r + i] \in Int
<1> DEFINE width == 2 * w + 1
           len   == PartialRounds[w] * width
<1>1. /\ r \in Nat /\ width \in Nat /\ PartialRounds[w] \in Nat /\ r < PartialRounds[w]
      /\ width = w * 2 + 1
  BY Widths
<1>2. \A i \in 0..(2 * w) : i \in Nat /\ i < width
  BY Widths
<1> HIDE DEF width
<1>3. \A i \in 0..(2 * w) : r * width + i \in Nat /\ r * width + i < len
  BY <1>1, <1>2, RowFits
<1>4. len \in Nat /\ r * width \in Nat /\ r * width = width * r
      /\ len = width * PartialRounds[w]
  BY <1>1
<1> HIDE DEF len
<1>5. \A i \in 0..(2 * w) : width * r + i \in 0..(width * PartialRounds[w] - 1)
  BY <1>3, <1>4
<1>6. \A i \in 0..(width * PartialRounds[w] - 1) : S[w][i] \in Int
  BY <1>1, TablesAssumption
<1> QED
  BY <1>5, <1>6 DEF width

-----------------------------------------------------------------------------
(* The steps of a round keep the state in the field.                       *)

LEMMA MixInField ==
  ASSUME NEW w \in Nat, NEW matrix, NEW st,
         \A row, column \in 0..w : matrix[row][column] \in Int,
         \A i \in 0..w : st[i] \in Int
  PROVE  Mix(w, matrix, st) \in Vector(w)
<1> SUFFICES ASSUME NEW column \in 0..w
             PROVE  Total([row \in 0..w |-> Mul(matrix[row][column], st[row])], w + 1)
                    \in Field
  BY DEF Mix, Vector
<1> DEFINE f == [row \in 0..w |-> Mul(matrix[row][column], st[row])]
<1>1. \A row \in 0..w : f[row] \in Int
  BY FieldOps
<1> HIDE DEF f
<1>2. Total(f, w + 1) \in Field
  BY <1>1, TotalInField
<1> QED
  BY <1>2 DEF f

LEMMA MixSparseInField ==
  ASSUME NEW w \in Nat, NEW base \in Int, NEW st \in Vector(w),
         \A i \in 0..(2 * w) : S[w][base + i] \in Int
  PROVE  MixSparse(w, base, st) \in Vector(w)
<1> DEFINE f == [index \in 0..w |-> Mul(S[w][base + index], st[index])]
<1>0. \A i \in 0..w : st[i] \in Int
  BY FieldOps DEF Vector
<1>1. \A i \in 0..w : f[i] \in Int
  <2> SUFFICES ASSUME NEW i \in 0..w PROVE Mul(S[w][base + i], st[i]) \in Int
    OBVIOUS
  <2>1. S[w][base + i] \in Int
    OBVIOUS
  <2> QED
    BY <1>0, <2>1, FieldOps
<1> HIDE DEF f
<1>2. Total(f, w + 1) \in Field
  BY <1>1, TotalInField
<1>3. ASSUME NEW k \in 0..w, k # 0
      PROVE  Add(st[k], Mul(st[0], S[w][base + w + k])) \in Field
  <2>1. w + k \in 0..(2 * w) /\ base + w + k = base + (w + k)
    OBVIOUS
  <2>2. S[w][base + w + k] \in Int /\ st[0] \in Int /\ st[k] \in Int
    BY <1>0, <2>1
  <2>3. Mul(st[0], S[w][base + w + k]) \in Int
    BY <2>2, FieldOps
  <2> QED
    BY <2>2, <2>3, FieldOps
<1> QED
  BY <1>2, <1>3 DEF MixSparse, Vector, f

LEMMA SboxInField ==
  ASSUME NEW w \in Nat, NEW st \in Vector(w)
  PROVE  SboxAll(st) \in Vector(w)
  BY FieldOps, Pow5InField DEF SboxAll, Vector

LEMMA PlusInField ==
  ASSUME NEW w \in Nat, NEW x, NEW y, \A i \in 0..w : x[i] \in Int /\ y[i] \in Int
  PROVE  Plus(w, x, y) \in Vector(w)
  BY FieldOps DEF Plus, Vector

\* The code adds a row of its table of constants.
LEMMA AddFromIsPlus ==
  ASSUME Accepted, NEW base, NEW st
  PROVE  AddFrom(base, st) = Plus(n, st, RowOfC(n, base))
  BY SlotsAre DEF AddFrom, Plus, RowOfC

LEMMA AbsorbedInField ==
  ASSUME NEW args, Len(args) \in Nat, \A i \in 1..Len(args) : args[i] \in Int
  PROVE  Absorbed(args) \in Vector(Len(args))
  BY FieldOps DEF Absorbed, Vector

-----------------------------------------------------------------------------
(* Matrices and states.                                                    *)

\* A matrix is linear.
LEMMA MixOfPlus ==
  ASSUME NEW w \in Nat, NEW matrix, NEW x, NEW y,
         \A row, column \in 0..w : matrix[row][column] \in Int,
         \A i \in 0..w : x[i] \in Int /\ y[i] \in Int
  PROVE  Mix(w, matrix, Plus(w, x, y)) = Plus(w, Mix(w, matrix, x), Mix(w, matrix, y))
<1> DEFINE F(column) == [row \in 0..w |-> Mul(matrix[row][column], x[row])]
           G(column) == [row \in 0..w |-> Mul(matrix[row][column], y[row])]
           H(column) == [row \in 0..w |-> Mul(matrix[row][column], Plus(w, x, y)[row])]
<1>1. ASSUME NEW column \in 0..w
      PROVE  Total(H(column), w + 1) = Add(Total(F(column), w + 1), Total(G(column), w + 1))
  <2> DEFINE f == F(column)
             g == G(column)
             h == H(column)
  <2>1. ASSUME NEW row \in 0..w
        PROVE  f[row] \in Int /\ g[row] \in Int /\ h[row] = Add(f[row], g[row])
    <3>1. matrix[row][column] \in Int /\ x[row] \in Int /\ y[row] \in Int
      OBVIOUS
    <3>2. /\ f[row] = Mul(matrix[row][column], x[row])
          /\ g[row] = Mul(matrix[row][column], y[row])
          /\ h[row] = Mul(matrix[row][column], Plus(w, x, y)[row])
      OBVIOUS
    <3>3. Plus(w, x, y)[row] = Add(x[row], y[row])
      BY DEF Plus
    <3> HIDE DEF f, g, h
    <3>4. f[row] \in Int /\ g[row] \in Int
      <4>1. f[row] \in Field /\ g[row] \in Field
        BY <3>1, <3>2, FieldOps
      <4> QED
        BY <4>1, FieldElements
    <3> QED
      BY <3>1, <3>2, <3>3, <3>4, MulOfSum
  <2> HIDE DEF f, g, h
  <2>2. w + 1 \in Nat /\ 0..((w + 1) - 1) = 0..w
    OBVIOUS
  <2>3. Total(h, w + 1) = Add(Total(f, w + 1), Total(g, w + 1))
    BY <2>1, <2>2, TotalOfSums
  <2> QED
    BY <2>3 DEF f, g, h
<1>2. Mix(w, matrix, x) = [column \in 0..w |-> Total(F(column), w + 1)]
  BY DEF Mix
<1>3. Mix(w, matrix, y) = [column \in 0..w |-> Total(G(column), w + 1)]
  BY DEF Mix
<1>4. Mix(w, matrix, Plus(w, x, y)) = [column \in 0..w |-> Total(H(column), w + 1)]
  BY DEF Mix
<1> HIDE DEF F, G, H
<1> QED
  BY <1>1, <1>2, <1>3, <1>4 DEF Plus

\* One and zero times a number of the field.
LEMMA Products == \A x \in Field : Mul(1, x) = x /\ Mul(0, x) = 0
<1> SUFFICES ASSUME NEW x \in Field PROVE Mul(1, x) = x /\ Mul(0, x) = 0
  OBVIOUS
<1>1. x \in Int
  BY FieldElements
<1>2. 1 * x = x /\ 0 * x = 0
  BY <1>1
<1> QED
  BY <1>2, FieldElements, ModOfField DEF Mul

\* A column of the identity picks the element it stands for.
LEMMA UnitColumn ==
  ASSUME NEW w \in Nat, NEW matrix, NEW x \in Vector(w), NEW column \in 0..w,
         \A row \in 0..w : matrix[row][column] = IF row = column THEN 1 ELSE 0
  PROVE  Mix(w, matrix, x)[column] = x[column]
<1> DEFINE f == [row \in 0..w |-> Mul(matrix[row][column], x[row])]
<1>1. \A row \in 0..w : x[row] \in Field
  BY DEF Vector
<1>2. f[column] = x[column]
  BY <1>1, Products
<1>3. \A row \in 0..w : row # column => f[row] = 0
  BY <1>1, Products
<1>4. Mix(w, matrix, x)[column] = Total(f, w + 1)
  BY DEF Mix
<1> HIDE DEF f
<1>5. w + 1 \in Nat /\ 0..((w + 1) - 1) = 0..w
  OBVIOUS
<1> QED
  BY <1>1, <1>2, <1>3, <1>4, <1>5, TotalOfOne

\* A matrix that is the identity in its first row and column leaves the first
\* element of a state alone, and apart from the others.
LEMMA FirstApart ==
  ASSUME NEW w \in Nat, NEW matrix, NEW x \in Vector(w), NEW e \in Field,
         \A i, j \in 0..w : i = 0 \/ j = 0 => matrix[i][j] = IF i = j THEN 1 ELSE 0
  PROVE  /\ Mix(w, matrix, x)[0] = x[0]
         /\ Mix(w, matrix, [x EXCEPT ![0] = e]) = [Mix(w, matrix, x) EXCEPT ![0] = e]
<1> DEFINE y == [x EXCEPT ![0] = e]
<1>1. y \in Vector(w) /\ y[0] = e /\ \A i \in 0..w : i # 0 => y[i] = x[i]
  BY DEF Vector
<1>2. /\ 0 \in 0..w
      /\ \A row \in 0..w : matrix[row][0] = IF row = 0 THEN 1 ELSE 0
  OBVIOUS
<1> HIDE DEF y
<1>3. Mix(w, matrix, x)[0] = x[0] /\ Mix(w, matrix, y)[0] = e
  BY <1>1, <1>2, UnitColumn
<1>4. ASSUME NEW column \in 0..w, column # 0
      PROVE  Mix(w, matrix, y)[column] = Mix(w, matrix, x)[column]
  <2>1. ASSUME NEW row \in 0..w
        PROVE  Mul(matrix[row][column], y[row]) = Mul(matrix[row][column], x[row])
    <3>1. CASE row = 0
      <4>1. matrix[row][column] = 0
        BY <1>4, <3>1
      <4>2. x[row] \in Field /\ y[row] \in Field
        BY <1>1 DEF Vector
      <4> QED
        BY <4>1, <4>2, Products
    <3>2. CASE row # 0
      BY <1>1, <3>2
    <3> QED
      BY <3>1, <3>2
  <2>2. [row \in 0..w |-> Mul(matrix[row][column], y[row])]
          = [row \in 0..w |-> Mul(matrix[row][column], x[row])]
    BY <2>1
  <2> QED
    BY <2>2 DEF Mix
<1>5. /\ DOMAIN Mix(w, matrix, x) = 0..w /\ DOMAIN Mix(w, matrix, y) = 0..w
      /\ Mix(w, matrix, y) = [i \in 0..w |-> Mix(w, matrix, y)[i]]
      /\ Mix(w, matrix, x) = [i \in 0..w |-> Mix(w, matrix, x)[i]]
  BY DEF Mix
<1>6. Mix(w, matrix, y) = [Mix(w, matrix, x) EXCEPT ![0] = e]
  BY <1>3, <1>4, <1>5
<1> QED
  BY <1>3, <1>6 DEF y

LEMMA MixIdentity ==
  ASSUME NEW w \in Nat, NEW matrix, NEW x \in Vector(w),
         \A i, j \in 0..w : matrix[i][j] = IF i = j THEN 1 ELSE 0
  PROVE  Mix(w, matrix, x) = x
<1>1. \A column \in 0..w : Mix(w, matrix, x)[column] = x[column]
  BY UnitColumn
<1>2. Mix(w, matrix, x) = [i \in 0..w |-> Mix(w, matrix, x)[i]]
  BY DEF Mix
<1> QED
  BY <1>1, <1>2 DEF Vector

\* The loop of a partial round over the state in place is the product with the
\* sparse matrix.
LEMMA MixSparseIsMix ==
  ASSUME NEW w \in Nat, NEW base \in Int, NEW st \in Vector(w),
         \A i \in 0..(2 * w) : S[w][base + i] \in Int
  PROVE  MixSparse(w, base, st) = Mix(w, SparseMatrix(w, base), st)
<1> DEFINE Q         == SparseMatrix(w, base)
           f(column) == [row \in 0..w |-> Mul(Q[row][column], st[row])]
           first     == [index \in 0..w |-> Mul(S[w][base + index], st[index])]
<1>1. \A i \in 0..w : st[i] \in Field /\ st[i] \in Int
  BY FieldElements DEF Vector
<1>2. f(0) = first
  BY DEF SparseMatrix
<1>3. ASSUME NEW k \in 0..w, k # 0
      PROVE  Total(f(k), w + 1) = Add(st[k], Mul(st[0], S[w][base + w + k]))
  <2> DEFINE s == S[w][base + w + k]
             c == Mul(s, st[0])
             g == [row \in 0..w |-> IF row = k THEN st[k] ELSE 0]
             h == [row \in 0..w |-> IF row = 0 THEN c ELSE 0]
  <2>1. s \in Int /\ 0 \in 0..w
    <3>1. w + k \in 0..(2 * w) /\ base + w + k = base + (w + k) /\ 0 \in 0..w
      OBVIOUS
    <3> QED
      BY <3>1
  <2>2. \A row \in 0..w : Q[row][k] = IF row = 0 THEN s ELSE IF row = k THEN 1 ELSE 0
    BY <1>3 DEF SparseMatrix
  <2> HIDE DEF Q, s
  <2>3. c \in Field /\ c \in Int /\ c = Mul(st[0], s)
    <3>1. s * st[0] = st[0] * s
      BY <1>1, <2>1
    <3> QED
      BY <1>1, <2>1, <3>1, FieldOps DEF Mul
  <2> HIDE DEF c
  <2>4. \A row \in 0..w : f(k)[row] = IF row = 0 THEN c ELSE IF row = k THEN st[k] ELSE 0
    BY <1>1, <2>2, Products DEF c
  <2> HIDE DEF f
  <2>5. \A v \in Field : Add(v, 0) = v /\ Add(0, v) = v
    BY FieldElements, ModOfField DEF Add
  <2>6. \A row \in 0..w : /\ g[row] \in Int /\ h[row] \in Int
                           /\ f(k)[row] = Add(g[row], h[row])
    BY <1>1, <1>3, <2>3, <2>4, <2>5, FieldOps
  <2>7. Total(g, w + 1) = st[k]
    <3>1. g[k] = st[k] /\ \A i \in 0..w : i # k => g[i] = 0
      OBVIOUS
    <3> HIDE DEF g
    <3> QED
      BY <1>1, <3>1, TotalOfOne
  <2>8. Total(h, w + 1) = c
    <3>1. h[0] = c /\ \A i \in 0..w : i # 0 => h[i] = 0
      BY <2>1
    <3> HIDE DEF h
    <3> QED
      BY <2>1, <2>3, <3>1, TotalOfOne
  <2> HIDE DEF g, h
  <2>9. Total(f(k), w + 1) = Add(Total(g, w + 1), Total(h, w + 1))
    BY <2>6, TotalOfSums
  <2> QED
    BY <2>3, <2>7, <2>8, <2>9 DEF s
<1>4. Mix(w, Q, st) = [column \in 0..w |-> Total(f(column), w + 1)]
  BY DEF Mix
<1>5. MixSparse(w, base, st)
      = [k \in 0..w |-> IF k = 0 THEN Total(first, w + 1)
                        ELSE Add(st[k], Mul(st[0], S[w][base + w + k]))]
  BY DEF MixSparse
<1> HIDE DEF f, first
<1> QED
  BY <1>2, <1>3, <1>4, <1>5

\* A full round in its turn finds its constants and leaves a state in the field.
LEMMA FullRoundInField ==
  ASSUME Accepted, state \in Vector(n), NEW STATE base, NEW CONSTANT matrix,
         FullRound(base, matrix),
         \A row, column \in 0..n : matrix[row][column] \in Int,
         \A i \in 0..n : C[n][base + i] \in Int
  PROVE  state' \in Vector(n)
<1>1. n \in Nat
  BY Sizes
<1>2. SboxAll(state) \in Vector(n)
  BY <1>1, SboxInField
<1>3. \A i \in 0..n : SboxAll(state)[i] \in Int /\ RowOfC(n, base)[i] \in Int
  BY <1>2, FieldOps DEF Vector, RowOfC
<1>4. AddFrom(base, SboxAll(state)) \in Vector(n)
  BY <1>1, <1>3, AddFromIsPlus, PlusInField
<1>5. \A i \in 0..n : AddFrom(base, SboxAll(state))[i] \in Int
  BY <1>4, FieldOps DEF Vector
<1> QED
  BY <1>1, <1>5, MixInField DEF FullRound

\* A step keeps the state of a call in the field, and gives a hash in it.
LEMMA NextInField ==
  ASSUME TypeOK, OrderInv, Next
  PROVE  /\ inputs' = inputs
         /\ output' \in Field \cup {None, Invalid}
         /\ state' # <<>> => state' \in [Slots -> Field]
<1>1. CASE Refuse
  BY <1>1 DEF Refuse, TypeOK
<1>2. CASE Absorb
  <2>1. Accepted /\ n \in 1..MaxInputs /\ n = Len(inputs) /\ n \in Nat
    BY <1>2, Sizes DEF Absorb, Accepted, n
  <2>2. \A i \in 1..Len(inputs) : inputs[i] \in Int
    BY <2>1, TablesAssumption DEF TypeOK, Accepted
  <2>3. Absorbed(inputs) \in Vector(n)
    BY <2>1, <2>2, AbsorbedInField
  <2>4. \A i \in 0..n : C[n][0 + i] \in Int
    <3>1. 0 \in 0..Half /\ 0 * (n + 1) = 0
      BY <2>1, Widths
    <3> QED
      BY <2>1, <3>1, FirstRows
  <2>5. \A i \in 0..n : Absorbed(inputs)[i] \in Int /\ RowOfC(n, 0)[i] \in Int
    BY <2>3, <2>4, FieldOps DEF Vector, RowOfC
  <2>6. state' \in Vector(n)
    BY <1>2, <2>1, <2>5, AddFromIsPlus, PlusInField DEF Absorb
  <2> QED
    BY <1>2, <2>1, <2>6, SlotsAre DEF Absorb, TypeOK, Vector
<1> SUFFICES ASSUME Running, Next, ~Refuse, ~Absorb PROVE
         /\ inputs' = inputs
         /\ output' \in Field \cup {None, Invalid}
         /\ state' # <<>> => state' \in [Slots -> Field]
  BY <1>1, <1>2 DEF Next, FirstRound, MiddleRound, PartialRound, SecondRound, LastRound
<1>3. Accepted /\ [Slots -> Field] = Vector(n)
  BY SlotsAre DEF Running, OrderInv, Vector
<1>4. /\ state \in Vector(n) /\ round \in Nat /\ output = None
      /\ n \in 1..MaxInputs /\ t = n + 1
  BY <1>3 DEF Running, TypeOK, OrderInv, Accepted, n, t
<1>5. n \in Nat /\ PartialRounds[n] \in Nat /\ Half \in Nat \ {0} /\ FullRounds = 2 * Half
  BY <1>4, Widths
<1>6. ASSUME state' \in Vector(n), inputs' = inputs, output' = output
      PROVE  /\ inputs' = inputs
             /\ output' \in Field \cup {None, Invalid}
             /\ state' # <<>> => state' \in [Slots -> Field]
  BY <1>3, <1>4, <1>6
<1>7. CASE FirstRound
  <2>1. round + 1 \in 0..Half /\ FullRound((round + 1) * (n + 1), M[n])
    BY <1>4, <1>5, <1>7 DEF FirstRound
  <2>2. \A i \in 0..n : C[n][(round + 1) * (n + 1) + i] \in Int
    BY <1>4, <2>1, FirstRows
  <2>3. state' \in Vector(n)
    BY <1>3, <1>4, <2>1, <2>2, Matrices, FullRoundInField
  <2> QED
    BY <1>6, <2>1, <2>3 DEF FullRound
<1>8. CASE MiddleRound
  <2>1. Half \in 0..Half /\ FullRound(Half * (n + 1), P[n])
    BY <1>4, <1>5, <1>8 DEF MiddleRound
  <2>2. \A i \in 0..n : C[n][Half * (n + 1) + i] \in Int
    BY <1>4, <2>1, FirstRows
  <2>3. state' \in Vector(n)
    BY <1>3, <1>4, <2>1, <2>2, Matrices, FullRoundInField
  <2> QED
    BY <1>6, <2>1, <2>3 DEF FullRound
<1>9. CASE PartialRound
  <2> DEFINE r     == round - Half
             first == Add(Pow5(state[0]), C[n][(Half + 1) * (n + 1) + r])
             boxed == [state EXCEPT ![0] = first]
  <2>1. r \in 0..(PartialRounds[n] - 1)
    BY <1>9 DEF PartialRound
  <2>2. (t * 2 - 1) * r = (2 * n + 1) * r /\ (2 * n + 1) * r \in Int
    <3>1. t * 2 - 1 = 2 * n + 1 /\ 2 * n + 1 \in Nat /\ r \in Nat
      BY <1>4, <1>5, <2>1
    <3> HIDE DEF r
    <3> QED
      BY <3>1
  <2>3. state' = MixSparse(n, (2 * n + 1) * r, boxed)
    BY <1>4, <1>9, <2>2 DEF PartialRound
  <2>4. first \in Field
    <3>1. C[n][(Half + 1) * (n + 1) + r] \in Int
      BY <1>4, <2>1, PartialConstants
    <3>2. Pow5(state[0]) \in Int
      <4>1. state[0] \in Field
        BY <1>4, <1>5 DEF Vector
      <4> QED
        BY <4>1, FieldOps, Pow5InField
    <3> QED
      BY <3>1, <3>2, FieldOps
  <2> HIDE DEF first
  <2>5. boxed \in Vector(n)
    BY <1>4, <2>4 DEF Vector
  <2>6. \A i \in 0..(2 * n) : S[n][(2 * n + 1) * r + i] \in Int
    BY <1>4, <2>1, SparseRows
  <2> HIDE DEF boxed, r
  <2>7. state' \in Vector(n)
    BY <1>5, <2>2, <2>3, <2>5, <2>6, MixSparseInField
  <2> QED
    BY <1>6, <1>9, <2>7 DEF PartialRound
<1>10. CASE SecondRound
  <2> DEFINE r == round - Half - PartialRounds[n]
  <2>1. r \in 0..(Half - 2) /\ FullRound(SecondBase(n) + r * (n + 1), M[n])
    BY <1>4, <1>10 DEF SecondRound, SecondBase
  <2> HIDE DEF r
  <2>2. \A i \in 0..n : C[n][SecondBase(n) + r * (n + 1) + i] \in Int
    BY <1>4, <2>1, SecondRows
  <2>3. state' \in Vector(n)
    BY <1>3, <1>4, <2>1, <2>2, Matrices, FullRoundInField
  <2> QED
    BY <1>6, <2>1, <2>3 DEF FullRound
<1>11. CASE LastRound
  <2>1. SboxAll(state) \in Vector(n)
    BY <1>4, <1>5, SboxInField
  <2>2. \A i \in 0..n : SboxAll(state)[i] \in Int
    BY <2>1, FieldOps DEF Vector
  <2>3. state' \in Vector(n)
    BY <1>4, <1>5, <1>11, <2>2, Matrices, MixInField DEF LastRound
  <2>4. state'[0] \in Field
    BY <1>5, <2>3 DEF Vector
  <2> QED
    BY <1>3, <1>11, <2>3, <2>4 DEF LastRound
<1> QED
  BY <1>7, <1>8, <1>9, <1>10, <1>11 DEF Next

LEMMA NextType == TypeOK /\ OrderInv /\ [Next]_vars /\ OrderInv' => TypeOK'
<1> SUFFICES ASSUME TypeOK, OrderInv, [Next]_vars, OrderInv' PROVE TypeOK'
  OBVIOUS
<1>1. CASE Next
  BY <1>1, NextInField DEF TypeOK, OrderInv, Slots, t, n
<1>2. CASE UNCHANGED vars
  BY <1>2 DEF vars, TypeOK, Accepted, Slots, t, n
<1> QED
  BY <1>1, <1>2

\* A call in progress keeps its state in the field and the hash it returns is a
\* number of the field, so that it can be a public input.
THEOREM TypeCorrect == Spec => []TypeOK
<1>1. Spec => []OrderInv
  BY InitOrder, NextOrder, PTL DEF Spec
<1>2. Init => TypeOK
  BY DEF Init, TypeOK
<1> QED
  BY <1>1, <1>2, NextType, PTL DEF Spec

-----------------------------------------------------------------------------
(* The plain permutation.                                                  *)

\* Its states are a function, however many rounds there are.
LEMMA PlainExists ==
  ASSUME NEW args, NEW k \in Nat
  PROVE  \E g : g = [r \in 0..k |-> IF r = 0 THEN Absorbed(args)
                                    ELSE PlainRound(Len(args), r - 1, g[r - 1])]
<1> DEFINE Run(m, g) == g = [r \in 0..m |-> IF r = 0 THEN Absorbed(args)
                                          ELSE PlainRound(Len(args), r - 1, g[r - 1])]
           Bad == {m \in Nat : ~ \E g : Run(m, g)}
<1> SUFFICES ASSUME Bad # {} PROVE FALSE
  OBVIOUS
<1>1. PICK m \in Bad : \A x \in Bad : m <= x
  BY Least
<1>2. m \in Nat
  OBVIOUS
<1>3. CASE m = 0
  <2> DEFINE g == [r \in 0..m |-> Absorbed(args)]
  <2>1. g = [r \in 0..m |-> IF r = 0 THEN Absorbed(args)
                            ELSE PlainRound(Len(args), r - 1, g[r - 1])]
    BY <1>3
  <2> QED
    BY <2>1
<1>4. CASE m # 0
  <2>1. m - 1 \in Nat /\ m - 1 \notin Bad
    <3> HIDE DEF Run
    <3> QED
      BY <1>1, <1>2, <1>4
  <2>2. PICK g : Run(m - 1, g)
    <3> HIDE DEF Run
    <3> QED
      BY <2>1
  <2> DEFINE h == [r \in 0..m |-> IF r = m THEN PlainRound(Len(args), m - 1, g[m - 1])
                                  ELSE g[r]]
  <2>3. \A r \in 0..m : h[r] = IF r = 0 THEN Absorbed(args)
                               ELSE PlainRound(Len(args), r - 1, h[r - 1])
    <3> SUFFICES ASSUME NEW r \in 0..m
                 PROVE  h[r] = IF r = 0 THEN Absorbed(args)
                               ELSE PlainRound(Len(args), r - 1, h[r - 1])
      OBVIOUS
    <3>1. CASE r = m
      BY <1>2, <1>4, <3>1
    <3>2. CASE r # m
      <4>1. r \in 0..(m - 1) /\ (r # 0 => r - 1 \in 0..(m - 1))
        BY <1>2, <3>2
      <4>2. h[r] = g[r] /\ (r # 0 => h[r - 1] = g[r - 1])
        BY <1>2, <3>2, <4>1
      <4>3. g[r] = IF r = 0 THEN Absorbed(args) ELSE PlainRound(Len(args), r - 1, g[r - 1])
        BY <2>2, <4>1
      <4> QED
        BY <4>2, <4>3
    <3> QED
      BY <3>1, <3>2
  <2>4. Run(m, h)
    <3>1. h = [r \in 0..m |-> h[r]]
      OBVIOUS
    <3> HIDE DEF h
    <3> QED
      BY <2>3, <3>1
  <2> QED
    BY <1>2, <2>4
<1> QED
  BY <1>3, <1>4

\* What a round of it does.
LEMMA PlainRoundIs ==
  ASSUME NEW w \in Nat, NEW r \in Int, NEW st
  PROVE  LET keyed == Plus(w, st, RoundConstants[w][r])
         IN  PlainRound(w, r, st) =
               Mix(w, M[w], IF r < Half \/ r >= Half + PartialRounds[w] THEN SboxAll(keyed)
                            ELSE [keyed EXCEPT ![0] = Pow5(keyed[0])])
  BY DEF PlainRound, Plus

LEMMA PlainRoundInField ==
  ASSUME NEW w \in 1..MaxInputs, NEW r \in 0..(FullRounds + PartialRounds[w] - 1),
         NEW st \in Vector(w)
  PROVE  PlainRound(w, r, st) \in Vector(w)
<1>1. w \in Nat /\ r \in Int /\ RoundConstants[w][r] \in Vector(w)
  BY Widths, DerivationAssumption DEF ConstantsDerived
<1> DEFINE keyed == Plus(w, st, RoundConstants[w][r])
           boxed == IF r < Half \/ r >= Half + PartialRounds[w] THEN SboxAll(keyed)
                    ELSE [keyed EXCEPT ![0] = Pow5(keyed[0])]
<1>2. PlainRound(w, r, st) = Mix(w, M[w], boxed)
  BY <1>1, PlainRoundIs
<1>3. keyed \in Vector(w)
  <2>1. \A i \in 0..w : st[i] \in Int /\ RoundConstants[w][r][i] \in Int
    BY <1>1, FieldElements DEF Vector
  <2> QED
    BY <1>1, <2>1, PlusInField
<1> HIDE DEF keyed
<1>4. boxed \in Vector(w)
  <2>1. SboxAll(keyed) \in Vector(w)
    BY <1>1, <1>3, SboxInField
  <2>2. Pow5(keyed[0]) \in Field
    <3>1. keyed[0] \in Field
      BY <1>1, <1>3 DEF Vector
    <3> QED
      BY <3>1, FieldElements, Pow5InField
  <2>3. [keyed EXCEPT ![0] = Pow5(keyed[0])] \in Vector(w)
    BY <1>3, <2>2 DEF Vector
  <2> QED
    BY <2>1, <2>3
<1> HIDE DEF boxed
<1>5. \A i \in 0..w : boxed[i] \in Int
  BY <1>4, FieldElements DEF Vector
<1> QED
  BY <1>1, <1>2, <1>5, Matrices, MixInField

\* An argument poseidon() accepts.
Acceptable(args) ==
  Len(args) \in 1..MaxInputs /\ \A i \in 1..Len(args) : args[i] \in Int

LEMMA PlainStates ==
  ASSUME NEW args, Acceptable(args)
  PROVE  LET w      == Len(args)
             rounds == FullRounds + PartialRounds[w]
         IN  /\ Plain(args)[0] = Absorbed(args)
             /\ \A r \in 0..(rounds - 1) :
                  Plain(args)[r + 1] = PlainRound(w, r, Plain(args)[r])
             /\ \A r \in 0..rounds : Plain(args)[r] \in Vector(w)
<1> DEFINE w      == Len(args)
           rounds == FullRounds + PartialRounds[w]
           st     == Plain(args)
<1>1. /\ w \in 1..MaxInputs /\ w \in Nat /\ rounds \in Nat
      /\ FullRounds \in Nat /\ PartialRounds[w] \in Nat
      /\ rounds = FullRounds + PartialRounds[w]
  <2>1. w \in 1..MaxInputs
    BY DEF Acceptable
  <2> HIDE DEF w
  <2> QED
    BY <2>1, Widths
<1>2. st = [r \in 0..rounds |->
          IF r = 0 THEN Absorbed(args) ELSE PlainRound(w, r - 1, st[r - 1])]
  <2> DEFINE run == CHOOSE g : g = [r \in 0..rounds |->
                      IF r = 0 THEN Absorbed(args) ELSE PlainRound(w, r - 1, g[r - 1])]
  <2>1. st = run
    BY DEF Plain
  <2>2. \E g : g = [r \in 0..rounds |->
                      IF r = 0 THEN Absorbed(args) ELSE PlainRound(w, r - 1, g[r - 1])]
    BY <1>1, PlainExists, ZenonT(60)
  <2>3. run = [r \in 0..rounds |->
                 IF r = 0 THEN Absorbed(args) ELSE PlainRound(w, r - 1, run[r - 1])]
    BY <2>2
  <2> QED
    BY <2>1, <2>3
<1> HIDE DEF st, rounds
<1>3. st[0] = Absorbed(args) /\ \A r \in 1..rounds : st[r] = PlainRound(w, r - 1, st[r - 1])
  BY <1>1, <1>2
<1>4. \A r \in 0..(rounds - 1) : st[r + 1] = PlainRound(w, r, st[r])
  <2> SUFFICES ASSUME NEW r \in 0..(rounds - 1) PROVE st[r + 1] = PlainRound(w, r, st[r])
    OBVIOUS
  <2>1. r + 1 \in 1..rounds /\ (r + 1) - 1 = r
    BY <1>1
  <2> QED
    BY <1>3, <2>1
<1> DEFINE Bad == {r \in Nat : r <= rounds /\ st[r] \notin Vector(w)}
<1>5. Bad = {}
  <2> SUFFICES ASSUME Bad # {} PROVE FALSE
    OBVIOUS
  <2>1. PICK m \in Bad : \A x \in Bad : m <= x
    BY Least
  <2>2. m \in Nat /\ m <= rounds /\ st[m] \notin Vector(w)
    OBVIOUS
  <2>3. st[0] \in Vector(w)
    BY <1>1, <1>3, AbsorbedInField DEF Acceptable
  <2>4. m # 0
    BY <2>2, <2>3
  <2>5. m - 1 \in Nat /\ m - 1 <= rounds /\ m - 1 \in 0..(rounds - 1) /\ m \in 1..rounds
    BY <1>1, <2>2, <2>4
  <2>6. m - 1 \notin Bad
    <3>1. ~ (m <= m - 1)
      BY <2>2
    <3> QED
      BY <2>1, <3>1
  <2>7. st[m - 1] \in Vector(w)
    BY <2>5, <2>6
  <2>8. st[m] = PlainRound(w, m - 1, st[m - 1])
    BY <1>3, <2>5
  <2>9. m - 1 \in 0..(FullRounds + PartialRounds[w] - 1)
    BY <1>1, <2>5
  <2> HIDE DEF w
  <2>10. st[m] \in Vector(w)
    BY <1>1, <2>7, <2>8, <2>9, PlainRoundInField
  <2> QED
    BY <2>2, <2>10
<1>6. \A r \in 0..rounds : st[r] \in Vector(w)
  BY <1>5
<1> QED
  BY <1>3, <1>4, <1>6 DEF st, rounds

-----------------------------------------------------------------------------
(* A round of the code against a round of the plain permutation.           *)

LEMMA ConstantsTyped ==
  ASSUME NEW w \in 1..MaxInputs
  PROVE  /\ \A r \in 0..(FullRounds + PartialRounds[w] - 1) :
              RoundConstants[w][r] \in Vector(w)
         /\ \A r \in 0..PartialRounds[w] : Ahead[w][r] \in Vector(w)
  BY DerivationAssumption DEF ConstantsDerived

\* A full round: the row of constants the code adds after the S-box comes out of
\* the matrix as the constants of the next round.
LEMMA FullStep ==
  ASSUME NEW w \in 1..MaxInputs, NEW r \in 0..(FullRounds + PartialRounds[w] - 1),
         r < Half \/ r >= Half + PartialRounds[w],
         NEW z \in Vector(w), NEW base, \A i \in 0..w : C[w][base + i] \in Int
  PROVE  LET boxed == SboxAll(Plus(w, z, RoundConstants[w][r]))
         IN  /\ boxed \in Vector(w)
             /\ Plus(w, boxed, RowOfC(w, base)) \in Vector(w)
             /\ Mix(w, M[w], boxed) = PlainRound(w, r, z)
             /\ Mix(w, M[w], Plus(w, boxed, RowOfC(w, base)))
                  = Plus(w, PlainRound(w, r, z), Mix(w, M[w], RowOfC(w, base)))
<1> DEFINE keyed == Plus(w, z, RoundConstants[w][r])
           boxed == SboxAll(keyed)
           row   == RowOfC(w, base)
<1>1. w \in Nat /\ r \in Int /\ RoundConstants[w][r] \in Vector(w)
  BY Widths, ConstantsTyped
<1>2. keyed \in Vector(w)
  <2>1. \A i \in 0..w : z[i] \in Int /\ RoundConstants[w][r][i] \in Int
    BY <1>1, FieldElements DEF Vector
  <2> QED
    BY <1>1, <2>1, PlusInField
<1>3. PlainRound(w, r, z) = Mix(w, M[w], boxed)
  BY <1>1, PlainRoundIs
<1> HIDE DEF keyed
<1>4. boxed \in Vector(w)
  BY <1>1, <1>2, SboxInField
<1>5. \A i \in 0..w : row[i] \in Int
  BY DEF RowOfC
<1> HIDE DEF boxed, row
<1>6. \A i \in 0..w : boxed[i] \in Int /\ row[i] \in Int
  BY <1>4, <1>5, FieldElements DEF Vector
<1>7. Plus(w, boxed, row) \in Vector(w)
  BY <1>1, <1>6, PlusInField
<1>8. Mix(w, M[w], Plus(w, boxed, row)) = Plus(w, Mix(w, M[w], boxed), Mix(w, M[w], row))
  BY <1>1, <1>6, Matrices, MixOfPlus
<1> QED
  BY <1>3, <1>4, <1>7, <1>8 DEF boxed, keyed, row

\* The last round of the first half also moves what is left of the partial
\* rounds' constants ahead, and applies the first dense factor.
LEMMA MiddleStep ==
  ASSUME NEW w \in 1..MaxInputs, NEW z \in Vector(w)
  PROVE  Mix(w, P[w], Plus(w, SboxAll(Plus(w, z, RoundConstants[w][Half - 1])),
                              RowOfC(w, Half * (w + 1))))
           = Mix(w, Dense[w][0], Plus(w, PlainRound(w, Half - 1, z), Ahead[w][0]))
<1> DEFINE boxed == SboxAll(Plus(w, z, RoundConstants[w][Half - 1]))
           added == Plus(w, boxed, RowOfC(w, Half * (w + 1)))
<1>1. /\ Half - 1 \in 0..(FullRounds + PartialRounds[w] - 1) /\ Half - 1 < Half
      /\ Half \in 0..Half
  BY Widths
<1>2. \A i \in 0..w : C[w][Half * (w + 1) + i] \in Int
  BY <1>1, FirstRows
<1>3. /\ added \in Vector(w)
      /\ Mix(w, M[w], added)
           = Plus(w, PlainRound(w, Half - 1, z), Mix(w, M[w], RowOfC(w, Half * (w + 1))))
  BY <1>1, <1>2, FullStep
<1>4. Mix(w, M[w], RowOfC(w, Half * (w + 1))) = Ahead[w][0]
  BY DerivationAssumption DEF ConstantsDerived
<1> HIDE DEF added
<1>5. Mix(w, P[w], added) = Mix(w, Dense[w][0], Mix(w, M[w], added))
  BY <1>3, DerivationAssumption DEF MatricesDerived
<1> QED
  BY <1>3, <1>4, <1>5 DEF added

\* A partial round: the dense factor leaves the element that meets the S-box
\* alone, the sparse matrix completes it to the whole one, and the constant
\* added to that element makes up for what was moved ahead.
LEMMA PartialStep ==
  ASSUME NEW w \in 1..MaxInputs, NEW r \in 0..(PartialRounds[w] - 1), NEW z \in Vector(w),
         NEW st, st = Mix(w, Dense[w][r], Plus(w, z, Ahead[w][r])),
         NEW first, first = Add(Pow5(st[0]), C[w][(Half + 1) * (w + 1) + r])
  PROVE  MixSparse(w, (2 * w + 1) * r, [st EXCEPT ![0] = first])
           = Mix(w, Dense[w][r + 1], Plus(w, PlainRound(w, Half + r, z), Ahead[w][r + 1]))
<1> DEFINE K     == RoundConstants[w][Half + r]
           ahead == Ahead[w][r]
           keyed == Plus(w, z, K)
           boxed == [keyed EXCEPT ![0] = Pow5(keyed[0])]
           moved == Plus(w, z, ahead)
           v     == Advance(w, r)
           D     == Dense[w][r]
<1>1. /\ w \in Nat /\ r \in Nat /\ r < PartialRounds[w] /\ PartialRounds[w] \in Nat
      /\ Half \in Nat \ {0} /\ FullRounds = 2 * Half
  BY Widths
<1>2. /\ Half + r \in 0..(FullRounds + PartialRounds[w] - 1)
      /\ ~(Half + r < Half \/ Half + r >= Half + PartialRounds[w])
      /\ r \in 0..PartialRounds[w]
  BY <1>1
<1>3. K \in Vector(w) /\ ahead \in Vector(w)
  BY <1>2, ConstantsTyped
<1>4. ahead[0] = K[0] /\ Mix(w, M[w], v) = Ahead[w][r + 1]
  BY DerivationAssumption DEF ConstantsDerived
<1>5. /\ \A i, j \in 0..w : i = 0 \/ j = 0 => D[i][j] = IF i = j THEN 1 ELSE 0
      /\ \A i, j \in 0..w : D[i][j] \in Int
      /\ \A x \in Vector(w) : Mix(w, SparseMatrix(w, (2 * w + 1) * r), Mix(w, D, x))
                               = Mix(w, Dense[w][r + 1], Mix(w, M[w], x))
  BY <1>2, DerivationAssumption DEF MatricesDerived
<1>6. PlainRound(w, Half + r, z) = Mix(w, M[w], boxed)
  BY <1>1, <1>2, PlainRoundIs
<1>7. v = [i \in 0..w |-> IF i = 0 THEN C[w][(Half + 1) * (w + 1) + r] ELSE ahead[i] - K[i]]
  BY DEF Advance
<1>8. C[w][(Half + 1) * (w + 1) + r] \in Int
  BY PartialConstants
<1> HIDE DEF K, ahead, v, D
<1>9. \A i \in 0..w : z[i] \in Int /\ K[i] \in Int /\ ahead[i] \in Int
  BY <1>3, FieldElements DEF Vector
<1>10. keyed \in Vector(w) /\ moved \in Vector(w)
  BY <1>1, <1>9, PlusInField
<1>11. \A i \in 0..w : keyed[i] = Add(z[i], K[i]) /\ moved[i] = Add(z[i], ahead[i])
  BY DEF Plus
<1> HIDE DEF keyed, moved
\* The first element is the one of the plain round, and so is what the S-box
\* makes of it.
<1>12. 0 \in 0..w /\ keyed[0] = moved[0] /\ moved[0] \in Field
  BY <1>1, <1>4, <1>10, <1>11 DEF Vector
<1>13. Pow5(keyed[0]) \in Field
  BY <1>12, FieldElements, Pow5InField
<1>14. boxed \in Vector(w)
  BY <1>10, <1>13 DEF Vector
<1>15. \A i \in 0..w : boxed[i] \in Int /\ v[i] \in Int
  <2>1. \A i \in 0..w : boxed[i] \in Int
    BY <1>14, FieldElements DEF Vector
  <2> HIDE DEF boxed
  <2>2. \A i \in 0..w : v[i] \in Int
    BY <1>7, <1>8, <1>9
  <2> QED
    BY <2>1, <2>2
<1> DEFINE e == Add(Pow5(keyed[0]), C[w][(Half + 1) * (w + 1) + r])
           x == [moved EXCEPT ![0] = e]
<1>16. e \in Field
  BY <1>8, <1>13, FieldElements, FieldOps
<1>17. x = Plus(w, boxed, v)
  <2>1. ASSUME NEW i \in 0..w, i # 0
        PROVE  Add(keyed[i], v[i]) = moved[i]
    <3>1. Add(keyed[i], v[i]) = Mod(Mod(z[i] + K[i]) + (ahead[i] - K[i]))
      BY <1>7, <1>11, <2>1 DEF Add
    <3>2. /\ z[i] + K[i] \in Int /\ ahead[i] - K[i] \in Int
          /\ z[i] + K[i] + (ahead[i] - K[i]) = z[i] + ahead[i]
      BY <1>9
    <3>3. Mod(Mod(z[i] + K[i]) + (ahead[i] - K[i])) = Mod(z[i] + K[i] + (ahead[i] - K[i]))
      BY <3>2, ModEarly
    <3> QED
      BY <1>11, <3>1, <3>2, <3>3 DEF Add
  <2>2. ASSUME NEW i \in 0..w, i # 0
        PROVE  boxed[i] = keyed[i]
    BY <1>10, <2>2 DEF Vector
  <2>3. boxed[0] = Pow5(keyed[0]) /\ v[0] = C[w][(Half + 1) * (w + 1) + r]
    BY <1>7, <1>10, <1>12 DEF Vector
  <2> HIDE DEF boxed
  <2>4. Plus(w, boxed, v) = [i \in 0..w |-> Add(boxed[i], v[i])]
    BY DEF Plus
  <2>5. \A i \in 0..w : Plus(w, boxed, v)[i] = IF i = 0 THEN e ELSE moved[i]
    BY <2>1, <2>2, <2>3, <2>4
  <2>6. moved = [i \in 0..w |-> moved[i]]
    BY <1>10 DEF Vector
  <2> HIDE DEF e
  <2>7. x = [i \in 0..w |-> IF i = 0 THEN e ELSE moved[i]]
    BY <2>6
  <2> QED
    BY <2>4, <2>5, <2>7
<1>18. x \in Vector(w)
  BY <1>10, <1>16 DEF Vector
<1>19. st[0] = moved[0] /\ [st EXCEPT ![0] = e] = Mix(w, D, x)
  <2>1. st = Mix(w, D, moved)
    BY DEF moved, ahead, D
  <2> HIDE DEF e
  <2> QED
    BY <1>1, <1>5, <1>10, <1>16, <2>1, FirstApart
<1>20. first = e
  BY <1>12, <1>19
<1> HIDE DEF e, x, boxed
<1>21. MixSparse(w, (2 * w + 1) * r, [st EXCEPT ![0] = first])
         = Mix(w, Dense[w][r + 1], Mix(w, M[w], x))
  <2>1. Mix(w, D, x) \in Vector(w)
    <3>1. \A i \in 0..w : x[i] \in Int
      BY <1>18, FieldElements DEF Vector
    <3> QED
      BY <1>1, <1>5, <3>1, MixInField
  <2>2. (2 * w + 1) * r \in Int
    BY <1>1
  <2>3. \A i \in 0..(2 * w) : S[w][(2 * w + 1) * r + i] \in Int
    BY SparseRows
  <2>4. MixSparse(w, (2 * w + 1) * r, Mix(w, D, x))
          = Mix(w, SparseMatrix(w, (2 * w + 1) * r), Mix(w, D, x))
    BY <1>1, <2>1, <2>2, <2>3, MixSparseIsMix
  <2> QED
    BY <1>5, <1>18, <1>19, <1>20, <2>4
<1>22. Mix(w, M[w], x) = Plus(w, Mix(w, M[w], boxed), Mix(w, M[w], v))
  BY <1>1, <1>15, <1>17, Matrices, MixOfPlus
<1> QED
  BY <1>4, <1>6, <1>21, <1>22

-----------------------------------------------------------------------------
(* The state of a call.                                                    *)

\* Before a full round, the round's constants are added already.
LEMMA OptimisedFull ==
  ASSUME NEW args, Acceptable(args),
         NEW r \in 0..(FullRounds + PartialRounds[Len(args)] - 1),
         r < Half \/ r >= Half + PartialRounds[Len(args)]
  PROVE  Optimised(args, r) = Plus(Len(args), Plain(args)[r], RoundConstants[Len(args)][r])
<1>1. PartialRounds[Len(args)] \in Nat /\ Half \in Nat \ {0} /\ FullRounds = 2 * Half
  BY Widths DEF Acceptable
<1>2. r # FullRounds + PartialRounds[Len(args)]
      /\ r - Half \notin 0..(PartialRounds[Len(args)] - 1)
  BY <1>1
<1> QED
  BY <1>2 DEF Optimised

\* From the first partial round to the first full one after them, what is left of
\* the moved constants is added and what is left of the matrices applied.
LEMMA OptimisedPartial ==
  ASSUME NEW args, Acceptable(args), NEW r \in 0..PartialRounds[Len(args)]
  PROVE  LET w == Len(args)
         IN  Optimised(args, Half + r) =
               Mix(w, Dense[w][r], Plus(w, Plain(args)[Half + r], Ahead[w][r]))
<1> DEFINE w     == Len(args)
           plain == Plain(args)[Half + r]
<1>1. w \in 1..MaxInputs /\ r \in 0..PartialRounds[w]
  BY DEF Acceptable
<1>2. plain \in Vector(w)
  <2>1. /\ Half \in Nat \ {0} /\ FullRounds = 2 * Half
        /\ PartialRounds[Len(args)] \in Nat
    BY <1>1, Widths
  <2>2. Half + r \in 0..(FullRounds + PartialRounds[Len(args)])
    BY <2>1
  <2> QED
    BY <2>2, PlainStates
<1>3. Optimised(args, Half + r) =
        IF Half + r = FullRounds + PartialRounds[w] THEN plain
        ELSE IF (Half + r) - Half \in 0..(PartialRounds[w] - 1)
          THEN Mix(w, Dense[w][(Half + r) - Half],
                  Plus(w, plain, Ahead[w][(Half + r) - Half]))
        ELSE Plus(w, plain, RoundConstants[w][Half + r])
  BY DEF Optimised
<1> HIDE DEF w, plain
<1>4. /\ w \in Nat /\ PartialRounds[w] \in Nat
      /\ Half \in Nat \ {0} /\ FullRounds = 2 * Half
  BY <1>1, Widths
<1>5. Half + r # FullRounds + PartialRounds[w] /\ (Half + r) - Half = r
  BY <1>1, <1>4
<1>6. CASE r # PartialRounds[w]
  <2>1. r \in 0..(PartialRounds[w] - 1)
    BY <1>1, <1>4, <1>6
  <2> QED
    BY <1>3, <1>5, <2>1 DEF w, plain
<1>7. CASE r = PartialRounds[w]
  <2>1. r \notin 0..(PartialRounds[w] - 1)
    BY <1>4, <1>7
  <2>2. Ahead[w][r] = RoundConstants[w][Half + r]
    BY <1>1, <1>7, DerivationAssumption DEF ConstantsDerived
  <2>3. \A i, j \in 0..w : Dense[w][r][i][j] = IF i = j THEN 1 ELSE 0
    <3>1. MatricesDerived(w)
      BY <1>1, DerivationAssumption
    <3>2. r \in 0..PartialRounds[w]
      BY <1>1, <1>7
    <3> HIDE DEF w
    <3> QED
      BY ONLY <1>7, <3>1, <3>2 DEF MatricesDerived
  <2>4. Plus(w, plain, Ahead[w][r]) \in Vector(w)
    <3>1. Ahead[w][r] \in Vector(w)
      BY <1>1, ConstantsTyped
    <3>2. \A i \in 0..w : plain[i] \in Int /\ Ahead[w][r][i] \in Int
      BY <1>2, <3>1, FieldElements DEF Vector
    <3> QED
      BY <1>4, <3>2, PlusInField
  <2>5. Mix(w, Dense[w][r], Plus(w, plain, Ahead[w][r])) = Plus(w, plain, Ahead[w][r])
    BY <1>4, <2>3, <2>4, MixIdentity
  <2> QED
    BY <1>3, <1>5, <2>1, <2>2, <2>5 DEF w, plain
<1> QED
  BY <1>6, <1>7

\* The first constants of the table are those of the first round.
LEMMA AbsorbedStep ==
  ASSUME NEW args, Acceptable(args)
  PROVE  Plus(Len(args), Absorbed(args), RowOfC(Len(args), 0)) = Optimised(args, 0)
<1> DEFINE w == Len(args)
           K == RoundConstants[w][0]
<1>1. /\ w \in 1..MaxInputs /\ w \in Nat
      /\ Half \in Nat \ {0} /\ FullRounds = 2 * Half /\ PartialRounds[w] \in Nat
  BY Widths DEF Acceptable
<1>2. Plain(args)[0] = Absorbed(args)
  BY PlainStates
<1>3. 0 \in 0..(FullRounds + PartialRounds[w] - 1) /\ 0 < Half
  BY <1>1
<1>4. Optimised(args, 0) = Plus(w, Absorbed(args), K)
  BY <1>2, <1>3, OptimisedFull
<1>5. Absorbed(args) \in Vector(w)
  BY <1>1, AbsorbedInField DEF Acceptable
<1>6. \A i \in 0..w : Mod(C[w][i]) = K[i]
  BY <1>1, DerivationAssumption DEF ConstantsDerived
<1>7. \A i \in 0..w : C[w][i] \in Int
  <2>1. 0 \in 0..Half /\ 0 * (w + 1) = 0
    BY <1>1
  <2>2. \A i \in 0..w : C[w][0 * (w + 1) + i] \in Int
    BY <1>1, <2>1, FirstRows
  <2> HIDE DEF w
  <2>3. \A i \in 0..w : 0 * (w + 1) + i = i
    BY <1>1, <2>1
  <2> QED
    BY <2>2, <2>3
<1> HIDE DEF w, K
<1>8. ASSUME NEW i \in 0..w
      PROVE  Add(Absorbed(args)[i], RowOfC(w, 0)[i]) = Add(Absorbed(args)[i], K[i])
  <2> DEFINE a == Absorbed(args)[i]
             c == C[w][i]
  <2>1. a \in Int /\ c \in Int /\ K[i] = Mod(c)
    BY <1>5, <1>6, <1>7, FieldElements DEF Vector
  <2>2. RowOfC(w, 0)[i] = c
    BY DEF RowOfC
  <2> HIDE DEF a, c
  <2>3. Mod(a + Mod(c)) = Mod(c + a) /\ c + a = a + c
    BY <2>1, ModEarly
  <2> QED
    BY <2>1, <2>2, <2>3 DEF Add, a
<1>9. Plus(w, Absorbed(args), RowOfC(w, 0)) = Plus(w, Absorbed(args), K)
  BY <1>8 DEF Plus
<1> QED
  BY <1>4, <1>9 DEF w

\* The arguments a running call can have.
LEMMA AcceptedIsAcceptable ==
  ASSUME TypeOK, Accepted
  PROVE  Acceptable(inputs) /\ n = Len(inputs) /\ n \in 1..MaxInputs /\ t = n + 1
  BY TablesAssumption DEF TypeOK, Accepted, Acceptable, n, t

\* What a running call is, at a step of a round: its state is the optimised one,
\* and what the plain permutation has reached is a state of the field.
LEMMA RunningState ==
  ASSUME TypeOK, OrderInv, HashInv, Running
  PROVE  /\ Acceptable(inputs) /\ n = Len(inputs) /\ n \in 1..MaxInputs /\ t = n + 1
         /\ n \in Nat /\ PartialRounds[n] \in Nat
         /\ Half \in Nat \ {0} /\ FullRounds = 2 * Half
         /\ round \in 0..(FullRounds + PartialRounds[n])
         /\ state = Optimised(inputs, round)
         /\ Plain(inputs)[round] \in Vector(n)
<1>1. Accepted /\ round \in 0..(FullRounds + PartialRounds[n])
      /\ state = Optimised(inputs, round)
  BY DEF Running, OrderInv, HashInv
<1>2. Acceptable(inputs) /\ n = Len(inputs) /\ n \in 1..MaxInputs /\ t = n + 1
  BY <1>1, AcceptedIsAcceptable
<1>3. /\ n \in Nat /\ PartialRounds[n] \in Nat
      /\ Half \in Nat \ {0} /\ FullRounds = 2 * Half
  BY <1>2, Widths
<1>4. Plain(inputs)[round] \in Vector(n)
  BY <1>1, <1>2, PlainStates
<1> QED
  BY <1>1, <1>2, <1>3, <1>4

\* A full round before or after the partial ones, with the row of C at `base`
\* that becomes the constants of round r + 1.
LEMMA FullRoundHash ==
  ASSUME TypeOK, OrderInv, HashInv, Running, NEW base, FullRound(base, M[n]),
         round < FullRounds + PartialRounds[n] - 1,
         round < Half - 1 \/ round >= Half + PartialRounds[n],
         \A i \in 0..n : C[n][base + i] \in Int,
         Mix(n, M[n], RowOfC(n, base)) = RoundConstants[n][round + 1]
  PROVE  state' = Optimised(inputs, round + 1)
<1> DEFINE z     == Plain(inputs)[round]
           boxed == SboxAll(Plus(n, z, RoundConstants[n][round]))
<1>1. /\ Acceptable(inputs) /\ n = Len(inputs) /\ n \in 1..MaxInputs
      /\ n \in Nat /\ PartialRounds[n] \in Nat
      /\ Half \in Nat \ {0} /\ FullRounds = 2 * Half
      /\ round \in 0..(FullRounds + PartialRounds[n])
      /\ state = Optimised(inputs, round)
      /\ z \in Vector(n)
  BY RunningState
<1>2. /\ round \in 0..(FullRounds + PartialRounds[n] - 1)
      /\ round + 1 \in 0..(FullRounds + PartialRounds[n] - 1)
      /\ round < Half \/ round >= Half + PartialRounds[n]
      /\ round + 1 < Half \/ round + 1 >= Half + PartialRounds[n]
  BY <1>1
<1>3. state = Plus(n, z, RoundConstants[n][round])
  BY <1>1, <1>2, OptimisedFull
<1>4. Optimised(inputs, round + 1)
      = Plus(n, Plain(inputs)[round + 1], RoundConstants[n][round + 1])
  BY <1>1, <1>2, OptimisedFull
<1>5. Plain(inputs)[round + 1] = PlainRound(n, round, z)
  BY <1>1, <1>2, PlainStates
<1>6. Mix(n, M[n], Plus(n, boxed, RowOfC(n, base)))
        = Plus(n, PlainRound(n, round, z), Mix(n, M[n], RowOfC(n, base)))
  BY <1>1, <1>2, FullStep
<1>7. state' = Mix(n, M[n], Plus(n, SboxAll(state), RowOfC(n, base)))
  BY AddFromIsPlus DEF FullRound, Running, OrderInv
<1> HIDE DEF z
<1> QED
  BY <1>3, <1>4, <1>5, <1>6, <1>7

\* Every step of a call leaves it the optimised state of one round more, and the
\* last one returns its first element.
LEMMA NextHash ==
  ASSUME TypeOK, OrderInv, HashInv, Next, OrderInv'
  PROVE  HashInv'
<1>1. CASE Refuse
  <2>1. state = <<>>
    BY <1>1 DEF Refuse, OrderInv
  <2> QED
    BY <1>1, <2>1 DEF Refuse, HashInv, Hashed
<1>2. CASE Absorb
  <2>1. Acceptable(inputs) /\ n = Len(inputs) /\ Accepted /\ round = 0
    BY <1>2, AcceptedIsAcceptable DEF Absorb, OrderInv
  <2>2. state' = Optimised(inputs, 0)
    BY <1>2, <2>1, AddFromIsPlus, AbsorbedStep DEF Absorb
  <2> QED
    BY <1>2, <2>1, <2>2 DEF Absorb, HashInv, Hashed
<1> SUFFICES ASSUME Running, Next, ~Refuse, ~Absorb PROVE HashInv'
  BY <1>1, <1>2 DEF Next, FirstRound, MiddleRound, PartialRound, SecondRound, LastRound
<1> DEFINE w == n
           z == Plain(inputs)[round]
<1>3. /\ Acceptable(inputs) /\ w = Len(inputs) /\ w \in 1..MaxInputs /\ t = w + 1
      /\ w \in Nat /\ PartialRounds[w] \in Nat
      /\ Half \in Nat \ {0} /\ FullRounds = 2 * Half
      /\ round \in 0..(FullRounds + PartialRounds[w])
      /\ state = Optimised(inputs, round)
      /\ z \in Vector(w)
  BY RunningState
<1>4. Accepted /\ output = None
  BY DEF Running, OrderInv
<1>5. ASSUME state' = Optimised(inputs, round + 1), inputs' = inputs, output' = None,
             round' = round + 1
      PROVE  HashInv'
  BY <1>5 DEF HashInv, Hashed
<1>6. CASE FirstRound
  <2> DEFINE base == (round + 1) * (w + 1)
  <2>1. round < Half - 1 /\ FullRound(base, M[n])
    BY <1>3, <1>6 DEF FirstRound
  <2>2. round + 1 \in 1..(Half - 1) /\ round + 1 \in 0..Half
        /\ round < FullRounds + PartialRounds[n] - 1
    BY <1>3, <2>1
  <2>3. \A i \in 0..n : C[n][base + i] \in Int
    BY <1>3, <2>2, FirstRows
  <2>4. Mix(n, M[n], RowOfC(n, base)) = RoundConstants[n][round + 1]
    BY <1>3, <2>2, DerivationAssumption DEF ConstantsDerived
  <2> HIDE DEF base
  <2>5. state' = Optimised(inputs, round + 1)
    BY <2>1, <2>2, <2>3, <2>4, FullRoundHash
  <2> QED
    BY <1>4, <1>5, <2>1, <2>5 DEF FullRound
<1>7. CASE MiddleRound
  <2>1. round = Half - 1 /\ FullRound(Half * (w + 1), P[w])
    BY <1>3, <1>7 DEF MiddleRound
  <2>2. /\ round \in 0..(FullRounds + PartialRounds[w] - 1) /\ round < Half
        /\ 0 \in 0..PartialRounds[w] /\ round + 1 = Half + 0
    BY <1>3, <2>1
  <2>3. state = Plus(w, z, RoundConstants[w][Half - 1])
    BY <1>3, <2>1, <2>2, OptimisedFull
  <2>4. state' = Mix(w, P[w], Plus(w, SboxAll(state), RowOfC(w, Half * (w + 1))))
    BY <1>4, <2>1, AddFromIsPlus DEF FullRound
  <2>5. state' = Mix(w, Dense[w][0], Plus(w, PlainRound(w, Half - 1, z), Ahead[w][0]))
    BY <1>3, <2>3, <2>4, MiddleStep
  <2>6. Plain(inputs)[Half + 0] = PlainRound(w, Half - 1, z)
    BY <1>3, <2>1, <2>2, PlainStates
  <2>7. state' = Optimised(inputs, round + 1)
    BY <1>3, <2>2, <2>5, <2>6, OptimisedPartial
  <2> QED
    BY <1>4, <1>5, <2>1, <2>7 DEF FullRound
<1>8. CASE PartialRound
  <2> DEFINE r     == round - Half
             first == Add(Pow5(state[0]), C[w][(Half + 1) * (w + 1) + r])
  <2>1. r \in 0..(PartialRounds[w] - 1)
    BY <1>8 DEF PartialRound
  <2>2. /\ round \in 0..(FullRounds + PartialRounds[w] - 1) /\ round = Half + r
        /\ r \in 0..PartialRounds[w] /\ r + 1 \in 0..PartialRounds[w]
        /\ round + 1 = Half + (r + 1)
    BY <1>3, <2>1
  <2>3. (t * 2 - 1) * r = (2 * w + 1) * r
    <3>1. t * 2 - 1 = 2 * w + 1
      BY <1>3
    <3> QED
      BY <3>1
  <2>4. state' = MixSparse(w, (2 * w + 1) * r, [state EXCEPT ![0] = first])
    BY <1>3, <1>8, <2>3 DEF PartialRound
  <2>5. /\ inputs' = inputs /\ round' = round + 1 /\ output' = output
    BY <1>8 DEF PartialRound
  <2> HIDE DEF r
  <2>6. state = Mix(w, Dense[w][r], Plus(w, z, Ahead[w][r]))
    BY <1>3, <2>2, OptimisedPartial
  <2>7. state' = Mix(w, Dense[w][r + 1],
                     Plus(w, PlainRound(w, Half + r, z), Ahead[w][r + 1]))
    BY <1>3, <2>1, <2>4, <2>6, PartialStep
  <2>8. Plain(inputs)[Half + (r + 1)] = PlainRound(w, Half + r, z)
    BY <1>3, <2>2, PlainStates
  <2>9. state' = Optimised(inputs, round + 1)
    BY <1>3, <2>2, <2>7, <2>8, OptimisedPartial
  <2> QED
    BY <1>4, <1>5, <2>5, <2>9
<1>10. /\ PartialRounds[w] \in Nat /\ Half \in Nat \ {0} /\ FullRounds = 2 * Half
       /\ round \in 0..(FullRounds + PartialRounds[w])
  BY <1>3
<1>9. CASE SecondRound
  <2> DEFINE r    == round - Half - PartialRounds[w]
             base == SecondBase(w) + r * (w + 1)
  <2>1. r \in 0..(Half - 2) /\ FullRound(base, M[n])
    BY <1>3, <1>9 DEF SecondRound, SecondBase
  <2>2. /\ round < FullRounds + PartialRounds[n] - 1 /\ round >= Half + PartialRounds[n]
        /\ round + 1 = Half + PartialRounds[w] + r + 1
    <3>1. round \in Nat
      BY <1>10
    <3>2. r \in 0..(Half - 2)
      BY <2>1
    <3> QED
      BY <1>10, <3>1, <3>2
  <2> HIDE DEF r
  <2>3. \A i \in 0..n : C[n][base + i] \in Int
    BY <1>3, <2>1, SecondRows
  <2>4. Mix(n, M[n], RowOfC(n, base)) = RoundConstants[n][round + 1]
    <3>1. ConstantsDerived(w)
      BY <1>3, DerivationAssumption
    <3>2. Mix(w, M[w], RowOfC(w, base)) = RoundConstants[w][Half + PartialRounds[w] + r + 1]
      BY <2>1, <3>1 DEF ConstantsDerived
    <3> QED
      BY <2>2, <3>2
  <2> HIDE DEF base
  <2>5. state' = Optimised(inputs, round + 1)
    BY <2>1, <2>2, <2>3, <2>4, FullRoundHash
  <2> QED
    BY <1>4, <1>5, <2>1, <2>5 DEF FullRound
<1>11. CASE LastRound
  <2>1. /\ round = FullRounds + PartialRounds[w] - 1
        /\ round' = round + 1 /\ inputs' = inputs
        /\ state' = Mix(w, M[w], SboxAll(state)) /\ output' = state'[0]
    BY <1>11 DEF LastRound
  <2>2. /\ round \in 0..(FullRounds + PartialRounds[w] - 1)
        /\ round >= Half + PartialRounds[w]
        /\ round + 1 = FullRounds + PartialRounds[w]
    <3>1. round = FullRounds + PartialRounds[w] - 1
      BY <2>1
    <3> QED
      BY <1>10, <3>1
  <2>3. state = Plus(w, z, RoundConstants[w][round])
    BY <1>3, <2>2, OptimisedFull
  <2>4. state' = PlainRound(w, round, z)
    <3>1. \A i \in 0..w : C[w][0 * (w + 1) + i] \in Int
      <4>1. w \in 1..MaxInputs
        BY <1>3
      <4>2. 0 \in 0..Half
        BY <1>10
      <4> QED
        BY ONLY <4>1, <4>2, FirstRows
    <3>2. Mix(w, M[w], SboxAll(Plus(w, z, RoundConstants[w][round])))
           = PlainRound(w, round, z)
      BY <1>3, <2>2, <3>1, FullStep
    <3> QED
      BY <2>1, <2>3, <3>2
  <2>5. Plain(inputs)[round + 1] = PlainRound(w, round, z)
    BY <1>3, <2>2, PlainStates
  <2>6. state' = Optimised(inputs, round + 1)
    BY <1>3, <2>2, <2>4, <2>5 DEF Optimised
  <2> QED
    BY <2>1, <2>6 DEF HashInv, Hashed
<1> QED
  BY <1>6, <1>7, <1>8, <1>9, <1>11 DEF Next

\* The rounds of poseidon.ts, over tables derived as those of circomlibjs are,
\* compute the plain permutation, which is the one the circuits constrain, for
\* every field, every number of inputs and of rounds, and inputs of any sign and
\* size.
THEOREM HashIsPoseidonHolds == Spec => []HashIsPoseidon
<1>1. Spec => [](TypeOK /\ OrderInv)
  <2>1. Spec => []OrderInv
    BY InitOrder, NextOrder, PTL DEF Spec
  <2> QED
    BY <2>1, TypeCorrect, PTL
<1>2. Init => HashInv
  BY DEF Init, HashInv, Hashed
<1>3. TypeOK /\ OrderInv /\ HashInv /\ [Next]_vars /\ OrderInv' => HashInv'
  <2>1. CASE Next
    BY <2>1, NextHash
  <2>2. CASE UNCHANGED vars
    BY <2>2 DEF vars, HashInv, Hashed
  <2> QED
    BY <2>1, <2>2
<1>4. TypeOK /\ OrderInv /\ HashInv => HashIsPoseidon
  <2> SUFFICES ASSUME TypeOK, OrderInv, HashInv, Hashed PROVE output = Reference
    BY DEF HashIsPoseidon
  <2>1. /\ Accepted /\ round = FullRounds + PartialRounds[n]
        /\ state = Optimised(inputs, round) /\ output = state[0]
    BY DEF OrderInv, HashInv, Hashed
  <2>2. Optimised(inputs, round) = Plain(inputs)[FullRounds + PartialRounds[n]]
    BY <2>1 DEF Optimised, n
  <2> QED
    BY <2>1, <2>2 DEF Reference
<1> QED
  BY <1>1, <1>2, <1>3, <1>4, PTL DEF Spec

=============================================================================
