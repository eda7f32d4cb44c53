------------------------ MODULE VerifierChargeProofs ------------------------
(***************************************************************************)
(* RateExact of Verifier, for every value of the constants: what a call    *)
(* costs its caller.  BudgetInv, proved in VerifierProofs, says that the   *)
(* host keeps the counters of the current window; here it is shown that    *)
(* they count every charged call and nothing else.                         *)
(***************************************************************************)
EXTENDS VerifierProofs

USE DEF Ledger

-----------------------------------------------------------------------------
(* Windows follow one another.                                             *)

LEMMA RemainderIsUnique ==
  ASSUME NEW w \in Nat \ {0}, NEW q \in Int, NEW r \in 0..(w - 1),
         NEW p \in Int, NEW s \in 0..(w - 1), q * w + r = p * w + s
  PROVE  r = s
<1>1. (q - p) * w = s - r
  OBVIOUS
<1>2. CASE q - p >= 1
  <2>1. (q - p) * w >= w
    BY <1>2
  <2> QED
    BY <1>1, <2>1
<1>3. CASE q - p <= -1
  <2>1. (q - p) * w <= -w
    BY <1>3
  <2> QED
    BY <1>1, <2>1
<1>4. CASE q = p
  <2>1. (q - p) * w = 0
    BY <1>4
  <2> QED
    BY <1>1, <2>1
<1> QED
  BY <1>2, <1>3, <1>4

LEMMA Division ==
  ASSUME NEW l \in Nat, NEW w \in Nat \ {0}
  PROVE  /\ l = (l \div w) * w + (l % w)
         /\ l % w \in 0..(w - 1)
         /\ l \div w \in Int
  OBVIOUS

\* The ledger after l is in the window of l or begins the next one.
LEMMA NextWindow ==
  ASSUME NEW l \in Nat, NEW w \in Nat \ {0},
         WindowStart(l + 1, w) # WindowStart(l, w)
  PROVE  WindowStart(l + 1, w) = l + 1
<1> DEFINE q == (l + 1) \div w
           r == (l + 1) % w
           p == l \div w
           s == l % w
<1>1. l + 1 = q * w + r /\ r \in 0..(w - 1) /\ q \in Int
  <2>1. l + 1 \in Nat
    OBVIOUS
  <2> QED
    BY <2>1, Division
<1>2. l = p * w + s /\ s \in 0..(w - 1) /\ p \in Int
  BY Division
<1>3. WindowStart(l + 1, w) = l + 1 - r /\ WindowStart(l, w) = l - s
  BY DEF WindowStart
<1> HIDE DEF q, r, p, s
<1>4. CASE r # 0
  <2>1. r - 1 \in 0..(w - 1) /\ q * w \in Int /\ p * w \in Int
    BY <1>1, <1>2, <1>4
  <2>2. q * w + (r - 1) = p * w + s
    BY <1>1, <1>2, <2>1
  <2>3. r - 1 = s
    BY <1>1, <1>2, <2>1, <2>2, RemainderIsUnique
  <2>4. l + 1 - r = l - s
    BY <1>1, <1>2, <2>3
  <2> QED
    BY <1>3, <2>4
<1>5. CASE r = 0
  BY <1>3, <1>5
<1> QED
  BY <1>4, <1>5

-----------------------------------------------------------------------------
(* The steps.                                                              *)

\* Steps that leave the ledger, the limits, the counters and their history as
\* they are keep both parts of ChargeInv that BudgetInv lacks.
LEMMA ChargeInvFrame ==
  ASSUME FutureEmpty, RateExact,
         UNCHANGED <<ledger, limits, counts, granted, since>>
  PROVE  FutureEmpty' /\ RateExact'
  BY DEF FutureEmpty, RateExact, CurrentWindow, WindowStart

LEMMA AdminCallCharge ==
  ASSUME ConstantsAssumption, ChargeInv, NEW s \in Address, AdminCall(s)
  PROVE  FutureEmpty' /\ RateExact'
<1>1. CASE \E m \in MaxCallsArg, w \in WindowArg : SetLimits(s, m, w)
  <2>1. PICK m \in MaxCallsArg, w \in WindowArg : SetLimits(s, m, w)
    BY <1>1
  <2>2. ledger' = ledger /\ counts' = counts /\ since' = ledger
        /\ limits' = [max_calls |-> m, window_size |-> w] /\ w \in Nat \ {0}
    BY <2>1 DEF SetLimits, ConstantsAssumption
  <2>3. ledger \in Nat
    BY DEF ChargeInv, BudgetInv, TypeOK, ConstantsAssumption
  <2>4. CurrentWindow' = WindowStart(ledger, w)
    BY <2>2 DEF CurrentWindow
  <2>5. WindowStart(ledger, w) \in 0..ledger
    BY <2>2, <2>3, WindowBounds
  <2>6. ~(since' < CurrentWindow')
    BY <2>2, <2>3, <2>4, <2>5
  <2> QED
    BY <2>2, <2>6 DEF FutureEmpty, RateExact, ChargeInv
<1>2. CASE UNCHANGED <<ledger, limits, counts, granted, since>>
  BY <1>2, ChargeInvFrame DEF ChargeInv
<1> QED
  BY <1>1, <1>2 DEF AdminCall, UpdateVk, SetAllowlistMode, AddToAllowlist,
     RemoveFromAllowlist, ProposeAdmin, AcceptAdmin, Upgrade, budget

\* Adding n calls to one caller's counter of the current window and to its
\* history, as a single call or a finished batch does.
LEMMA ChargedTogether ==
  ASSUME ConstantsAssumption, ChargeInv,
         NEW c \in Address, NEW n \in Nat, NEW e \in EntryType,
         e.n = counts[c][CurrentWindow].n + n,
         counts' = [counts EXCEPT ![c][CurrentWindow] = e],
         granted' = [granted EXCEPT ![c] = @ + n],
         UNCHANGED <<ledger, limits, since>>
  PROVE  FutureEmpty' /\ RateExact'
<1>1. TypeOK
  BY DEF ChargeInv, BudgetInv
<1>2. /\ counts \in [Address -> [Ledger -> EntryType]]
      /\ granted \in [Address -> Nat]
      /\ CurrentWindow \in Ledger /\ CurrentWindow \in Int
      /\ ledger \in Int /\ CurrentWindow <= ledger
  <2>1. CurrentWindow \in Ledger /\ CurrentWindow <= ledger
    BY <1>1, CurrentWindowBounds
  <2> QED
    BY <1>1, <2>1 DEF TypeOK, ConstantsAssumption
<1>3. CurrentWindow' = CurrentWindow
  BY DEF CurrentWindow
<1>4. /\ counts'[c][CurrentWindow] = e
      /\ \A d \in Address : d # c => counts'[d] = counts[d]
  BY <1>2, CounterUpdate
<1>5. \A k \in Ledger : k # CurrentWindow => counts'[c][k] = counts[c][k]
  BY <1>2
<1>6. /\ granted'[c] = granted[c] + n
      /\ \A d \in Address : d # c => granted'[d] = granted[d]
  BY <1>2
<1>7. ASSUME NEW d \in Address, NEW k \in Ledger, k > ledger'
      PROVE  counts'[d][k] = NoEntry
  <2>1. k # CurrentWindow /\ counts[d][k] = NoEntry
    BY <1>2, <1>7 DEF ChargeInv, FutureEmpty
  <2> QED
    BY <1>4, <1>5, <2>1
<1>8. ASSUME since' < CurrentWindow', NEW d \in Address
      PROVE  counts'[d][CurrentWindow'].n = granted'[d]
  <2>1. counts[d][CurrentWindow].n = granted[d]
    BY <1>3, <1>8 DEF ChargeInv, RateExact
  <2> QED
    BY <1>3, <1>4, <1>6, <2>1
<1> QED
  BY <1>7, <1>8 DEF FutureEmpty, RateExact

LEMMA VerifyProofCharge ==
  ASSUME ConstantsAssumption, ChargeInv, NEW c \in CallerArg, NEW item \in Item,
         VerifyProof(c, item)
  PROVE  FutureEmpty' /\ RateExact'
<1> DEFINE e == counts[c][CurrentWindow]
           v == Verdict(c, item, e)
<1>1. CASE v \notin {"True", "False"}
  <2>1. UNCHANGED <<ledger, limits, counts, granted, since>>
    BY <1>1 DEF VerifyProof
  <2> QED
    BY <2>1, ChargeInvFrame DEF ChargeInv
<1>2. CASE v \in {"True", "False"}
  <2>1. /\ counts' = [counts EXCEPT ![c][CurrentWindow] = Charge(e)]
        /\ granted' = [granted EXCEPT ![c] = @ + 1]
        /\ UNCHANGED <<ledger, limits, since>>
    BY <1>2 DEF VerifyProof
  <2>2. TypeOK /\ c \in Address
    BY DEF ChargeInv, BudgetInv, ConstantsAssumption
  <2>3. e \in EntryType
    BY <2>2, CurrentWindowBounds DEF TypeOK
  <2>4. Charge(e) \in EntryType /\ Charge(e).n = e.n + 1
    BY <2>2, <2>3, ChargeFacts
  <2> QED
    BY <2>1, <2>2, <2>4, ChargedTogether
<1> QED
  BY <1>1, <1>2

LEMMA EndBatchCharge ==
  ASSUME ConstantsAssumption, ChargeInv, EndBatch
  PROVE  FutureEmpty' /\ RateExact'
<1>1. /\ counts' = [counts EXCEPT ![frame.caller][CurrentWindow] = frame.entry]
      /\ granted' = [granted EXCEPT ![frame.caller] = @ + frame.granted]
      /\ UNCHANGED <<ledger, limits, since>>
  BY DEF EndBatch
<1>2. frame.granted \in Nat /\ frame.entry \in EntryType
  BY DEF ChargeInv, BudgetInv, TypeOK, FrameType
<1>3. /\ frame.caller \in Address
      /\ frame.entry.n = counts[frame.caller][CurrentWindow].n + frame.granted
  <2>1. ~Idle
    BY DEF EndBatch
  <2> QED
    BY <2>1 DEF ChargeInv, BudgetInv, FrameInv
<1> QED
  BY <1>1, <1>2, <1>3, ChargedTogether

\* The counters of a new window are empty, whatever the host evicts.
LEMMA CloseLedgerCharge ==
  ASSUME ConstantsAssumption, ChargeInv, CloseLedger
  PROVE  FutureEmpty' /\ RateExact'
<1>1. TypeOK
  BY DEF ChargeInv, BudgetInv
<1>2. /\ ledger' = ledger + 1 /\ limits' = limits /\ since' = since
      /\ counts' = Evict(ledger + 1)
      /\ CurrentWindow' = WindowStart(ledger + 1, limits.window_size)
  BY DEF CloseLedger, CurrentWindow
<1>3. /\ ledger \in Nat /\ since \in Nat /\ limits.window_size \in Nat \ {0}
      /\ counts \in [Address -> [Ledger -> EntryType]]
      /\ granted \in [Address -> Nat]
      /\ ledger + 1 \in Ledger
  <2>1. MaxLedger \in Nat /\ ledger < MaxLedger
    BY DEF ConstantsAssumption, CloseLedger
  <2>2. ledger \in 0..MaxLedger /\ since \in 0..MaxLedger
        /\ limits.window_size \in Nat \ {0}
    BY <1>1 DEF TypeOK, LimitsType
  <2>3. counts \in [Address -> [Ledger -> EntryType]] /\ granted \in [Address -> Nat]
    BY <1>1 DEF TypeOK
  <2> QED
    BY <2>1, <2>2, <2>3
<1>4. NoEntry.n = 0
  BY DEF NoEntry
<1>5. \A c \in Address, k \in Ledger :
        counts'[c][k] = IF counts[c][k].liveUntil < ledger + 1 THEN NoEntry ELSE counts[c][k]
  BY <1>2 DEF Evict
<1>6. FutureEmpty'
  <2> SUFFICES ASSUME NEW c \in Address, NEW k \in Ledger, k > ledger'
               PROVE  counts'[c][k] = NoEntry
    BY DEF FutureEmpty
  <2>1. k > ledger
    <3>1. k \in Int
      BY DEF ConstantsAssumption
    <3> QED
      BY <1>2, <1>3, <3>1
  <2>2. counts[c][k] = NoEntry
    BY <2>1 DEF ChargeInv, FutureEmpty
  <2> QED
    BY <1>5, <2>2
<1>7. CASE CurrentWindow' # CurrentWindow
  <2>1. CurrentWindow' = ledger + 1
    BY <1>2, <1>3, <1>7, NextWindow DEF CurrentWindow
  <2>2. granted' = [c \in Address |-> 0]
    BY <1>2, <1>7 DEF CloseLedger
  <2>3. ASSUME NEW c \in Address
        PROVE  counts'[c][CurrentWindow'].n = granted'[c]
    <3>1. ledger + 1 > ledger
      BY <1>3
    <3>2. counts[c][ledger + 1] = NoEntry
      BY <1>3, <3>1 DEF ChargeInv, FutureEmpty
    <3> QED
      BY <1>3, <1>4, <1>5, <2>1, <2>2, <3>2
  <2> QED
    BY <1>6, <2>3 DEF RateExact
<1>8. CASE CurrentWindow' = CurrentWindow
  <2>1. granted' = granted
    BY <1>2, <1>8 DEF CloseLedger
  <2>2. CurrentWindow \in Ledger /\ CurrentWindow \in Int
    BY <1>1, CurrentWindowBounds DEF ConstantsAssumption
  <2>3. ledger + 1 < CurrentWindow + limits.window_size
    <3>1. ledger + 1 \in Nat
      BY <1>3
    <3> QED
      BY <1>2, <1>3, <1>8, <3>1, WindowBounds
  <2>4. ASSUME since' < CurrentWindow', NEW c \in Address
        PROVE  counts'[c][CurrentWindow'].n = granted'[c]
    <3> DEFINE e == counts[c][CurrentWindow]
    <3>1. e.n = granted[c]
      BY <1>2, <1>8, <2>4 DEF ChargeInv, RateExact
    <3>2. counts'[c][CurrentWindow] = IF e.liveUntil < ledger + 1 THEN NoEntry ELSE e
      BY <1>5, <2>2
    <3>3. e \in EntryType /\ e.liveUntil \in Nat /\ granted[c] \in Nat
      BY <1>3, <2>2 DEF EntryType
    <3>4. CASE granted[c] = 0
      BY <1>4, <1>8, <2>1, <3>1, <3>2, <3>4
    <3>5. CASE granted[c] > 0
      <4>1. CurrentWindow + limits.window_size <= e.liveUntil + 1
        BY <3>5 DEF ChargeInv, BudgetInv, WindowInv
      <4>2. ~(e.liveUntil < ledger + 1)
        BY <1>3, <2>2, <2>3, <3>3, <4>1
      <4> QED
        BY <1>8, <2>1, <3>1, <3>2, <4>2
    <3> QED
      BY <3>3, <3>4, <3>5
  <2> QED
    BY <1>6, <2>4 DEF RateExact
<1> QED
  BY <1>7, <1>8

LEMMA InitCharge == ASSUME ConstantsAssumption, Init PROVE ChargeInv
<1>1. TypeOK
  BY InitTypeOK
<1>2. ~(since < CurrentWindow)
  <2>1. CurrentWindow <= ledger /\ CurrentWindow \in Int /\ ledger \in Int
    BY <1>1, CurrentWindowBounds DEF TypeOK, ConstantsAssumption
  <2> QED
    BY <2>1 DEF Init
<1>3. FutureEmpty
  BY DEF Init, FutureEmpty
<1> QED
  BY <1>2, <1>3, InitBudget DEF ChargeInv, RateExact

LEMMA ChargeInvariant == Spec => []ChargeInv
<1>1. Init => ChargeInv
  BY InitCharge, ConstantsAssumption
<1>2. ChargeInv /\ BudgetInv' /\ [Next]_vars => ChargeInv'
  <2> SUFFICES ASSUME ChargeInv, BudgetInv', [Next]_vars
               PROVE  FutureEmpty' /\ RateExact'
    BY DEF ChargeInv
  <2>1. CASE \E c \in CallerArg : BeginBatch(c)
    BY <2>1, ChargeInvFrame DEF BeginBatch, budget, ChargeInv
  <2>2. CASE \E item \in Item : BatchEntry(item) \/ BatchTrap(item)
    BY <2>2, ChargeInvFrame DEF BatchEntry, BatchTrap, budget, ChargeInv
  <2>3. CASE UNCHANGED vars
    BY <2>3, ChargeInvFrame DEF vars, budget, ChargeInv
  <2> QED
    BY <2>1, <2>2, <2>3, AdminCallCharge, VerifyProofCharge, EndBatchCharge,
       CloseLedgerCharge, ConstantsAssumption DEF Next, VerifyCall
<1> QED
  BY <1>1, <1>2, BudgetInvariant, PTL DEF Spec

\* Once a window began after the limits were last set, a caller's counter is
\* the number of its calls that were charged: verify_proof's errors and panics
\* and verify_batch's panics cost nothing, every other outcome costs one call.
THEOREM RateExactHolds == Spec => []RateExact
<1>1. ChargeInv => RateExact
  BY DEF ChargeInv
<1> QED
  BY <1>1, ChargeInvariant, PTL

=============================================================================
