--------------------------- MODULE VerifierProofs ---------------------------
(***************************************************************************)
(* Theorems about Verifier for every set of addresses, keys, proofs and    *)
(* limits, and their proofs.                                               *)
(***************************************************************************)
EXTENDS Verifier, TLAPS

USE DEF Ledger

-----------------------------------------------------------------------------
(* Lemmas about the operators verify_one is built from.                    *)

\* The window of ledger l of length w starts at or before l and ends after it:
\* what verify_one computes as window_start.
LEMMA WindowBounds ==
  ASSUME NEW l \in Nat, NEW w \in Nat \ {0}
  PROVE  /\ WindowStart(l, w) \in 0..l
         /\ l < WindowStart(l, w) + w
<1>1. l % w \in 0..(w - 1)
  OBVIOUS
<1>2. l % w <= l
  OBVIOUS
<1> QED
  BY <1>1, <1>2 DEF WindowStart

\* The window read and charged by verify_one is a key of the counter.
LEMMA CurrentWindowBounds ==
  ASSUME TypeOK, ConstantsAssumption
  PROVE  /\ CurrentWindow \in Ledger
         /\ CurrentWindow <= ledger
         /\ ledger < CurrentWindow + limits.window_size
<1>1. ledger \in Nat /\ ledger <= MaxLedger /\ limits.window_size \in Nat \ {0}
  BY DEF TypeOK, LimitsType, ConstantsAssumption
<1> QED
  BY <1>1, WindowBounds DEF CurrentWindow, ConstantsAssumption

\* A charge adds one call, and the entry then lives at least one window on.
LEMMA ChargeFacts ==
  ASSUME TypeOK, ConstantsAssumption, NEW e \in EntryType
  PROVE  /\ Charge(e) \in EntryType
         /\ Charge(e).n = e.n + 1
         /\ Charge(e).liveUntil >= ledger + limits.window_size
<1> DEFINE live == IF e.n = 0 THEN ledger + MinTtl ELSE e.liveUntil
           end == ledger + limits.window_size
<1>1. ledger \in Nat /\ MinTtl \in Nat /\ limits.window_size \in Nat
  BY DEF TypeOK, LimitsType, ConstantsAssumption
<1>2. e.n \in Nat /\ e.liveUntil \in Nat
  BY DEF EntryType
<1>3. live \in Nat /\ end \in Nat
  BY <1>1, <1>2
<1>4. Larger(live, end) \in Nat /\ Larger(live, end) >= end
  BY <1>3 DEF Larger
<1>5. Charge(e) = [n |-> e.n + 1, liveUntil |-> Larger(live, end)]
  BY DEF Charge
<1> QED
  BY <1>2, <1>4, <1>5 DEF EntryType

\* Writing an entry into one caller's counter of one window.
LEMMA CounterUpdate ==
  ASSUME NEW f \in [Address -> [Ledger -> EntryType]], NEW c \in Address,
         NEW k \in Ledger, NEW e \in EntryType
  PROVE  LET g == [f EXCEPT ![c][k] = e]
         IN  /\ g \in [Address -> [Ledger -> EntryType]]
             /\ g[c][k] = e
             /\ \A d \in Address : d # c => g[d] = f[d]
<1> DEFINE row == [f[c] EXCEPT ![k] = e]
<1>1. row \in [Ledger -> EntryType] /\ row[k] = e
  OBVIOUS
<1>2. [f EXCEPT ![c][k] = e] = [f EXCEPT ![c] = row]
  OBVIOUS
<1> QED
  BY <1>1, <1>2

\* verify_one ends in one of seven ways.
LEMMA VerdictRange ==
  ASSUME NEW c, NEW item, NEW e
  PROVE  Verdict(c, item, e) \in {"True", "False", "Trap", "CallerNotAllowed",
                                  "RateLimitExceeded", "ProofExpired"}
  BY DEF Verdict, Judge

\* The outcome of verify_one is a function of the basis of its call.
LEMMA VerdictOfBasis ==
  ASSUME NEW c, NEW items, NEW i \in DOMAIN items, NEW e
  PROVE  Verdict(c, items[i], e) = VerdictAt(Basis(c, items), i, e.n, items[i])
<1> DEFINE b == Basis(c, items)
<1>1. i \in b.expired <=> ledger > items[i].expiry
  BY DEF Basis
<1>2. b.allowed <=> ~(allowlistEnabled /\ c \notin allowlist)
  BY DEF Basis, Allowed
<1>3. b.limits = limits /\ b.key = vk
  BY DEF Basis
<1> HIDE DEF b
<1> QED
  BY <1>1, <1>2, <1>3 DEF Verdict, Judge, VerdictAt, b

\* A call that got past the budget check left the counter within max_calls.
LEMMA WithinBudgetFacts ==
  ASSUME TypeOK, NEW c \in Address, NEW item, NEW e \in EntryType,
         WithinBudget(Verdict(c, item, e)), Verdict(c, item, e) # "Trap"
  PROVE  e.n + 1 <= limits.max_calls
  BY DEF TypeOK, LimitsType, EntryType, WithinBudget, Verdict

-----------------------------------------------------------------------------
(* Type correctness.                                                       *)

LEMMA InitTypeOK == ASSUME ConstantsAssumption, Init PROVE TypeOK
<1>1. limits \in LimitsType
  BY DEF Init, LimitsType, ConstantsAssumption
<1>2. NoEntry \in EntryType
  BY DEF NoEntry, EntryType
<1>3. frame \in FrameType /\ receipt \in ReceiptType
  BY <1>2 DEF Init, NoFrame, NoReceipt, FrameType, ReceiptType
<1> QED
  BY <1>1, <1>2, <1>3 DEF Init, TypeOK, ConstantsAssumption

LEMMA VerifyCallTypeOK ==
  ASSUME ConstantsAssumption, TypeOK, VerifyCall
  PROVE  TypeOK'
<1>1. ASSUME NEW c \in CallerArg, NEW item \in Item, VerifyProof(c, item)
      PROVE  TypeOK'
  <2> DEFINE e == counts[c][CurrentWindow]
             v == Verdict(c, item, e)
  <2>1. c \in Address
    BY DEF ConstantsAssumption
  <2>2. e \in EntryType
    BY <2>1, CurrentWindowBounds DEF TypeOK
  <2>3. Charge(e) \in EntryType
    BY <2>2, ChargeFacts
  <2>4. v \in {"True", "False", "Trap", "CallerNotAllowed",
               "RateLimitExceeded", "ProofExpired"}
    BY VerdictRange
  <2>5. counts' \in [Address -> [Ledger -> EntryType]]
    <3>1. counts' = [counts EXCEPT ![c][CurrentWindow] = Charge(e)] \/ counts' = counts
      BY <1>1 DEF VerifyProof
    <3>2. counts \in [Address -> [Ledger -> EntryType]] /\ CurrentWindow \in Ledger
      BY CurrentWindowBounds DEF TypeOK
    <3>3. [counts EXCEPT ![c][CurrentWindow] = Charge(e)]
            \in [Address -> [Ledger -> EntryType]]
      BY <2>1, <2>3, <3>2, CounterUpdate
    <3> QED
      BY <3>1, <3>2, <3>3
  <2>6. granted' \in [Address -> Nat]
    <3>1. granted' = [granted EXCEPT ![c] = @ + 1] \/ granted' = granted
      BY <1>1 DEF VerifyProof
    <3>2. granted \in [Address -> Nat]
      BY DEF TypeOK
    <3> QED
      BY <3>1, <3>2
  <2>7. receipt' \in ReceiptType
    <3>1. CASE v \in {"True", "False"}
      <4>1. receipt' = [op |-> "verify_proof", outcome |-> "Ok", events |-> <<v = "True">>]
        BY <1>1, <3>1 DEF VerifyProof
      <4> QED
        BY <4>1 DEF ReceiptType
    <3>2. CASE v \notin {"True", "False"}
      <4>1. receipt' = [op |-> "verify_proof", outcome |-> v, events |-> <<>>]
        BY <1>1, <3>2 DEF VerifyProof
      <4> QED
        BY <2>4, <3>2, <4>1 DEF ReceiptType
    <3> QED
      BY <3>1, <3>2
  <2> QED
    BY <1>1, <2>5, <2>6, <2>7 DEF VerifyProof, TypeOK, config
<1>2. ASSUME NEW c \in CallerArg, BeginBatch(c)
      PROVE  TypeOK'
  <2>1. c \in Address
    BY DEF ConstantsAssumption
  <2>2. counts[c][CurrentWindow] \in EntryType
    BY <2>1, CurrentWindowBounds DEF TypeOK
  <2>3. frame' \in FrameType
    BY <1>2, <2>1, <2>2 DEF BeginBatch, NoFrame, FrameType
  <2>4. receipt' \in ReceiptType
    BY <1>2 DEF BeginBatch, NoReceipt, ReceiptType
  <2> QED
    BY <1>2, <2>3, <2>4 DEF BeginBatch, TypeOK, config, budget
<1>3. ASSUME NEW item \in Item, BatchEntry(item)
      PROVE  TypeOK'
  <2> DEFINE v == Verdict(frame.caller, item, frame.entry)
  <2>1. frame.entry \in EntryType /\ Charge(frame.entry) \in EntryType
    BY ChargeFacts DEF TypeOK, FrameType
  <2>2. frame' \in FrameType
    <3> HIDE DEF EntryType
    <3> QED
      BY <1>3, <2>1 DEF BatchEntry, TypeOK, FrameType
  <2> QED
    BY <1>3, <2>2 DEF BatchEntry, TypeOK, config, budget
<1>4. ASSUME NEW item \in Item, BatchTrap(item)
      PROVE  TypeOK'
  <2>1. frame' \in FrameType
    BY <1>4 DEF BatchTrap, NoFrame, FrameType, NoEntry, EntryType
  <2>2. receipt' \in ReceiptType
    BY <1>4 DEF BatchTrap, ReceiptType
  <2> QED
    BY <1>4, <2>1, <2>2 DEF BatchTrap, TypeOK, config, budget
<1>5. ASSUME EndBatch
      PROVE  TypeOK'
  <2>1. frame' \in FrameType
    BY <1>5 DEF EndBatch, NoFrame, FrameType, NoEntry, EntryType
  <2>2. receipt' \in ReceiptType
    BY <1>5 DEF EndBatch, ReceiptType, TypeOK, FrameType
  <2>3. counts' \in [Address -> [Ledger -> EntryType]]
    <3>1. counts' = [counts EXCEPT ![frame.caller][CurrentWindow] = frame.entry]
      BY <1>5 DEF EndBatch
    <3>2. counts \in [Address -> [Ledger -> EntryType]] /\ frame.entry \in EntryType
      BY DEF TypeOK, FrameType
    <3> QED
      BY <3>1, <3>2, CurrentWindowBounds
  <2>4. granted' \in [Address -> Nat]
    <3>1. granted' = [granted EXCEPT ![frame.caller] = @ + frame.granted]
      BY <1>5 DEF EndBatch
    <3>2. granted \in [Address -> Nat] /\ frame.granted \in Nat
      BY DEF TypeOK, FrameType
    <3>3. CASE frame.caller \in Address
      BY <3>1, <3>2, <3>3
    <3>4. CASE frame.caller \notin Address
      BY <3>1, <3>2, <3>4
    <3> QED
      BY <3>3, <3>4
  <2> QED
    BY <1>5, <2>1, <2>2, <2>3, <2>4 DEF EndBatch, TypeOK, config
<1> QED
  BY <1>1, <1>2, <1>3, <1>4, <1>5 DEF VerifyCall

LEMMA NoReceiptType == NoReceipt \in ReceiptType
  BY DEF NoReceipt, ReceiptType

LEMMA AdminCallTypeOK ==
  ASSUME ConstantsAssumption, TypeOK, NEW s \in Address, AdminCall(s)
  PROVE  TypeOK'
<1>1. ASSUME NEW m \in MaxCallsArg, NEW w \in WindowArg, SetLimits(s, m, w)
      PROVE  TypeOK'
  <2>1. limits' \in LimitsType
    BY <1>1 DEF SetLimits, LimitsType, ConstantsAssumption
  <2>2. granted' \in [Address -> Nat] /\ since' \in Ledger
    BY <1>1 DEF SetLimits, TypeOK
  <2> QED
    BY <1>1, <2>1, <2>2, NoReceiptType DEF SetLimits, TypeOK, config
<1>2. ASSUME NEW k \in Vk, UpdateVk(s, k)
      PROVE  TypeOK'
  BY <1>2, NoReceiptType DEF UpdateVk, TypeOK, budget
<1>3. ASSUME NEW b \in BOOLEAN, SetAllowlistMode(s, b)
      PROVE  TypeOK'
  BY <1>3, NoReceiptType DEF SetAllowlistMode, TypeOK, budget
<1>4. ASSUME NEW a \in ListedArg, AddToAllowlist(s, a)
      PROVE  TypeOK'
  BY <1>4, NoReceiptType DEF AddToAllowlist, TypeOK, budget, ConstantsAssumption
<1>5. ASSUME NEW a \in ListedArg, RemoveFromAllowlist(s, a)
      PROVE  TypeOK'
  BY <1>5, NoReceiptType DEF RemoveFromAllowlist, TypeOK, budget
<1>6. ASSUME NEW a \in NomineeArg, ProposeAdmin(s, a)
      PROVE  TypeOK'
  BY <1>6, NoReceiptType DEF ProposeAdmin, TypeOK, budget, ConstantsAssumption
<1>7. ASSUME AcceptAdmin(s)
      PROVE  TypeOK'
  BY <1>7, NoReceiptType DEF AcceptAdmin, TypeOK, budget
<1>8. ASSUME NEW h \in Wasm, Upgrade(s, h)
      PROVE  TypeOK'
  BY <1>8, NoReceiptType DEF Upgrade, TypeOK, budget
<1> QED
  BY <1>1, <1>2, <1>3, <1>4, <1>5, <1>6, <1>7, <1>8 DEF AdminCall

LEMMA CloseLedgerTypeOK ==
  ASSUME ConstantsAssumption, TypeOK, CloseLedger
  PROVE  TypeOK'
<1>1. ledger' \in Ledger
  BY DEF CloseLedger, TypeOK, ConstantsAssumption
<1>2. counts' \in [Address -> [Ledger -> EntryType]]
  BY DEF CloseLedger, Evict, TypeOK, NoEntry, EntryType
<1>3. granted' \in [Address -> Nat]
  BY DEF CloseLedger, TypeOK
<1> QED
  BY <1>1, <1>2, <1>3, NoReceiptType DEF CloseLedger, TypeOK, config

LEMMA NextTypeOK ==
  ASSUME ConstantsAssumption, TypeOK, [Next]_vars
  PROVE  TypeOK'
<1>1. CASE UNCHANGED vars
  BY <1>1 DEF vars, config, budget, TypeOK
<1> QED
  BY <1>1, AdminCallTypeOK, VerifyCallTypeOK, CloseLedgerTypeOK DEF Next

\* Every reachable state is well typed: in particular window_size, which
\* verify_one divides by, is never 0, and every stored count is a number.
THEOREM TypeCorrect == Spec => []TypeOK
<1>1. Init => TypeOK
  BY InitTypeOK, ConstantsAssumption
<1>2. TypeOK /\ [Next]_vars => TypeOK'
  BY NextTypeOK, ConstantsAssumption
<1> QED
  BY <1>1, <1>2, PTL DEF Spec

-----------------------------------------------------------------------------
(* Administration.                                                         *)

PendingInv == TypeOK /\ PendingFromAdmin /\ (pending = NoAddr => nominator = NoAddr)

\* Only propose_admin and accept_admin touch the admin entries.
LEMMA AdminStep ==
  ASSUME [Next]_vars
  PROVE  \/ UNCHANGED <<admin, pending, nominator>>
         \/ \E s \in Address : \/ \E a \in NomineeArg : ProposeAdmin(s, a)
                              \/ AcceptAdmin(s)
<1>1. ASSUME NEW s \in Address, AdminCall(s)
      PROVE  \/ UNCHANGED <<admin, pending, nominator>>
             \/ \E a \in NomineeArg : ProposeAdmin(s, a)
             \/ AcceptAdmin(s)
  BY <1>1 DEF AdminCall, SetLimits, UpdateVk, SetAllowlistMode, AddToAllowlist,
              RemoveFromAllowlist, Upgrade, config
<1>2. ASSUME VerifyCall \/ CloseLedger \/ UNCHANGED vars
      PROVE  UNCHANGED <<admin, pending, nominator>>
  BY <1>2 DEF VerifyCall, VerifyProof, BeginBatch, BatchEntry, BatchTrap, EndBatch,
              CloseLedger, vars, config
<1> QED
  BY <1>1, <1>2 DEF Next

LEMMA NextPending ==
  ASSUME ConstantsAssumption, PendingInv, [Next]_vars
  PROVE  PendingInv'
<1>1. TypeOK'
  BY NextTypeOK DEF PendingInv
<1>2. ASSUME NEW s \in Address, NEW a \in NomineeArg, ProposeAdmin(s, a)
      PROVE  PendingInv'
  BY <1>1, <1>2 DEF ProposeAdmin, PendingInv, PendingFromAdmin, ConstantsAssumption
<1>3. ASSUME NEW s \in Address, AcceptAdmin(s)
      PROVE  PendingInv'
  BY <1>1, <1>3 DEF AcceptAdmin, PendingInv, PendingFromAdmin
<1>4. ASSUME UNCHANGED <<admin, pending, nominator>>
      PROVE  PendingInv'
  BY <1>1, <1>4 DEF PendingInv, PendingFromAdmin
<1> QED
  BY <1>2, <1>3, <1>4, AdminStep

\* No proposal of a former admin can ever be accepted.
THEOREM PendingCorrect == Spec => []PendingFromAdmin
<1>1. Init => PendingInv
  BY InitTypeOK, ConstantsAssumption DEF Init, PendingInv, PendingFromAdmin
<1>2. PendingInv /\ [Next]_vars => PendingInv'
  BY NextPending, ConstantsAssumption
<1>3. PendingInv => PendingFromAdmin
  BY DEF PendingInv
<1> QED
  BY <1>1, <1>2, <1>3, PTL DEF Spec

\* The two-step handoff is implemented: whatever calls are made, the admin
\* changes only to the address the admin in office proposed last.
THEOREM HandoffImplemented == Spec => HandoffSpec
<1>1. Init => Handoff!Init
  BY DEF Init, Handoff!Init
<1>2. PendingInv /\ [Next]_vars => [Handoff!Next]_(Handoff!vars)
  <2> SUFFICES ASSUME PendingInv, [Next]_vars
               PROVE  [Handoff!Next]_(Handoff!vars)
    OBVIOUS
  <2>1. ASSUME NEW s \in Address, NEW a \in NomineeArg, ProposeAdmin(s, a)
        PROVE  Handoff!Nominate
    BY <2>1, ConstantsAssumption DEF ProposeAdmin, Handoff!Nominate, ConstantsAssumption
  <2>2. ASSUME NEW s \in Address, AcceptAdmin(s)
        PROVE  Handoff!TakeOver
    BY <2>2 DEF AcceptAdmin, Handoff!TakeOver, PendingInv, PendingFromAdmin
  <2> QED
    BY <2>1, <2>2, AdminStep DEF Handoff!Next, Handoff!vars
<1>3. Init => PendingInv
  BY InitTypeOK, ConstantsAssumption DEF Init, PendingInv, PendingFromAdmin
<1>4. PendingInv /\ [Next]_vars => PendingInv'
  BY NextPending, ConstantsAssumption
<1> QED
  BY <1>1, <1>2, <1>3, <1>4, PTL DEF Spec, HandoffSpec, Handoff!Spec

-----------------------------------------------------------------------------
(* Panics.                                                                 *)

\* A call panics for one of four reasons, none of them a key that is too short:
\* the checks of the constructor and of update_vk cover verify_one's unwraps.
THEOREM PanicCausesHold == Spec => []PanicCauses
<1>1. Init => KeyInv
  BY DEF Init, KeyInv
<1>2. KeyInv /\ [Next]_vars => KeyInv'
  <2> SUFFICES ASSUME KeyInv, [Next]_vars PROVE KeyInv'
    OBVIOUS
  <2>1. CASE \E s \in Address, k \in Vk : UpdateVk(s, k)
    BY <2>1 DEF UpdateVk, KeyInv
  <2>2. CASE vk' = vk
    BY <2>2 DEF KeyInv
  <2>3. CASE \E s \in Address : AdminCall(s)
    BY <2>1, <2>2, <2>3 DEF AdminCall, SetLimits, SetAllowlistMode, AddToAllowlist,
       RemoveFromAllowlist, ProposeAdmin, AcceptAdmin, Upgrade, config
  <2>4. CASE VerifyCall \/ CloseLedger \/ UNCHANGED vars
    BY <2>2, <2>4 DEF VerifyCall, VerifyProof, BeginBatch, BatchEntry, BatchTrap,
       EndBatch, CloseLedger, config, vars
  <2> QED
    BY <2>3, <2>4 DEF Next
<1>3. KeyInv => PanicCauses
  BY DEF KeyInv, PanicCauses, Verdict, Judge, ItemType, ExpectedPublicInputCount
<1> QED
  BY <1>1, <1>2, <1>3, PTL DEF Spec

-----------------------------------------------------------------------------
(* The call budget.                                                        *)

\* Steps that leave the ledger, the limits, the counters and their history as
\* they are keep WindowInv.
LEMMA WindowInvFrame ==
  ASSUME WindowInv, UNCHANGED <<ledger, limits, counts, granted>>
  PROVE  WindowInv'
  BY DEF WindowInv, CurrentWindow, WindowStart

LEMMA AdminCallBudget ==
  ASSUME ConstantsAssumption, BudgetInv, NEW s \in Address, AdminCall(s)
  PROVE  BudgetInv'
<1>1. TypeOK'
  BY AdminCallTypeOK DEF BudgetInv
<1>2. Idle'
  BY DEF AdminCall, SetLimits, UpdateVk, SetAllowlistMode, AddToAllowlist,
         RemoveFromAllowlist, ProposeAdmin, AcceptAdmin, Upgrade, Idle
<1>3. WindowInv'
  <2>1. CASE \E m \in MaxCallsArg, w \in WindowArg : SetLimits(s, m, w)
    BY <2>1 DEF SetLimits, WindowInv
  <2>2. CASE UNCHANGED <<ledger, limits, counts, granted>>
    BY <2>2, WindowInvFrame DEF BudgetInv
  <2> QED
    BY <2>1, <2>2 DEF AdminCall, UpdateVk, SetAllowlistMode, AddToAllowlist,
       RemoveFromAllowlist, ProposeAdmin, AcceptAdmin, Upgrade, budget
<1> QED
  BY <1>1, <1>2, <1>3 DEF BudgetInv, FrameInv, BatchByPosition

LEMMA VerifyProofBudget ==
  ASSUME ConstantsAssumption, BudgetInv, NEW c \in CallerArg, NEW item \in Item,
         VerifyProof(c, item)
  PROVE  BudgetInv'
<1> DEFINE e == counts[c][CurrentWindow]
           v == Verdict(c, item, e)
<1>1. c \in Address /\ TypeOK
  BY DEF ConstantsAssumption, BudgetInv
<1>2. TypeOK'
  BY <1>1, VerifyCallTypeOK DEF VerifyCall
<1>3. Idle'
  BY DEF VerifyProof, Idle
<1>4. WindowInv'
  <2>1. CASE v \notin {"True", "False"}
    <3>1. UNCHANGED <<ledger, limits, counts, granted>>
      BY <2>1 DEF VerifyProof
    <3> QED
      BY <3>1, WindowInvFrame DEF BudgetInv
  <2>2. CASE v \in {"True", "False"}
    <3>1. /\ counts' = [counts EXCEPT ![c][CurrentWindow] = Charge(e)]
          /\ granted' = [granted EXCEPT ![c] = @ + 1]
          /\ UNCHANGED <<ledger, limits>>
      BY <2>2 DEF VerifyProof
    <3>2. /\ counts \in [Address -> [Ledger -> EntryType]]
          /\ granted \in [Address -> Nat] /\ CurrentWindow \in Ledger
          /\ CurrentWindow \in Nat /\ ledger \in Nat /\ CurrentWindow <= ledger
          /\ limits.window_size \in Nat /\ limits.max_calls \in Nat
      BY <1>1, CurrentWindowBounds DEF TypeOK, LimitsType, ConstantsAssumption
    <3>3. e \in EntryType
      BY <1>1, <3>2
    <3>4. e.n \in Nat /\ Charge(e) \in EntryType /\ Charge(e).n = e.n + 1
          /\ Charge(e).liveUntil >= ledger + limits.window_size
      BY <1>1, <3>3, ChargeFacts DEF EntryType
    <3>5. e.n + 1 <= limits.max_calls
      BY <1>1, <2>2, <3>3, WithinBudgetFacts DEF WithinBudget
    <3>6. CurrentWindow' = CurrentWindow
      BY <3>1 DEF CurrentWindow
    <3>7. counts'[c][CurrentWindow] = Charge(e)
          /\ \A d \in Address : d # c => counts'[d] = counts[d]
      BY <1>1, <3>1, <3>2, <3>4, CounterUpdate
    <3>8. granted'[c] = granted[c] + 1
          /\ \A d \in Address : d # c => granted'[d] = granted[d]
      BY <1>1, <3>1, <3>2
    <3>9. granted[c] <= e.n
      BY <1>1, <3>2, <3>4 DEF BudgetInv, WindowInv
    <3>10. ASSUME NEW d \in Address, granted'[d] > 0
           PROVE  LET f == counts'[d][CurrentWindow']
                  IN  /\ granted'[d] <= f.n
                      /\ granted'[d] <= limits'.max_calls
                      /\ CurrentWindow' + limits'.window_size <= f.liveUntil + 1
      <4>1. CASE d = c
        <5>1. Charge(e).liveUntil \in Nat /\ granted[c] \in Nat
          BY <1>1, <3>2, <3>4 DEF EntryType
        <5> HIDE DEF e
        <5> QED
          <6>1. counts'[d][CurrentWindow'] = Charge(e) /\ granted'[d] = granted[c] + 1
            BY <3>6, <3>7, <3>8, <4>1
          <6>2. granted[c] + 1 <= Charge(e).n /\ granted[c] + 1 <= limits.max_calls
            BY <3>2, <3>4, <3>5, <3>9, <5>1
          <6>3. CurrentWindow + limits.window_size <= Charge(e).liveUntil + 1
            BY <3>2, <3>4, <5>1
          <6>4. limits' = limits
            BY <3>1
          <6> HIDE DEF e
          <6> QED
            BY <3>6, <6>1, <6>2, <6>3, <6>4
      <4>2. CASE d # c
        BY <3>1, <3>6, <3>7, <3>8, <3>10, <4>2 DEF BudgetInv, WindowInv
      <4> QED
        BY <4>1, <4>2
    <3> QED
      BY <3>10 DEF WindowInv
  <2> QED
    BY <2>1, <2>2
<1> QED
  BY <1>2, <1>3, <1>4 DEF BudgetInv, FrameInv, BatchByPosition

LEMMA BeginBatchBudget ==
  ASSUME ConstantsAssumption, BudgetInv, NEW c \in CallerArg, BeginBatch(c)
  PROVE  BudgetInv'
<1>1. TypeOK'
  BY VerifyCallTypeOK DEF VerifyCall, BudgetInv
<1>2. WindowInv'
  BY WindowInvFrame DEF BeginBatch, BudgetInv, budget
<1>3. frame' = [caller |-> c, entry |-> counts[c][CurrentWindow],
                items |-> <<>>, results |-> <<>>, granted |-> 0]
      /\ UNCHANGED <<ledger, limits, counts, allowlist, allowlistEnabled>>
  BY DEF BeginBatch, budget, config
<1>4. CurrentWindow' = CurrentWindow
  BY <1>3 DEF CurrentWindow
<1>5. c \in Address
  BY DEF ConstantsAssumption
<1>6. counts[c][CurrentWindow].n \in Nat
  <2>1. CurrentWindow \in Ledger
    BY CurrentWindowBounds DEF BudgetInv
  <2>2. counts \in [Address -> [Ledger -> EntryType]]
    BY DEF BudgetInv, TypeOK
  <2>3. counts[c][CurrentWindow] \in EntryType
    BY <1>5, <2>1, <2>2
  <2> QED
    BY <2>3 DEF EntryType
<1>7. FrameInv'
  BY <1>3, <1>4, <1>5, <1>6 DEF FrameInv
<1>8. BatchByPosition'
  BY <1>3 DEF BatchByPosition
<1> QED
  BY <1>1, <1>2, <1>7, <1>8 DEF BudgetInv

LEMMA BatchEntryBudget ==
  ASSUME ConstantsAssumption, BudgetInv, NEW item \in Item, BatchEntry(item)
  PROVE  BudgetInv'
<1> DEFINE c == frame.caller
           e == frame.entry
           v == Verdict(c, item, e)
           passed == WithinBudget(v)
           k == Len(frame.items)
           start == counts[c][CurrentWindow].n
           allowed == allowlistEnabled => c \in allowlist
<1>1. TypeOK /\ ~Idle /\ v # "Trap"
  BY DEF BudgetInv, BatchEntry
<1>2. TypeOK'
  BY <1>1, VerifyCallTypeOK DEF VerifyCall
<1>3. WindowInv'
  BY WindowInvFrame DEF BatchEntry, BudgetInv, budget
<1>4. UNCHANGED <<ledger, limits, vk, counts, allowlist, allowlistEnabled>>
  BY DEF BatchEntry, budget, config
<1>5. CurrentWindow' = CurrentWindow
  BY <1>4 DEF CurrentWindow
<1>6. /\ frame'.caller = c
      /\ frame'.entry = IF passed THEN Charge(e) ELSE e
      /\ frame'.items = Append(frame.items, item)
      /\ frame'.results = Append(frame.results, v = "True")
      /\ frame'.granted = IF passed THEN frame.granted + 1 ELSE frame.granted
  BY DEF BatchEntry
<1>7. /\ frame.items \in Seq(Item) /\ frame.results \in Seq(BOOLEAN)
      /\ frame.granted \in Nat /\ k \in Nat
      /\ limits.max_calls \in 0..U32Max /\ limits.window_size \in Nat
      /\ ledger \in Nat /\ U32Max \in Nat
  BY <1>1 DEF TypeOK, FrameType, LimitsType, ConstantsAssumption
<1>8. e \in EntryType /\ e.n \in Nat /\ e.liveUntil \in Nat
  BY <1>1 DEF TypeOK, FrameType, EntryType
<1>9. /\ c \in Address
      /\ Len(frame.results) = k
      /\ e.n = start + frame.granted
      /\ frame.granted <= k
      /\ frame.granted = 0 => e = counts[c][CurrentWindow]
      /\ frame.granted > 0 => /\ e.n <= limits.max_calls
                              /\ ledger + limits.window_size <= e.liveUntil
      /\ ~allowed => frame.granted = 0
      /\ allowed => frame.granted = k \/ e.n >= limits.max_calls
  BY <1>1 DEF BudgetInv, FrameInv
<1>10. start \in Nat
  <2>1. counts[c][CurrentWindow] \in EntryType
    BY <1>1, <1>9, CurrentWindowBounds DEF TypeOK
  <2> QED
    BY <2>1 DEF EntryType
<1>11. /\ Charge(e).n = e.n + 1 /\ Charge(e).liveUntil \in Nat
       /\ ledger + limits.window_size <= Charge(e).liveUntil
  BY <1>1, <1>7, <1>8, ChargeFacts DEF EntryType
<1>12. passed => allowed /\ e.n + 1 <= limits.max_calls
  <2>1. passed => e.n + 1 <= limits.max_calls
    BY <1>1, <1>8, <1>9, WithinBudgetFacts
  <2>2. ~allowed => ~passed
    BY DEF Verdict, WithinBudget
  <2> QED
    BY <2>1, <2>2
<1>13. allowed /\ ~passed => e.n + 1 > limits.max_calls
  <2>1. Judge(item) \in {"True", "False", "Trap", "ProofExpired"}
    BY DEF Judge
  <2>2. passed <=> v \notin {"CallerNotAllowed", "RateLimitExceeded"}
    BY DEF WithinBudget
  <2>3. allowed /\ ~(e.n + 1 > limits.max_calls) => v \in {"Trap", Judge(item)}
    BY DEF Verdict
  <2> QED
    BY <1>1, <2>1, <2>2, <2>3
<1>14. Len(frame'.items) = k + 1 /\ Len(frame'.results) = k + 1
  BY <1>6, <1>7, <1>9
<1> HIDE DEF e, v, passed, k, start, allowed, c
<1>15. FrameInv'
  <2>1. /\ frame'.entry.n = start + frame'.granted
        /\ frame'.granted <= k + 1
        /\ frame'.granted = 0 => frame'.entry = counts[c][CurrentWindow]
        /\ frame'.granted > 0 => /\ frame'.entry.n <= limits.max_calls
                                 /\ ledger + limits.window_size <= frame'.entry.liveUntil
        /\ ~allowed => frame'.granted = 0
        /\ allowed => frame'.granted = k + 1 \/ frame'.entry.n >= limits.max_calls
    <3>1. CASE passed
      <4>1. frame'.entry = Charge(e) /\ frame'.granted = frame.granted + 1
        BY <1>6, <3>1
      <4>2. allowed /\ e.n < limits.max_calls
        BY <1>7, <1>8, <1>12, <3>1
      <4>3. frame.granted = k
        BY <1>7, <1>8, <1>9, <4>2
      <4>4. frame'.entry.n = start + frame'.granted
        BY <1>7, <1>8, <1>9, <1>10, <1>11, <4>1
      <4>5. frame'.entry.n <= limits.max_calls
        BY <1>11, <1>12, <3>1, <4>1
      <4> QED
        BY <1>7, <1>11, <4>1, <4>2, <4>3, <4>4, <4>5
    <3>2. CASE ~passed
      BY <1>6, <1>7, <1>8, <1>9, <1>10, <1>13, <3>2
    <3> QED
      BY <3>1, <3>2
  <2> QED
    BY <2>1, <1>4, <1>5, <1>6, <1>9, <1>14 DEF FrameInv, c, start, allowed
<1>16. BatchByPosition'
  <2>2. \A i \in 1..k : /\ frame'.items[i] = frame.items[i]
                        /\ frame'.results[i] = frame.results[i]
    BY <1>6, <1>7, <1>9 DEF k
  <2>3. frame'.items[k + 1] = item /\ frame'.results[k + 1] = (v = "True")
    BY <1>6, <1>7, <1>9 DEF k
  <2>4. \A i \in 1..k : frame.results[i] <=> /\ allowed
                                             /\ start + i <= limits.max_calls
                                             /\ Judge(frame.items[i]) = "True"
    BY <1>1 DEF BudgetInv, BatchByPosition, k, allowed, start, c
  <2>5. v = "True" <=> /\ allowed
                       /\ start + (k + 1) <= limits.max_calls
                       /\ Judge(item) = "True"
    <3>1. CASE ~allowed
      BY <1>12, <3>1 DEF WithinBudget, passed
    <3>2. CASE allowed /\ passed
      <4>1. frame.granted = k
        BY <1>7, <1>8, <1>9, <1>12, <3>2
      <4>2. v = Judge(item)
        BY <1>1, <1>7, <1>8, <1>12, <3>2 DEF v, Verdict, allowed
      <4> QED
        BY <1>7, <1>8, <1>9, <1>10, <1>12, <3>2, <4>1, <4>2
    <3>3. CASE allowed /\ ~passed
      <4>1. v # "True"
        BY <3>3 DEF passed, WithinBudget
      <4>2. start + (k + 1) > limits.max_calls
        BY <1>7, <1>8, <1>9, <1>10, <1>13, <3>3
      <4> QED
        BY <1>7, <1>10, <4>1, <4>2
    <3> QED
      BY <3>1, <3>2, <3>3
  <2>6. ASSUME NEW i \in 1..(k + 1)
        PROVE  frame'.results[i] <=> /\ allowed
                                     /\ start + i <= limits.max_calls
                                     /\ Judge(frame.items[i])' = "True"
    <3>1. CASE i \in 1..k
      <4>1. frame.results[i] <=> /\ allowed
                                 /\ start + i <= limits.max_calls
                                 /\ Judge(frame.items[i]) = "True"
        BY <2>4, <3>1
      <4>2. frame'.results[i] = frame.results[i] /\ frame'.items[i] = frame.items[i]
        BY <2>2, <3>1
      <4>3. Judge(frame.items[i])' = Judge(frame.items[i])
        BY <1>4, <4>2 DEF Judge
      <4> QED
        BY <4>1, <4>2, <4>3, Zenon
    <3>2. CASE i = k + 1
      <4>1. Judge(frame.items[i])' = Judge(item)
        BY <1>4, <2>3, <3>2 DEF Judge
      <4> QED
        BY <2>3, <2>5, <3>2, <4>1, Zenon
    <3> QED
      BY <1>7, <3>1, <3>2
  <2> QED
    BY <1>4, <1>5, <1>6, <1>14, <2>6 DEF BatchByPosition, c, start, allowed
<1> QED
  BY <1>2, <1>3, <1>15, <1>16 DEF BudgetInv

LEMMA BatchTrapBudget ==
  ASSUME ConstantsAssumption, BudgetInv, NEW item \in Item, BatchTrap(item)
  PROVE  BudgetInv'
<1>1. TypeOK'
  BY VerifyCallTypeOK DEF VerifyCall, BudgetInv
<1>2. WindowInv'
  BY WindowInvFrame DEF BatchTrap, BudgetInv, budget
<1>3. Idle'
  BY DEF BatchTrap, Idle, NoFrame
<1> QED
  BY <1>1, <1>2, <1>3 DEF BudgetInv, FrameInv, BatchByPosition

LEMMA EndBatchBudget ==
  ASSUME ConstantsAssumption, BudgetInv, EndBatch
  PROVE  BudgetInv'
<1> DEFINE c == frame.caller
           e == frame.entry
           base == counts[c][CurrentWindow]
<1>1. TypeOK /\ ~Idle
  BY DEF BudgetInv, EndBatch
<1>2. TypeOK'
  BY <1>1, VerifyCallTypeOK DEF VerifyCall
<1>3. Idle'
  BY DEF EndBatch, Idle, NoFrame
<1>4. /\ counts' = [counts EXCEPT ![c][CurrentWindow] = e]
      /\ granted' = [granted EXCEPT ![c] = @ + frame.granted]
      /\ UNCHANGED <<ledger, limits>>
  BY DEF EndBatch
<1>5. CurrentWindow' = CurrentWindow
  BY <1>4 DEF CurrentWindow
<1>6. /\ counts \in [Address -> [Ledger -> EntryType]]
      /\ granted \in [Address -> Nat] /\ frame.granted \in Nat
      /\ CurrentWindow \in Ledger /\ CurrentWindow \in Nat
      /\ ledger \in Nat /\ CurrentWindow <= ledger
      /\ limits.window_size \in Nat /\ limits.max_calls \in Nat
  BY <1>1, CurrentWindowBounds DEF TypeOK, FrameType, LimitsType, ConstantsAssumption
<1>7. e \in EntryType /\ e.n \in Nat /\ e.liveUntil \in Nat
  BY <1>1 DEF TypeOK, FrameType, EntryType
<1>8. /\ c \in Address
      /\ e.n = base.n + frame.granted
      /\ frame.granted = 0 => e = base
      /\ frame.granted > 0 => /\ e.n <= limits.max_calls
                              /\ ledger + limits.window_size <= e.liveUntil
  BY <1>1 DEF BudgetInv, FrameInv
<1>9. base \in EntryType /\ base.n \in Nat
  BY <1>6, <1>8 DEF EntryType
<1>10. counts'[c][CurrentWindow] = e
       /\ \A d \in Address : d # c => counts'[d] = counts[d]
  BY <1>4, <1>6, <1>7, <1>8, CounterUpdate
<1>11. /\ granted'[c] = granted[c] + frame.granted /\ granted[c] \in Nat
       /\ \A d \in Address : d # c => granted'[d] = granted[d]
  BY <1>4, <1>6, <1>8
<1>12. granted[c] > 0 => /\ granted[c] <= base.n
                         /\ granted[c] <= limits.max_calls
                         /\ CurrentWindow + limits.window_size <= base.liveUntil + 1
  BY <1>8 DEF BudgetInv, WindowInv
<1> HIDE DEF c, e, base
<1>13. ASSUME NEW d \in Address, granted'[d] > 0
       PROVE  LET f == counts'[d][CurrentWindow']
              IN  /\ granted'[d] <= f.n
                  /\ granted'[d] <= limits'.max_calls
                  /\ CurrentWindow' + limits'.window_size <= f.liveUntil + 1
  <2>1. CASE d = c /\ frame.granted = 0
    BY <1>4, <1>5, <1>8, <1>10, <1>11, <1>12, <1>13, <2>1
  <2>2. CASE d = c /\ frame.granted > 0
    <3>1. granted[c] <= base.n
      BY <1>9, <1>11, <1>12
    <3>2. granted'[d] <= e.n
      BY <1>6, <1>8, <1>9, <1>11, <2>2, <3>1
    <3>3. e.n <= limits.max_calls /\ ledger + limits.window_size <= e.liveUntil
      BY <1>8, <2>2
    <3>4. granted'[d] \in Nat
      BY <1>6, <1>11, <2>2
    <3>5. granted'[d] <= limits.max_calls
      BY <1>6, <1>7, <3>2, <3>3, <3>4
    <3>6. CurrentWindow + limits.window_size <= e.liveUntil + 1
      BY <1>6, <1>7, <3>3
    <3> QED
      BY <1>4, <1>5, <1>10, <2>2, <3>2, <3>5, <3>6
  <2>3. CASE d # c
    BY <1>4, <1>5, <1>10, <1>11, <1>13, <2>3 DEF BudgetInv, WindowInv
  <2> QED
    BY <1>6, <2>1, <2>2, <2>3
<1>14. WindowInv'
  BY <1>13 DEF WindowInv
<1> QED
  BY <1>2, <1>3, <1>14 DEF BudgetInv, FrameInv, BatchByPosition

\* The host evicts no counter of the window it is still in: this is where the
\* life extension of verify_one is needed.
LEMMA CloseLedgerBudget ==
  ASSUME ConstantsAssumption, BudgetInv, CloseLedger
  PROVE  BudgetInv'
<1>1. TypeOK
  BY DEF BudgetInv
<1>2. TypeOK'
  BY <1>1, CloseLedgerTypeOK
<1>3. Idle'
  BY DEF CloseLedger, Idle
<1>4. CurrentWindow' = WindowStart(ledger + 1, limits.window_size)
  BY DEF CloseLedger, CurrentWindow
<1>5. WindowInv'
  <2>1. CASE CurrentWindow' # CurrentWindow
    BY <1>4, <2>1 DEF CloseLedger, WindowInv
  <2>2. CASE CurrentWindow' = CurrentWindow
    <3>1. /\ granted' = granted /\ limits' = limits /\ ledger' = ledger + 1
          /\ counts' = Evict(ledger + 1)
      BY <1>4, <2>2 DEF CloseLedger
    <3>2. /\ CurrentWindow \in Ledger /\ CurrentWindow \in Int
          /\ ledger + 1 < CurrentWindow + limits.window_size
          /\ limits.window_size \in Nat /\ ledger \in Nat
      <4>1. ledger + 1 < WindowStart(ledger + 1, limits.window_size) + limits.window_size
        <5>1. ledger + 1 \in Nat /\ limits.window_size \in Nat \ {0}
          BY <1>1 DEF TypeOK, LimitsType, ConstantsAssumption
        <5> QED
          BY <5>1, WindowBounds
      <4>2. /\ CurrentWindow \in Ledger /\ CurrentWindow \in Int
            /\ limits.window_size \in Nat /\ ledger \in Nat
        BY <1>1, CurrentWindowBounds DEF TypeOK, LimitsType, ConstantsAssumption
      <4> QED
        BY <1>4, <2>2, <4>1, <4>2
    <3>3. ASSUME NEW c \in Address, granted[c] > 0
          PROVE  counts'[c][CurrentWindow] = counts[c][CurrentWindow]
      <4>1. counts[c][CurrentWindow].liveUntil \in Nat
        <5>1. counts[c][CurrentWindow] \in EntryType
          BY <1>1, <3>2 DEF TypeOK
        <5> QED
          BY <5>1 DEF EntryType
      <4>2. CurrentWindow + limits.window_size <= counts[c][CurrentWindow].liveUntil + 1
        BY <3>3 DEF BudgetInv, WindowInv
      <4>3. ~(counts[c][CurrentWindow].liveUntil < ledger + 1)
        BY <3>2, <4>1, <4>2
      <4> QED
        BY <3>1, <3>2, <4>3 DEF Evict
    <3> QED
      BY <2>2, <3>1, <3>3 DEF BudgetInv, WindowInv
  <2> QED
    BY <2>1, <2>2
<1> QED
  BY <1>2, <1>3, <1>5 DEF BudgetInv, FrameInv, BatchByPosition

LEMMA StutterBudget == ASSUME BudgetInv, UNCHANGED vars PROVE BudgetInv'
<1>1. TypeOK'
  BY DEF BudgetInv, vars, config, budget, TypeOK
<1>2. WindowInv'
  BY WindowInvFrame DEF BudgetInv, vars, budget
<1>3. FrameInv'
  BY DEF BudgetInv, vars, config, budget, FrameInv, Idle, CurrentWindow
<1>4. BatchByPosition'
  BY DEF BudgetInv, vars, config, budget, BatchByPosition, Idle, CurrentWindow, Judge
<1> QED
  BY <1>1, <1>2, <1>3, <1>4 DEF BudgetInv

LEMMA InitBudget == ASSUME ConstantsAssumption, Init PROVE BudgetInv
<1>1. Idle
  BY DEF Init, Idle
<1>2. WindowInv
  BY DEF Init, WindowInv
<1> QED
  BY <1>1, <1>2, InitTypeOK DEF BudgetInv, FrameInv, BatchByPosition

LEMMA BudgetInvariant == Spec => []BudgetInv
<1>1. Init => BudgetInv
  BY InitBudget, ConstantsAssumption
<1>2. BudgetInv /\ [Next]_vars => BudgetInv'
  BY AdminCallBudget, VerifyProofBudget, BeginBatchBudget, BatchEntryBudget,
     BatchTrapBudget, EndBatchBudget, CloseLedgerBudget, StutterBudget,
     ConstantsAssumption DEF Next, VerifyCall
<1> QED
  BY <1>1, <1>2, PTL DEF Spec

\* No caller is ever charged more than max_calls calls in one window while the
\* limits stand, in single calls and batches, across evictions.
THEOREM RateLimitHolds == Spec => []RateLimit
<1>1. BudgetInv => RateLimit
  <2> SUFFICES ASSUME BudgetInv, NEW c \in Address
               PROVE  granted[c] <= limits.max_calls
    BY DEF RateLimit
  <2>1. granted[c] \in Nat /\ limits.max_calls \in Nat
    BY ConstantsAssumption DEF BudgetInv, TypeOK, LimitsType, ConstantsAssumption
  <2>2. granted[c] > 0 => granted[c] <= limits.max_calls
    BY DEF BudgetInv, WindowInv
  <2> QED
    BY <2>1, <2>2
<1> QED
  BY <1>1, BudgetInvariant, PTL

\* What an entry of a batch returns depends on its position and its own merit,
\* not on the outcomes ahead of it.
THEOREM BatchByPositionHolds == Spec => []BatchByPosition
<1>1. BudgetInv => BatchByPosition
  BY DEF BudgetInv
<1> QED
  BY <1>1, BudgetInvariant, PTL

=============================================================================
