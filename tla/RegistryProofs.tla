--------------------------- MODULE RegistryProofs ---------------------------
(***************************************************************************)
(* Theorems about Registry for every set of addresses, circuit ids, keys   *)
(* and proofs, and their proofs.                                           *)
(***************************************************************************)
EXTENDS Registry, TLAPS

ReceiptType == [op: {"none", "verify_proof", "verify_batch"},
                outcome: {"none", "Ok", "Trap"}, events: Seq(BOOLEAN)]

LEMMA NoReceiptType == NoReceipt \in ReceiptType
  BY DEF NoReceipt, ReceiptType

LEMMA InitTypeOK == ASSUME Init PROVE TypeOK
<1>1. frame \in [active: BOOLEAN, items: Seq(Item), results: Seq(BOOLEAN)]
  BY DEF Init, NoFrame
<1> QED
  BY <1>1, NoReceiptType DEF Init, TypeOK, ReceiptType

LEMMA AdminCallTypeOK ==
  ASSUME TypeOK, NEW s \in Address, AdminCall(s)
  PROVE  TypeOK'
<1>1. ASSUME NEW a \in Address, ProposeAdmin(s, a)
      PROVE  TypeOK'
  BY <1>1, NoReceiptType DEF ProposeAdmin, TypeOK, ReceiptType
<1>2. ASSUME AcceptAdmin(s)
      PROVE  TypeOK'
  BY <1>2, NoReceiptType DEF AcceptAdmin, TypeOK, ReceiptType
<1>3. ASSUME NEW h \in Wasm, Upgrade(s, h)
      PROVE  TypeOK'
  BY <1>3, NoReceiptType DEF Upgrade, TypeOK, ReceiptType
<1>4. ASSUME NEW i \in CircuitId, NEW k \in Vk, RegisterCircuit(s, i, k)
      PROVE  TypeOK'
  BY <1>4, NoReceiptType DEF RegisterCircuit, TypeOK, ReceiptType
<1> QED
  BY <1>1, <1>2, <1>3, <1>4 DEF AdminCall

LEMMA VerifyCallTypeOK ==
  ASSUME TypeOK, VerifyCall
  PROVE  TypeOK'
<1>1. ASSUME NEW item \in Item, VerifyProof(item)
      PROVE  TypeOK'
  <2>1. receipt' \in ReceiptType
    BY <1>1 DEF VerifyProof, ReceiptType
  <2> QED
    BY <1>1, <2>1 DEF VerifyProof, TypeOK, ReceiptType
<1>2. ASSUME BeginBatch
      PROVE  TypeOK'
  <2>1. frame' \in [active: BOOLEAN, items: Seq(Item), results: Seq(BOOLEAN)]
    BY <1>2 DEF BeginBatch
  <2> QED
    BY <1>2, <2>1, NoReceiptType DEF BeginBatch, TypeOK, ReceiptType
<1>3. ASSUME NEW item \in Item, BatchEntry(item)
      PROVE  TypeOK'
  <2>1. /\ Append(frame.items, item) \in Seq(Item)
        /\ Append(frame.results, Verdict(item) = "True") \in Seq(BOOLEAN)
    BY DEF TypeOK
  <2>2. frame' \in [active: BOOLEAN, items: Seq(Item), results: Seq(BOOLEAN)]
    BY <1>3, <2>1 DEF BatchEntry
  <2> QED
    BY <1>3, <2>2 DEF BatchEntry, TypeOK
<1>4. ASSUME NEW item \in Item, BatchTrap(item)
      PROVE  TypeOK'
  <2>1. /\ frame' \in [active: BOOLEAN, items: Seq(Item), results: Seq(BOOLEAN)]
        /\ receipt' \in ReceiptType
    BY <1>4 DEF BatchTrap, NoFrame, ReceiptType
  <2> QED
    BY <1>4, <2>1 DEF BatchTrap, TypeOK, ReceiptType
<1>5. ASSUME EndBatch
      PROVE  TypeOK'
  <2>1. /\ frame' \in [active: BOOLEAN, items: Seq(Item), results: Seq(BOOLEAN)]
        /\ receipt' \in ReceiptType
    BY <1>5 DEF EndBatch, NoFrame, TypeOK, ReceiptType
  <2> QED
    BY <1>5, <2>1 DEF EndBatch, TypeOK, ReceiptType
<1> QED
  BY <1>1, <1>2, <1>3, <1>4, <1>5 DEF VerifyCall

LEMMA NextTypeOK == ASSUME TypeOK, [Next]_vars PROVE TypeOK'
<1>1. CASE UNCHANGED vars
  BY <1>1 DEF vars, TypeOK
<1> QED
  BY <1>1, AdminCallTypeOK, VerifyCallTypeOK DEF Next

\* Every reachable state is well typed: in particular the admin is always an
\* address, however often accept_admin is called.
THEOREM TypeCorrect == Spec => []TypeOK
<1>1. Init => TypeOK
  BY InitTypeOK
<1>2. TypeOK /\ [Next]_vars => TypeOK'
  BY NextTypeOK
<1> QED
  BY <1>1, <1>2, PTL DEF Spec

\* run_verification panics on nothing but a proof or a key off the curve or a
\* proof of a wrong length: whatever keys the admin registers, the unwraps of the
\* key's ic points never panic.
THEOREM PanicCausesHold == Spec => []PanicCauses
<1>1. TypeOK => PanicCauses
  <2> SUFFICES ASSUME TypeOK, NEW item \in Item, Verdict(item) = "Trap"
               PROVE  /\ circuits[item.id] # NoVk
                      /\ circuits[item.id].icLen > 0
                      /\ item.points # "valid" \/ ~circuits[item.id].onCurve
    BY DEF PanicCauses
  <2>1. item.id \in CircuitId /\ item.inputs \in Nat
    BY ConstantsAssumption DEF ConstantsAssumption, ItemType
  <2>2. circuits[item.id] # NoVk /\ item.inputs + 1 = circuits[item.id].icLen
    BY DEF Verdict
  <2>3. circuits[item.id].icLen > 0
    BY <2>1, <2>2
  <2> QED
    BY <2>2, <2>3 DEF Verdict
<1> QED
  BY <1>1, TypeCorrect, PTL

-----------------------------------------------------------------------------
(* Administration.                                                         *)

\* A stored proposal is one of the admin in office.
PendingInv == IF pending = NoAddr THEN nominator = NoAddr ELSE nominator = admin

\* Only propose_admin and accept_admin touch the admin entries.
LEMMA AdminStep ==
  ASSUME [Next]_vars
  PROVE  \/ UNCHANGED <<admin, pending, nominator>>
         \/ \E s \in Address : \/ \E a \in Address : ProposeAdmin(s, a)
                              \/ AcceptAdmin(s)
<1>1. ASSUME NEW s \in Address, AdminCall(s)
      PROVE  \/ UNCHANGED <<admin, pending, nominator>>
             \/ \E a \in Address : ProposeAdmin(s, a)
             \/ AcceptAdmin(s)
  BY <1>1 DEF AdminCall, Upgrade, RegisterCircuit
<1>2. ASSUME VerifyCall \/ UNCHANGED vars
      PROVE  UNCHANGED <<admin, pending, nominator>>
  BY <1>2 DEF VerifyCall, VerifyProof, BeginBatch, BatchEntry, BatchTrap, EndBatch, vars
<1> QED
  BY <1>1, <1>2 DEF Next

LEMMA NextPending ==
  ASSUME ConstantsAssumption, PendingInv, [Next]_vars
  PROVE  PendingInv'
<1>1. ASSUME NEW s \in Address, NEW a \in Address, ProposeAdmin(s, a)
      PROVE  PendingInv'
  BY <1>1 DEF ProposeAdmin, PendingInv, ConstantsAssumption
<1>2. ASSUME NEW s \in Address, AcceptAdmin(s)
      PROVE  PendingInv'
  BY <1>2 DEF AcceptAdmin, PendingInv
<1>3. ASSUME UNCHANGED <<admin, pending, nominator>>
      PROVE  PendingInv'
  BY <1>3 DEF PendingInv
<1> QED
  BY <1>1, <1>2, <1>3, AdminStep

\* The two-step handoff is implemented: whatever calls are made, the admin
\* changes only to the address the admin in office proposed last.
THEOREM HandoffImplemented == Spec => HandoffSpec
<1>1. Init => Handoff!Init /\ PendingInv
  BY DEF Init, Handoff!Init, PendingInv
<1>2. PendingInv /\ [Next]_vars => [Handoff!Next]_(Handoff!vars)
  <2> SUFFICES ASSUME PendingInv, [Next]_vars
               PROVE  [Handoff!Next]_(Handoff!vars)
    OBVIOUS
  <2>1. ASSUME NEW s \in Address, NEW a \in Address, ProposeAdmin(s, a)
        PROVE  Handoff!Nominate
    BY <2>1 DEF ProposeAdmin, Handoff!Nominate
  <2>2. ASSUME NEW s \in Address, AcceptAdmin(s)
        PROVE  Handoff!TakeOver
    BY <2>2 DEF AcceptAdmin, Handoff!TakeOver, PendingInv
  <2> QED
    BY <2>1, <2>2, AdminStep DEF Handoff!Next, Handoff!vars
<1>3. PendingInv /\ [Next]_vars => PendingInv'
  BY NextPending, ConstantsAssumption
<1> QED
  BY <1>1, <1>2, <1>3, PTL DEF Spec, HandoffSpec, Handoff!Spec

=============================================================================
