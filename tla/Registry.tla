------------------------------ MODULE Registry ------------------------------
(***************************************************************************)
(* The registry contract (contracts/registry/src/lib.rs): verifying keys   *)
(* by circuit id, registered by a two-step admin, and proofs checked       *)
(* against them by anyone.  As in Verifier, an invocation is atomic:       *)
(* verify_batch runs one entry a step inside `frame`, and a call that      *)
(* panics is rolled back.                                                  *)
(***************************************************************************)
EXTENDS Integers, Sequences

CONSTANTS Address,    \* admins and signers
          NoAddr,     \* an absent address
          CircuitId,  \* ids circuits are registered and looked up under
          Circuit,    \* circuits a key or a proof can belong to
          Vk,         \* verifying keys tried
          NoVk,       \* an id nothing is registered under
          Item,       \* batch entries tried
          Wasm,       \* uploaded contract executables
          MaxBatch    \* bound: entries in a batch

\* points: do the proof bytes have the lengths of curve points, and are they
\* points; inputs: the number of public inputs; proves: the circuit whose
\* pairing equation the proof satisfies.
ItemType == [id: CircuitId, points: {"valid", "badLength", "offCurve"},
             inputs: Nat, proves: Circuit]

VkType == [icLen: Nat, onCurve: BOOLEAN, circuit: Circuit]

ASSUME ConstantsAssumption ==
  /\ NoAddr \notin Address
  /\ Vk \subseteq VkType /\ NoVk \notin Vk
  /\ Item \subseteq ItemType
  /\ MaxBatch \in Nat

VARIABLES admin,      \* DataKey::Admin
          pending,    \* DataKey::PendingAdmin, or NoAddr
          circuits,   \* DataKey::Circuit, by id
          wasm,       \* the installed executable
          frame,      \* the verify_batch invocation in progress
          receipt,    \* what the last verify call handed its caller
          nominator   \* history: who authorised the proposal of `pending`

vars == <<admin, pending, circuits, wasm, frame, receipt, nominator>>

NoFrame == [active |-> FALSE, items |-> <<>>, results |-> <<>>]

\* `events` holds the success flag of each verification_result event of the
\* call, which are also the flags it returns.
NoReceipt == [op |-> "none", outcome |-> "none", events |-> <<>>]

Idle == ~frame.active

-----------------------------------------------------------------------------
\* Mutant: run_verification without its check of the number of inputs.
VerdictAnyCount(item) ==
  LET key == circuits[item.id]
  IN  IF key = NoVk THEN "False"
      ELSE IF item.points # "valid" \/ ~key.onCurve \/ key.icLen = 0 THEN "Trap"
      ELSE IF item.proves = key.circuit THEN "True" ELSE "False"

(* run_verification: true, false, or a panic.                              *)
Verdict(item) ==
  LET key == circuits[item.id]
  IN  IF key = NoVk THEN "False"
      ELSE IF item.inputs + 1 # key.icLen THEN "False"
      ELSE IF item.points # "valid" \/ ~key.onCurve \/ key.icLen = 0 THEN "Trap"
      ELSE IF item.proves = key.circuit THEN "True" ELSE "False"

-----------------------------------------------------------------------------
Init ==
  /\ admin \in Address
  /\ pending = NoAddr /\ nominator = NoAddr
  /\ circuits = [i \in CircuitId |-> NoVk]
  /\ wasm \in Wasm
  /\ frame = NoFrame /\ receipt = NoReceipt

(* The administrative calls.  `s` is the address whose authorisation the   *)
(* invocation carries.                                                     *)

\* Mutant: propose_admin without the admin's authorisation.
ProposeAdminUnauthorised(s, new) ==
  /\ Idle
  /\ pending' = new
  /\ nominator' = s
  /\ receipt' = NoReceipt
  /\ UNCHANGED <<admin, circuits, wasm, frame>>

ProposeAdmin(s, new) ==
  /\ Idle
  /\ s = admin
  /\ pending' = new
  /\ nominator' = s
  /\ receipt' = NoReceipt
  /\ UNCHANGED <<admin, circuits, wasm, frame>>

\* Mutant: accept_admin without its check for a proposal.
AcceptAdminUnchecked(s) ==
  /\ Idle
  /\ admin' = pending
  /\ pending' = NoAddr
  /\ nominator' = NoAddr
  /\ receipt' = NoReceipt
  /\ UNCHANGED <<circuits, wasm, frame>>

AcceptAdmin(s) ==
  /\ Idle
  /\ pending # NoAddr
  /\ s = pending
  /\ admin' = pending
  /\ pending' = NoAddr
  /\ nominator' = NoAddr
  /\ receipt' = NoReceipt
  /\ UNCHANGED <<circuits, wasm, frame>>

Upgrade(s, hash) ==
  /\ Idle
  /\ s = admin
  /\ wasm' = hash
  /\ receipt' = NoReceipt
  /\ UNCHANGED <<admin, pending, circuits, frame, nominator>>

\* Registering under a used id replaces its key.
RegisterCircuit(s, id, key) ==
  /\ Idle
  /\ s = admin
  /\ circuits' = [circuits EXCEPT ![id] = key]
  /\ receipt' = NoReceipt
  /\ UNCHANGED <<admin, pending, wasm, frame, nominator>>

(* verify_proof, open to anyone: an event unless it panics.                *)
VerifyProof(item) ==
  LET v == Verdict(item)
  IN  /\ Idle
      /\ receipt' = IF v = "Trap"
                    THEN [op |-> "verify_proof", outcome |-> "Trap", events |-> <<>>]
                    ELSE [op |-> "verify_proof", outcome |-> "Ok",
                          events |-> <<v = "True">>]
      /\ UNCHANGED <<admin, pending, circuits, wasm, frame, nominator>>

(* verify_batch, one entry a step.                                         *)
BeginBatch ==
  /\ Idle
  /\ frame' = [active |-> TRUE, items |-> <<>>, results |-> <<>>]
  /\ receipt' = NoReceipt
  /\ UNCHANGED <<admin, pending, circuits, wasm, nominator>>

BatchEntry(item) ==
  /\ ~Idle
  /\ Len(frame.items) < MaxBatch
  /\ Verdict(item) # "Trap"
  /\ frame' = [active  |-> TRUE,
               items   |-> Append(frame.items, item),
               results |-> Append(frame.results, Verdict(item) = "True")]
  /\ UNCHANGED <<admin, pending, circuits, wasm, receipt, nominator>>

\* A panic in any entry ends the invocation with no result and no event.
BatchTrap(item) ==
  /\ ~Idle
  /\ Len(frame.items) < MaxBatch
  /\ Verdict(item) = "Trap"
  /\ frame' = NoFrame
  /\ receipt' = [op |-> "verify_batch", outcome |-> "Trap", events |-> <<>>]
  /\ UNCHANGED <<admin, pending, circuits, wasm, nominator>>

EndBatch ==
  /\ ~Idle
  /\ frame' = NoFrame
  /\ receipt' = [op |-> "verify_batch", outcome |-> "Ok", events |-> frame.results]
  /\ UNCHANGED <<admin, pending, circuits, wasm, nominator>>

AdminCall(s) ==
  \/ \E a \in Address : ProposeAdmin(s, a)
  \/ AcceptAdmin(s)
  \/ \E h \in Wasm : Upgrade(s, h)
  \/ \E i \in CircuitId, k \in Vk : RegisterCircuit(s, i, k)

VerifyCall ==
  \/ \E item \in Item : VerifyProof(item)
  \/ BeginBatch
  \/ \E item \in Item : BatchEntry(item)
  \/ \E item \in Item : BatchTrap(item)
  \/ EndBatch

Next == (\E s \in Address : AdminCall(s)) \/ VerifyCall

Spec == Init /\ [][Next]_vars

-----------------------------------------------------------------------------
(* Properties.                                                             *)

\* Every variable holds what its storage entry can hold.
TypeOK ==
  /\ admin \in Address /\ wasm \in Wasm
  /\ pending \in Address \cup {NoAddr} /\ nominator \in Address \cup {NoAddr}
  /\ circuits \in [CircuitId -> Vk \cup {NoVk}]
  /\ frame \in [active: BOOLEAN, items: Seq(Item), results: Seq(BOOLEAN)]
  /\ receipt \in [op: {"none", "verify_proof", "verify_batch"},
                  outcome: {"none", "Ok", "Trap"}, events: Seq(BOOLEAN)]

\* run_verification panics only on a proof or a key off the curve or a proof of
\* a wrong length that is checked against a registered key of the right size:
\* a key registered with no ic point at all, which nothing rejects, never
\* reaches the unwrap of its first point.
PanicCauses ==
  \A item \in Item : Verdict(item) = "Trap" =>
    /\ circuits[item.id] # NoVk
    /\ circuits[item.id].icLen > 0
    /\ item.points # "valid" \/ ~circuits[item.id].onCurve

-----------------------------------------------------------------------------
\* The admin entries implement the two-step handoff.
Handoff == INSTANCE AdminHandoff WITH nominee <- pending

\* The admin changes only as AdminHandoff says, whatever other calls do.
HandoffSpec == Handoff!Spec

=============================================================================
