------------------------------ MODULE Verifier ------------------------------
(***************************************************************************)
(* The verifier contract (contracts/verifier/src/lib.rs): a Groth16        *)
(* verifier with a per-caller, per-window call budget kept in temporary    *)
(* storage, an optional allowlist, proof expiry and a two-step admin.      *)
(*                                                                         *)
(* Every exported function that changes state is an action.  A contract    *)
(* invocation is atomic in the ledger: verify_batch is the one function    *)
(* that loops, and here it runs one entry a step inside `frame`, with      *)
(* every other action waiting for it to end; its writes reach the storage  *)
(* when it returns Ok and are dropped when it traps.  A call that returns  *)
(* Err or fails an authorisation is rolled back by the host and changes    *)
(* nothing, so only verify_proof and verify_batch, whose failures a        *)
(* property speaks of, record it.                                          *)
(***************************************************************************)
EXTENDS Integers, Sequences

CONSTANTS Address,     \* callers, admins and allowlisted addresses
          NoAddr,      \* an absent address
          MaxCallsArg, \* max_calls arguments tried
          WindowArg,   \* window_size arguments tried
          CallerArg,   \* callers tried
          NomineeArg,  \* new_admin arguments tried
          ListedArg,   \* addresses the allowlist is edited with
          Vk,          \* verifying keys tried
          Item,        \* proofs tried
          Circuit,     \* circuits a key or a proof can belong to
          Wasm,        \* uploaded contract executables
          U32Max,      \* the largest u32 (2^32 - 1 in the program)
          MinTtl,      \* ledgers a new temporary entry outlives its creation
          MaxTtl,      \* the longest extension the network grants one
          MaxLedger,   \* bound: the last ledger explored
          MaxBatch     \* bound: entries in a batch

-----------------------------------------------------------------------------
(* Data.  An encoding is kept to what the contract tells apart.            *)

ExpectedPublicInputCount == 2

\* A second public input with a non-zero byte above the low 32 bits.
NotU32 == -1

\* points: do proof_a, proof_b and proof_c have the lengths of curve points,
\* and are they points; inputs: the number of public inputs; expiry: the second
\* input; proves: the circuit whose pairing equation the proof satisfies.
ItemType == [points: {"valid", "badLength", "offCurve"}, inputs: Nat,
             expiry: Nat \cup {NotU32}, proves: Circuit]

VkType == [icLen: Nat, onCurve: BOOLEAN, circuit: Circuit]

\* A CallCount entry: its value and the last ledger it is live in.  A stored
\* count is at least 1, and an absent entry reads as 0.
EntryType == [n: Nat, liveUntil: Nat]

NoEntry == [n |-> 0, liveUntil |-> 0]

LimitsType == [max_calls: 0..U32Max, window_size: Nat \ {0}]

Ledger == 0..MaxLedger

ASSUME ConstantsAssumption ==
  /\ NoAddr \notin Address
  /\ CallerArg \cup NomineeArg \cup ListedArg \subseteq Address
  /\ U32Max \in Nat /\ MinTtl \in Nat /\ MaxTtl \in Nat
  /\ MaxLedger \in Nat /\ MaxBatch \in Nat
  /\ MaxCallsArg \subseteq 0..U32Max
  /\ WindowArg \subseteq Nat
  /\ Vk \subseteq VkType
  /\ Item \subseteq ItemType

-----------------------------------------------------------------------------
VARIABLES ledger,           \* the current ledger sequence number
          admin,            \* DataKey::Admin
          pending,          \* DataKey::PendingAdmin, or NoAddr
          limits,           \* DataKey::Limits
          vk,               \* DataKey::Vk
          allowlistEnabled, \* DataKey::AllowlistEnabled
          allowlist,        \* the addresses with a DataKey::Allowlist entry
          counts,           \* DataKey::CallCount, by caller and window start
          wasm,             \* the installed executable
          frame,            \* the verify_batch invocation in progress
          receipt,          \* what the last verify call handed its caller
          nominator,        \* history: who authorised the proposal of `pending`
          since,            \* history: the ledger limits were last set in
          granted           \* history: calls charged since max(`since`,
                            \* start of the current window), by caller

config == <<admin, pending, nominator, vk, allowlistEnabled, allowlist, wasm>>
budget == <<limits, counts, since, granted>>
vars == <<ledger, config, budget, frame, receipt>>

NoFrame == [caller |-> NoAddr, entry |-> NoEntry, items |-> <<>>,
            results |-> <<>>, granted |-> 0]

FrameType == [caller: Address \cup {NoAddr}, entry: EntryType,
              items: Seq(Item), results: Seq(BOOLEAN), granted: Nat]

\* `events` holds the success flag of each verification_result event of the
\* call; a call that returns Ok returns the same flags to its caller.
NoReceipt == [op |-> "none", outcome |-> "none", events |-> <<>>]

ReceiptType == [op: {"none", "verify_proof", "verify_batch"},
                outcome: {"none", "Ok", "Trap", "CallerNotAllowed",
                          "RateLimitExceeded", "ProofExpired"},
                events: Seq(BOOLEAN)]

Idle == frame = NoFrame

WindowStart(l, w) == l - (l % w)

CurrentWindow == WindowStart(ledger, limits.window_size)

Larger(a, b) == IF a > b THEN a ELSE b

-----------------------------------------------------------------------------
(* verify_one, for a caller whose current CallCount entry is e.            *)

\* Everything verify_one does after the budget was charged.
Judge(item) ==
  IF item.points = "badLength" THEN "Trap"
  ELSE IF item.inputs # ExpectedPublicInputCount THEN "False"
  ELSE IF item.expiry = NotU32 THEN "False"
  ELSE IF ledger > item.expiry THEN "ProofExpired"
  ELSE IF vk.icLen < 2 \/ ~vk.onCurve \/ item.points = "offCurve" THEN "Trap"
  ELSE IF item.proves = vk.circuit THEN "True" ELSE "False"

\* The outcome of verify_one: Ok(true), Ok(false), an Err, or a panic.
Verdict(c, item, e) ==
  IF allowlistEnabled /\ c \notin allowlist THEN "CallerNotAllowed"
  ELSE IF e.n = U32Max THEN "Trap"
  ELSE IF e.n + 1 > limits.max_calls THEN "RateLimitExceeded"
  ELSE IF limits.window_size > MaxTtl THEN "Trap"
  ELSE Judge(item)

\* Mutant: the count goes up but extend_ttl is forgotten.
ChargeWithoutExtension(e) ==
  [n |-> e.n + 1, liveUntil |-> IF e.n = 0 THEN ledger + MinTtl ELSE e.liveUntil]

\* The entry after the count went up and its life was extended.
Charge(e) ==
  LET live == IF e.n = 0 THEN ledger + MinTtl ELSE e.liveUntil
  IN  [n |-> e.n + 1, liveUntil |-> Larger(live, ledger + limits.window_size)]

\* Mutant: the budget is charged after the expiry check.
WithinBudgetUnexpired(verdict) ==
  verdict \notin {"CallerNotAllowed", "RateLimitExceeded", "ProofExpired"}

\* Did the call get past the budget check, and so charge it?
WithinBudget(verdict) == verdict \notin {"CallerNotAllowed", "RateLimitExceeded"}

Allowed(c) == allowlistEnabled => c \in allowlist

\* What the outcome of a call depends on: the window whose counter it charges,
\* that counter, its limit, whether the caller is allowed, the key, and
\* which proofs have expired.
Basis(c, items) ==
  [window  |-> CurrentWindow, used |-> counts[c][CurrentWindow].n, limits |-> limits,
   allowed |-> Allowed(c), key |-> vk,
   expired |-> {i \in DOMAIN items : ledger > items[i].expiry}]

-----------------------------------------------------------------------------
(* __constructor, with any arguments its assertions let through.           *)
Init ==
  /\ ledger \in Ledger
  /\ admin \in Address
  /\ limits \in [max_calls: MaxCallsArg, window_size: WindowArg \ {0}]
  /\ vk \in {k \in Vk : k.icLen = ExpectedPublicInputCount}
  /\ pending = NoAddr /\ nominator = NoAddr
  /\ allowlistEnabled = FALSE /\ allowlist = {}
  /\ counts = [c \in Address |-> [l \in Ledger |-> NoEntry]]
  /\ wasm \in Wasm
  /\ frame = NoFrame /\ receipt = NoReceipt
  /\ since = ledger
  /\ granted = [c \in Address |-> 0]

(* The administrative calls.  `s` is the address whose authorisation the   *)
(* invocation carries.                                                     *)

\* Mutant: set_limits without its check of window_size.
SetLimitsUnchecked(s, m, w) ==
  /\ Idle
  /\ s = admin
  /\ limits' = [max_calls |-> m, window_size |-> w]
  /\ since' = ledger
  /\ granted' = [c \in Address |-> 0]
  /\ receipt' = NoReceipt
  /\ UNCHANGED <<ledger, config, counts, frame>>

SetLimits(s, m, w) ==
  /\ Idle
  /\ w # 0
  /\ s = admin
  /\ limits' = [max_calls |-> m, window_size |-> w]
  /\ since' = ledger
  /\ granted' = [c \in Address |-> 0]
  /\ receipt' = NoReceipt
  /\ UNCHANGED <<ledger, config, counts, frame>>

\* Mutant: update_vk without its check of the number of ic points.
UpdateVkUnchecked(s, k) ==
  /\ Idle
  /\ s = admin
  /\ vk' = k
  /\ receipt' = NoReceipt
  /\ UNCHANGED <<ledger, budget, frame, admin, pending, nominator,
                 allowlistEnabled, allowlist, wasm>>

UpdateVk(s, k) ==
  /\ Idle
  /\ k.icLen = ExpectedPublicInputCount
  /\ s = admin
  /\ vk' = k
  /\ receipt' = NoReceipt
  /\ UNCHANGED <<ledger, budget, frame, admin, pending, nominator,
                 allowlistEnabled, allowlist, wasm>>

SetAllowlistMode(s, enabled) ==
  /\ Idle
  /\ s = admin
  /\ allowlistEnabled' = enabled
  /\ receipt' = NoReceipt
  /\ UNCHANGED <<ledger, budget, frame, admin, pending, nominator,
                 vk, allowlist, wasm>>

AddToAllowlist(s, a) ==
  /\ Idle
  /\ s = admin
  /\ allowlist' = allowlist \cup {a}
  /\ receipt' = NoReceipt
  /\ UNCHANGED <<ledger, budget, frame, admin, pending, nominator,
                 vk, allowlistEnabled, wasm>>

RemoveFromAllowlist(s, a) ==
  /\ Idle
  /\ s = admin
  /\ allowlist' = allowlist \ {a}
  /\ receipt' = NoReceipt
  /\ UNCHANGED <<ledger, budget, frame, admin, pending, nominator,
                 vk, allowlistEnabled, wasm>>

\* Mutant: propose_admin without the admin's authorisation.
ProposeAdminUnauthorised(s, new) ==
  /\ Idle
  /\ pending' = new
  /\ nominator' = s
  /\ receipt' = NoReceipt
  /\ UNCHANGED <<ledger, budget, frame, admin, vk, allowlistEnabled,
                 allowlist, wasm>>

ProposeAdmin(s, new) ==
  /\ Idle
  /\ s = admin
  /\ pending' = new
  /\ nominator' = s
  /\ receipt' = NoReceipt
  /\ UNCHANGED <<ledger, budget, frame, admin, vk, allowlistEnabled,
                 allowlist, wasm>>

\* Mutant: accept_admin forgets to remove the proposal.
AcceptAdminKeepsPending(s) ==
  /\ Idle
  /\ pending # NoAddr
  /\ s = pending
  /\ admin' = pending
  /\ receipt' = NoReceipt
  /\ UNCHANGED <<ledger, budget, frame, pending, nominator, vk,
                 allowlistEnabled, allowlist, wasm>>

AcceptAdmin(s) ==
  /\ Idle
  /\ pending # NoAddr
  /\ s = pending
  /\ admin' = pending
  /\ pending' = NoAddr
  /\ nominator' = NoAddr
  /\ receipt' = NoReceipt
  /\ UNCHANGED <<ledger, budget, frame, vk, allowlistEnabled, allowlist, wasm>>

Upgrade(s, hash) ==
  /\ Idle
  /\ s = admin
  /\ wasm' = hash
  /\ receipt' = NoReceipt
  /\ UNCHANGED <<ledger, budget, frame, admin, pending, nominator, vk,
                 allowlistEnabled, allowlist>>

\* Mutant: an expired proof is reported as a value, which keeps its charge.
VerifyProofKeepsCharge(c, item) ==
  LET e == counts[c][CurrentWindow]
      v == Verdict(c, item, e)
  IN  /\ Idle
      /\ IF v \in {"True", "False", "ProofExpired"}
         THEN counts' = [counts EXCEPT ![c][CurrentWindow] = Charge(e)]
         ELSE UNCHANGED counts
      /\ granted' = IF v \in {"True", "False"}
                    THEN [granted EXCEPT ![c] = @ + 1] ELSE granted
      /\ receipt' = [op |-> "verify_proof", outcome |-> "Ok", events |-> <<v = "True">>]
      /\ UNCHANGED <<ledger, config, limits, since, frame>>

(* verify_proof: Ok(..) keeps the charge and publishes an event; an Err or *)
(* a panic rolls the charge back and publishes none.                       *)
VerifyProof(c, item) ==
  LET e == counts[c][CurrentWindow]
      v == Verdict(c, item, e)
  IN  /\ Idle
      /\ \/ /\ v \in {"True", "False"}
            /\ counts' = [counts EXCEPT ![c][CurrentWindow] = Charge(e)]
            /\ granted' = [granted EXCEPT ![c] = @ + 1]
            /\ receipt' = [op |-> "verify_proof", outcome |-> "Ok",
                           events |-> <<v = "True">>]
         \/ /\ v \notin {"True", "False"}
            /\ UNCHANGED <<counts, granted>>
            /\ receipt' = [op |-> "verify_proof", outcome |-> v, events |-> <<>>]
      /\ UNCHANGED <<ledger, config, limits, since, frame>>

(* verify_batch: the caller's authorisation, then one step for each entry. *)
BeginBatch(c) ==
  /\ Idle
  /\ frame' = [caller |-> c, entry |-> counts[c][CurrentWindow],
               items |-> <<>>, results |-> <<>>, granted |-> 0]
  /\ receipt' = NoReceipt
  /\ UNCHANGED <<ledger, config, budget>>

\* An entry's Err becomes false, and what it charged stays charged.
BatchEntry(item) ==
  LET v == Verdict(frame.caller, item, frame.entry)
      passed == WithinBudget(v)
  IN  /\ ~Idle
      /\ Len(frame.items) < MaxBatch
      /\ v # "Trap"
      /\ frame' = [caller  |-> frame.caller,
                   entry   |-> IF passed THEN Charge(frame.entry) ELSE frame.entry,
                   items   |-> Append(frame.items, item),
                   results |-> Append(frame.results, v = "True"),
                   granted |-> IF passed THEN frame.granted + 1 ELSE frame.granted]
      /\ UNCHANGED <<ledger, config, budget, receipt>>

\* A panic in any entry ends the invocation with nothing written.
BatchTrap(item) ==
  /\ ~Idle
  /\ Len(frame.items) < MaxBatch
  /\ Verdict(frame.caller, item, frame.entry) = "Trap"
  /\ frame' = NoFrame
  /\ receipt' = [op |-> "verify_batch", outcome |-> "Trap", events |-> <<>>]
  /\ UNCHANGED <<ledger, config, budget>>

EndBatch ==
  /\ ~Idle
  /\ counts' = [counts EXCEPT ![frame.caller][CurrentWindow] = frame.entry]
  /\ granted' = [granted EXCEPT ![frame.caller] = @ + frame.granted]
  /\ receipt' = [op |-> "verify_batch", outcome |-> "Ok", events |-> frame.results]
  /\ frame' = NoFrame
  /\ UNCHANGED <<ledger, config, limits, since>>

(* The network closes a ledger: temporary entries past their life are gone.*)
Evict(l) ==
  [c \in Address |-> [k \in Ledger |->
     IF counts[c][k].liveUntil < l THEN NoEntry ELSE counts[c][k]]]

CloseLedger ==
  /\ Idle
  /\ ledger < MaxLedger
  /\ ledger' = ledger + 1
  /\ counts' = Evict(ledger + 1)
  /\ granted' = IF WindowStart(ledger + 1, limits.window_size) = CurrentWindow
                THEN granted ELSE [c \in Address |-> 0]
  /\ receipt' = NoReceipt
  /\ UNCHANGED <<config, limits, since, frame>>

AdminCall(s) ==
  \/ \E m \in MaxCallsArg, w \in WindowArg : SetLimits(s, m, w)
  \/ \E k \in Vk : UpdateVk(s, k)
  \/ \E b \in BOOLEAN : SetAllowlistMode(s, b)
  \/ \E a \in ListedArg : AddToAllowlist(s, a)
  \/ \E a \in ListedArg : RemoveFromAllowlist(s, a)
  \/ \E a \in NomineeArg : ProposeAdmin(s, a)
  \/ AcceptAdmin(s)
  \/ \E h \in Wasm : Upgrade(s, h)

VerifyCall ==
  \/ \E c \in CallerArg, item \in Item : VerifyProof(c, item)
  \/ \E c \in CallerArg : BeginBatch(c)
  \/ \E item \in Item : BatchEntry(item)
  \/ \E item \in Item : BatchTrap(item)
  \/ EndBatch

Next == (\E s \in Address : AdminCall(s)) \/ VerifyCall \/ CloseLedger

Spec == Init /\ [][Next]_vars

-----------------------------------------------------------------------------
(* Properties.                                                             *)

\* Every variable holds what its storage entry can hold; in particular the
\* window size verify_one divides by is never 0.
TypeOK ==
  /\ ledger \in Ledger /\ since \in Ledger
  /\ admin \in Address /\ wasm \in Wasm
  /\ pending \in Address \cup {NoAddr} /\ nominator \in Address \cup {NoAddr}
  /\ limits \in LimitsType
  /\ vk \in Vk
  /\ allowlistEnabled \in BOOLEAN /\ allowlist \subseteq Address
  /\ counts \in [Address -> [Ledger -> EntryType]]
  /\ granted \in [Address -> Nat]
  /\ frame \in FrameType /\ receipt \in ReceiptType

\* No caller is charged more than max_calls times within one window while the
\* limits stay as they are: the counter of verify_one, kept in a temporary
\* entry the host may evict, outlives the window it counts.
RateLimit == \A c \in Address : granted[c] <= limits.max_calls

\* From the first window that began after the limits were last set, the stored
\* counter is exactly the number of calls charged in it: a rejected or trapped
\* call costs its caller nothing, and no earlier window's count is read.
RateExact ==
  since < CurrentWindow =>
    \A c \in Address : counts[c][CurrentWindow].n = granted[c]

\* In a batch, whether entry i is within the budget depends on its position
\* alone: expired, malformed-input and false entries ahead of it each cost one
\* call, so its result is what verify_one's later checks say of it if fewer
\* than max_calls calls were charged before it, and false otherwise.
BatchByPosition ==
  ~Idle =>
    LET start == counts[frame.caller][CurrentWindow].n
        allowed == allowlistEnabled => frame.caller \in allowlist
    IN  \A i \in 1..Len(frame.items) :
          frame.results[i] <=> /\ allowed
                               /\ start + i <= limits.max_calls
                               /\ Judge(frame.items[i]) = "True"

\* A call panics only on proof points of a wrong length or off the curve, a
\* key off the curve, a counter at the top of u32, or a window longer than the
\* network lets an entry live: the unwraps of the key's two ic points in
\* verify_one never do, whatever keys update_vk was offered.
PanicCauses ==
  \A c \in Address, item \in Item :
    LET e == counts[c][CurrentWindow]
    IN  Verdict(c, item, e) = "Trap" =>
          \/ item.points # "valid"
          \/ ~vk.onCurve
          \/ e.n = U32Max
          \/ limits.window_size > MaxTtl

\* A nomination that can still be accepted was made by the admin in office:
\* a former admin's proposal never hands the contract over.
PendingFromAdmin == pending # NoAddr => nominator = admin

\* What verify_batch's doc says: "a batch's transaction never fails just
\* because one proof in it was invalid" (with a usable key and counters below
\* the top of u32, which the run sees to).
BatchNeverFails == receipt.op = "verify_batch" => receipt.outcome = "Ok"

-----------------------------------------------------------------------------
(* The inductive strengthening of PanicCauses.                             *)

\* The stored key has the two ic points verify_one unwraps.
KeyInv == vk.icLen = ExpectedPublicInputCount

(* The inductive strengthening of RateLimit and BatchByPosition.           *)

\* A caller charged in the current window has a counter that says so and that
\* the host keeps until the window is over.
WindowInv ==
  \A c \in Address : granted[c] > 0 =>
    LET e == counts[c][CurrentWindow]
    IN  /\ granted[c] <= e.n
        /\ granted[c] <= limits.max_calls
        /\ CurrentWindow + limits.window_size <= e.liveUntil + 1

\* A batch in progress holds its caller's stored counter plus what it charged,
\* and stops charging only once the counter is at the limit.
FrameInv ==
  ~Idle =>
    LET base == counts[frame.caller][CurrentWindow]
        allowed == allowlistEnabled => frame.caller \in allowlist
    IN  /\ frame.caller \in Address
        /\ Len(frame.results) = Len(frame.items)
        /\ frame.entry.n = base.n + frame.granted
        /\ frame.granted <= Len(frame.items)
        /\ frame.granted = 0 => frame.entry = base
        /\ frame.granted > 0 => /\ frame.entry.n <= limits.max_calls
                                /\ ledger + limits.window_size <= frame.entry.liveUntil
        /\ ~allowed => frame.granted = 0
        /\ allowed => \/ frame.granted = Len(frame.items)
                      \/ frame.entry.n >= limits.max_calls

BudgetInv == TypeOK /\ WindowInv /\ FrameInv /\ BatchByPosition

(* The inductive strengthening of RateExact.                               *)

\* No counter is kept under a window that has not begun.
FutureEmpty == \A c \in Address, k \in Ledger : k > ledger => counts[c][k] = NoEntry

ChargeInv == BudgetInv /\ FutureEmpty /\ RateExact

(* The outcome of a call as a function of its basis.                       *)

\* What verify_one makes of the proof at position i of a call with basis b, when
\* the caller's counter is at n.
VerdictAt(b, i, n, item) ==
  IF ~b.allowed THEN "CallerNotAllowed"
  ELSE IF n = U32Max THEN "Trap"
  ELSE IF n + 1 > b.limits.max_calls THEN "RateLimitExceeded"
  ELSE IF b.limits.window_size > MaxTtl THEN "Trap"
  ELSE IF item.points = "badLength" THEN "Trap"
  ELSE IF item.inputs # ExpectedPublicInputCount THEN "False"
  ELSE IF item.expiry = NotU32 THEN "False"
  ELSE IF i \in b.expired THEN "ProofExpired"
  ELSE IF b.key.icLen < 2 \/ ~b.key.onCurve \/ item.points = "offCurve" THEN "Trap"
  ELSE IF item.proves = b.key.circuit THEN "True" ELSE "False"

\* The counter that entry i of a batch with basis b meets, if none before it
\* panicked: each costs one call until the limit is reached.
Met(b, i) ==
  IF b.used + i - 1 <= b.limits.max_calls THEN b.used + i - 1
  ELSE Larger(b.used, b.limits.max_calls)

-----------------------------------------------------------------------------
\* The admin entries implement the two-step handoff.
Handoff == INSTANCE AdminHandoff WITH nominee <- pending

\* The admin changes only as AdminHandoff says, whatever other calls do.
HandoffSpec == Handoff!Spec

=============================================================================
