# A verification of zksoroban

zksoroban verifies Groth16 proofs over BN254 on Stellar's Soroban. Two
contracts check proofs and a TypeScript SDK submits them. This directory holds
TLA+ modules that model the parts with state and concurrency, TLC
configurations that check them on small instances, and TLAPS proofs of the main
results for every value of the constants. Paths below are relative to the
repository, which is read at `src/`.

## 1. Inventory

| Part | Source | State | Operations |
|---|---|---|---|
| Verifier contract | `contracts/verifier/src/lib.rs` | instance storage: `Admin`, `PendingAdmin`, `Limits`, `Vk`, `AllowlistEnabled`, `Allowlist(addr)`; temporary storage: `CallCount(caller, window_start)` | `__constructor`, `set_limits`, `update_vk`, the allowlist calls, `propose_admin`, `accept_admin`, `upgrade`, `verify_proof`, `verify_batch`, and read-only views |
| Registry contract | `contracts/registry/src/lib.rs` | instance storage: `Admin`, `PendingAdmin`; persistent storage: `Circuit(id)` | `__constructor`, `propose_admin`, `accept_admin`, `upgrade`, `register_circuit`, `verify_proof`, `verify_batch`, views |
| SDK, submitting calls | `sdk/src/verify.ts`: `verifyOnChain`, `verifyBatchOnChain` | none shared; each promise holds its transaction between awaits | simulate, sign, send, poll for up to 30 s |
| SDK, simulated calls | `sdk/src/verify.ts`: `estimateVerifyFee`, `verifyViaRegistry`, `verifyBatchViaRegistry`, `getContractConfig`; `sdk/src/version.ts`: `getContractVersion` | none shared | one simulation |
| Encoding and validation | `sdk/src/proof.ts`, `sdk/src/validate.ts` | none | `formatProof`, `formatVerifyingKey`, `validateProofInput`, `validateCalldata` |
| Poseidon | `sdk/src/poseidon.ts` | a cache of parsed tables | `poseidon` |
| Off-chain verification | `sdk/src/verifyOffChain.ts` | none | `verifyOffChain` |
| Proof generation, CLI | `sdk/src/browser.ts`, `sdk/src/cli.ts` | none | wrappers around snarkjs, `formatProof` and `poseidon` |
| Circuits, demo, scripts | `circuits/`, `demo/`, `scripts/` | none | constraints; linear scripts |

How they interact. The contracts do not call each other or anything but the
host. A contract invocation is atomic: a call that returns `Err`, fails an
authorisation or panics leaves no trace in the storage and no event. The host
also closes ledgers, which moves `env.ledger().sequence()` on and evicts
temporary entries whose life has ended. An SDK promise reaches the verifier in
two separate executions: once by simulation, on the state of some ledger, and
once when the network applies the signed transaction on a later one, possibly
after the promise was settled, possibly never.

What is hard here, and what makes each part correct:

* *Verifier.* The call budget: a counter kept in evictable storage under a key
  made of the caller and a window start that depends on an adjustable window
  size. It must bound the calls of a window, must not charge calls that are
  rolled back, and must be charged entry by entry within a batch, where a
  rejection is a value instead of a rollback. Panics: which arguments and which
  stored values can make a call panic. Ownership: who can become admin.
* *Registry.* A batch over circuits registered by an admin who is checked for
  nothing but authorisation; ownership again.
* *SDK.* The gap between simulation and application, lost answers, timeouts,
  several promises of one account, and answers that lack a return value: what a
  caller may conclude from a result, an error code, an estimate or a view.
* *Encoding.* Two fields, two coefficient orders, an expiry that is a number on
  one side and a 256-bit word on the other, and two contracts that want different
  inputs for the same proof: a proof must get one verdict wherever it is verified.
* *Poseidon.* An optimised permutation over flat tables: a wrong offset gives a
  hash, and the hash matches no circuit.

The complete list of hazards, each at its line and with the property that
covers it, is in `PROJECT.json`.

## 2. Modules

| Module | What it is |
|---|---|
| `AdminHandoff` | abstract specification: an office that passes only to the nominee of the admin in office |
| `Verifier` | the verifier contract and the host's ledgers and eviction; its properties; the invariants its proofs need |
| `VerifierProofs` | theorems about `Verifier`: types, ownership, panics, the call budget |
| `VerifierChargeProofs` | the theorem that the counter counts exactly the charged calls |
| `Registry` | the registry contract |
| `RegistryProofs` | theorems about `Registry`: types, panics and ownership |
| `SdkErrors` | the error codes the on-chain functions of the SDK reject with |
| `VerifierClient` | `verifyOnChain` and `verifyBatchOnChain` sessions, the RPC server and the network, composed with `Verifier`; the invariant its proofs need |
| `VerifierClientProofs` | theorems about `VerifierClient`: types, results, rejections, failed transactions, and that it implements `Verifier` |
| `VerifierViews` | `estimateVerifyFee`, `getContractConfig` and `getContractVersion` sessions, composed with `Verifier`; the invariant its proofs need |
| `VerifierViewsProofs` | theorems about `VerifierViews`: types, and what the fee of an estimate covers |
| `RegistryClient` | `verifyViaRegistry` and `verifyBatchViaRegistry` sessions, composed with `Registry` |
| `RegistryClientProofs` | theorems about `RegistryClient`: types, and what of its calls can panic |
| `ProofCodec` | `formatProof` and `formatVerifyingKey` with their validation, and the bytes as the contracts read them |
| `ProofJourney` | `ProofCodec` with the three ways to verify a proof: off-chain, by the registry, by the verifier |
| `ProofCodecProofs` | theorems about `ProofCodec` and `ProofJourney` |
| `Poseidon` | `poseidon` round by round, and the plain permutation it must equal |
| `PoseidonTables` | how the tables `poseidon` reads follow from the constants and the matrix of the plain permutation; the invariant that its hash needs |
| `PoseidonProofs` | theorems about `Poseidon`: types, the reading of the tables, and that the hash is the plain permutation's |
| `MCVerifier`, `MCVerifierClient`, `MCVerifierViews`, `MCRegistryClient`, `MCProofCodec`, `MCPoseidon` | small instances for TLC; `MCRegistryClient` is also that of `Registry`, and `MCProofCodec` that of `ProofJourney` |

### Verifier

The variables are the storage entries under the names of `DataKey`; `counts`
holds `CallCount`, each entry with the last ledger it is live in, and an absent
entry reads as 0. Every exported function that changes state is an action, with
the address whose authorisation the call carries as a parameter. Calls that
return an `Err` before they write anything are not actions: they are disabled
guards (`s = admin`, `w # 0`, `pending # NoAddr`, the key's length). The two
verify functions do record how they failed, because properties speak of it.

`Verdict` is `verify_one`: allowlist, budget, the extension of the entry's life,
then `Judge` for the rest, in the order of the code, with the panics at the
place where they happen. `Charge` is the write and the `extend_ttl` together.
`VerifyProof` keeps the charge for `Ok(true)` and `Ok(false)` and drops it for an
`Err` or a panic. `verify_batch` is the one loop of the contract. It runs entry
by entry in `frame` (`BeginBatch`, `BatchEntry`, `BatchTrap`, `EndBatch`) while all
other actions wait (`Idle`), which is the atomicity of an invocation: its writes
reach `counts` in `EndBatch` and are lost in `BatchTrap`. `CloseLedger` advances the
ledger and evicts.

Data are kept to what the contract distinguishes: a proof is the shape of its
points, the number of its public inputs, its expiry word (or "not a u32") and
the circuit whose pairing equation it satisfies; a key is the number of its
`ic` points, whether its points are on the curve, and its circuit. `nominator`,
`since` and `granted` are history variables that no guard reads.

### Registry

The same shape with circuits by id. `Verdict` is `run_verification`.
`register_circuit` checks nothing of the key, so keys without any `ic` point and
keys off the curve are among those tried.

### VerifierClient

A session is one promise of `verifyOnChain` or `verifyBatchOnChain`, and a phase is
the await it is suspended at: `network`, `account`, `prepare`, `send`, `poll`. Each
session action is the code from one await to the next; the two functions differ
in `Prepare` and `PrepareBatch`, and in `PollSuccess` and `PollBatchSuccess`.

`Prepare` evaluates the contract on the current state, as simulation does. Its
outcome either rejects the promise or fixes the transaction's footprint (of which
only the window of the counter can become wrong) and the number of calls it
charges. `Apply` and `ApplyBatch` run the real contract actions on whatever the
state is by then, a batch entry by entry (`RunEntry`, `RunEnd`, with `running` the
transaction whose turn it is). `ApplyFails` is the host's failure of a call that
reads or first writes a counter it did not declare, which it must fail, or that
charges more entries than its simulation, which it may fail for want of
resources. `Drop` is a transaction whose 30 s time bound passed. An account has at
most one transaction waiting, and transactions with a stale sequence number are
refused. Any request may throw, before or after the server took the transaction
(`SendLost`). The network part is external to the repository and is modelled from
how `verify.ts` relies on it.

### VerifierViews

The calls that simulate the verifier and submit nothing. They share their awaits:
`network`, `account` (not for `getContractVersion`, which makes up its source
account) and `simulate`. `Estimate` evaluates `verify_one` on the state of its step.
The amount of the fee is abstracted to the part of it that other calls and time
can change (`Fee`): whether the call creates its counter, and for how many ledgers of
the counter's life it pays rent, both read off `Charge`. The rest of its work is the
same each time the same proof is verified. `Read` is the other two, which report the
contract's answer to their one simulation. `asked`, the ledger and the window an
estimate was made in, is a history variable.
`assertBundleNetwork` comes after `getNetwork` here, as in the code.

### RegistryClient

A session is one promise of `verifyViaRegistry` or `verifyBatchViaRegistry`; the
awaits are `network`, `account` and `simulate`. The whole answer comes from one
simulation, which `Simulate` evaluates on the registry's state of that step, while
the registry's own actions run between the steps. A call that panics in simulation
is an error there and is thrown, never a flag. The failure of `getAccount` is
caught by the code, so that step cannot fail. `Malformed` is what the SDK checks before
it asks anybody; everything else is left to the contract.

### ProofCodec

Encoding is arithmetic, so numbers stay numbers and only become small: a byte has
`Radix` values, a word has `WordLen` bytes, and two moduli stand for the scalar and
the base field. A string is what it denotes, a decimal or a hexadecimal number, or
anything else. `FormatProof` makes the checks in the order of the code, each with
its error code: `validateProofInput`, then the expiry, then the encoders.
`VerifierReads` and `RegistryReads` are the contracts' side: the length assertions of
`read_g1` and `read_g2`, the coefficient order the host expects, and
`read_expiry_ledger`.

### ProofJourney

One proof, formatted and received as in `ProofCodec`, and three verdicts on it.
`VerifyOffChain` is `verifyOffChain` with what it relies on snarkjs for: it throws on
what is no number, finds a signal outside the scalar field invalid, and reduces
coordinates to the base field. Nothing is relied on for a number of signals the key is
not made for: it may throw, or answer either way. Proofs are as snarkjs writes them, with
1 as the last coordinate of each point, which the SDK's encoders do not read. `RegistryVerdict` and `VerifierVerdict` are the two
contracts from the input counts on; what comes before, callers and budgets, is
`Verifier`'s. All three have the key of the same circuit, with one public signal.
The pairing equation is a constant, `Genuine`: the points and signals that satisfy
it. A request without an expiry is what `resolveCalldata` makes of a bundle, and what
`verifyBatchOnChain` makes of an item without `expiryLedger`.

### Poseidon

`Absorb` reduces the inputs and adds the first constants; `FirstRound`,
`MiddleRound`, `PartialRound`, `SecondRound` and `LastRound` are the five loops and
blocks of the code, each with its own offsets into the tables `C` and `S` and its
matrix `M` or `P`. `PartialRound` updates the state in place: `boxed` is the state once
its first element has been. The tables are those of circomlibjs, which are external.
`PoseidonTables` says how they are derived from the constants of the plain permutation:
what the constants of a round give once the matrix before it has been applied; what
the constants of the partial rounds leave to add before each (`Ahead`), since only
the first element meets the S-box there; and the factors of the matrix, one sparse
(`SparseMatrix`) and one dense (`Dense`), in each partial round. `MCPoseidon` computes such
tables for its small field, and TLC evaluates that they are as `DerivationAssumption`
has them. `readC` and `readS` are history variables: what has been read
of each table. The cache of parsed tables is not a variable, since parsing always
gives the same.

## 3. Runs

| Run | Instance | Shows |
|---|---|---|
| `verifier_budget` | 2 interchangeable callers, limits 1 and 2, windows 2 and 3, ledgers 0 to 3, batches of 2, a lasting proof and one that expires; 5.2 M states | `TypeOK`, `RateLimit`, `RateExact`, `BatchByPosition` |
| `verifier_admin` | 3 addresses, 4 keys, 8 proofs (each early return and each panic), `u32::MAX` scaled to 2, longest life 2 against a window of 3; 0.25 M states | `PanicCauses`, `PendingFromAdmin`, `HandoffSpec` |
| `verifier_client` | 2 interchangeable sessions of one account, each with a single call or a batch of 2, one call per window of 2, ledgers 0 to 2, 2 polls; 1.9 M states | `ClientTypeOK`, `ResultIsOnChain`, `RejectedUncharged` when calls and batches race for the budget and the sequence number |
| `client_change` | 1 session with any of 6 requests, limits 0 and 1, a key that is usable and one off the curve, 2 polls; 0.16 M states | `FailureMeansChange` when a transaction panics, stops half way, leaves its footprint or outgrows its resources; `CallSettles` |
| `registry_client` | 2 interchangeable addresses, 2 ids, 3 keys of two circuits (one without `ic` points, one off the curve), 1 session with any of 5 requests, batches of 2; 25 thousand states | `TypeOK`, `PanicCauses`, `HandoffSpec` of the registry; `ClientTypeOK`, `SentPanics` of the client |
| `verifier_views` | 1 session with any of 6 requests, limits 1 and 2, windows of 2, ledgers 0 to 3, counters that live for one ledger unless extended, a usable key and one off the curve, 2 executables; 0.47 M states | `ViewsTypeOK`, `EstimateCovers` |
| `proof_codec` | bytes of 2 values, words of 4 bytes, ledger numbers of 2, moduli 11 and 13; about 1300 proofs and 430 keys: sound ones, and each with one part at or beyond a boundary; 2 genuine proofs, ledgers 0 to 2; 8716 states | `PointsDelivered`, `InputsDelivered`, `KeyDelivered`, `RefusalNamesPart`, `Agreement` |
| `poseidon` | a field of 13, 6 full rounds, 3 partial rounds for one input and 2 for two, arrays of 0 to 3 inputs with values below, in and above the field; 2744 states | `TypeOK`, `HashIsPoseidon`, `ConstantsOnce` |
| `batch_result_doc` | as `client_change` with the usable key | violates `BatchResultComplete` |
| `verifier_batch_doc` | one usable key, every proof | violates `BatchNeverFails` |
| `proof_codec_doc` | as `proof_codec` | violates `CoordinatesInBaseField` |
| `batch_example_doc` | as `proof_codec` | violates `ExampleVerifies` |

Why the bounds are enough. The budget needs a window that is left and a window
that is entered, a change of the window size that hits an old key, an entry
that would be evicted inside its window without the extension (`MinTtl` is 1),
two callers to see that they do not share a counter, and a batch longer than
the limit; four ledgers and windows of 2 and 3 give all of these, and
`ChargeWithoutExtension` shows that the eviction case happens. In
`verifier_admin` the constants make a panic by overflow, by a window too long
for the network, by points and by keys all reachable. Two sessions of one
account are the smallest conflict on a sequence number, and one call per window
makes the second session's simulation stale. A batch of an expiring and a
lasting proof is one whose first entry uses up the budget of the second.
One session is enough for the calls that only simulate, since they leave no trace.
`verifier_views` needs a window begun after the limits were set, with an estimate and
another call of the same caller in it, and a counter the host would evict inside the
window (`MinTtl` is 0); four ledgers and windows of 2 give that, and its mutant shows the
eviction. In `registry_client` two admins may replace the keys of both ids while a
batch over them waits for its simulation. In the codec
the moduli are not powers of the radix and leave room in a word above each, a
word is longer than a ledger number, and every coordinate of a sound proof has a
value of its own, so that no swap goes unseen. The ledgers of the three verdicts lie
before, on and after the expiries 0 and 1. For the hash, six full rounds are the fewest
with two rounds in the loop before the middle one, and two in the loop after the
partial rounds, so that each offset is used with a round number other than 0; two
numbers of inputs have different numbers of partial rounds. Symmetry is
over sessions, or over addresses, that no constant tells apart, and
not used where liveness is checked. `Stamp` has one element in these
runs, so that two sessions may build the very same transaction, which is the
`DUPLICATE` answer. Deadlock is not checked: the bounds on ledgers and batches
end every behaviour, and a contract that nobody calls is no error.

Fairness. Only `VerifierClient`'s specification assumes any: weak fairness of each
session's steps, that is, every request of the SDK is answered or throws, and timers fire.
Nothing is assumed of the network, the ledger or the other parties, so a
transaction may wait for ever, and `CallSettles` rests on the deadline alone.

Every property of a passing run has a mutant in `PROJECT.json`: an operator,
marked "Mutant" in the module, that replaces one definition with the code of a
plausible bug, under which TLC finds the property violated.

### Where the code and its documentation disagree

* `contracts/verifier/src/lib.rs:340` promises that "a batch's transaction never
  fails just because one proof in it was invalid". Points of a wrong length
  (`lib.rs:495`, `502`) or off the curve panic, which fails the transaction.
* `contracts/registry/src/lib.rs:152` promises the same of the registry's batch,
  and the same panics break it (`lib.rs:198`); `registry_client` has such batches, and
  its `PanicCauses` says which entries cause it.
* `contracts/verifier/src/lib.rs:79` says the event is "Emitted on every
  `verify_proof` call, regardless of outcome". It is not when the call returns
  `Err` (`lib.rs:325`); the comment at `lib.rs:453` and `docs/architecture.md`
  describe what the code does. There is no run of its own for it: `VerifyProof` shows it.
* `sdk/src/types.ts:113` says "`verified[i]` corresponds to `items[i]` from the
  request, in order." `verifyBatchOnChain` reads the flags from diagnostic events
  only and falls back to `[]` (`verify.ts:426`), so an applied and charged batch
  can resolve without a flag for any item. `verifyOnChain` refuses the same answer.
* `docs/proof-format.md:341` has "every coordinate and public input fits in the
  relevant BN254 field", and line 344 says of `proof.ts` that it does so. The
  coordinates are elements of the base field (line 35), but `validate.ts:51` and
  `proof.ts:34` hold them against the scalar field's modulus, which is smaller; a
  coordinate between the two is refused. Line 368 of the document gives the
  scalar bound as the greatest accepted coordinate. The two moduli differ in their
  low half only, so a proof hits the gap with negligible probability.
* The example of `verifyBatchOnChain` (`verify.ts:349`) submits an item without
  `expiryLedger` and expects `true` for it. Such an item has one public input (the
  verifier's key serves circuits with one signal, `ic` points 0 and 1), and
  `verify_one` answers false to any number but two (`lib.rs:416`), however genuine the
  proof. The same holds of every bundle given to `verifyOnChain`, since
  `resolveCalldata` formats it without an expiry (`verify.ts:215`).
* `sdk/src/types.ts:222` says of `allowlistEnabled` "Always `false` in the current
  version." It is what the contract's allowlist mode is (`lib.rs:235`), as `Config` has it.

## 4. Theorems

All are proved by TLAPS for arbitrary constants that satisfy the modules'
assumptions, which fix types (`ConstantsAssumption`: integers are naturals,
tried values come from their types, `NoAddr` is no address; `ClientAssumption`,
`ViewsAssumption`, `RequestAssumption` and `JourneyAssumption`: requests come from
theirs) and, where numbers are encoded or tables read, their sizes
(`CodecAssumption`: both moduli fit a word, the scalar one is the smaller;
`PoseidonAssumption` and `TablesAssumption`: an even number of full rounds, tables of
numbers as long as the rounds need). `ClientAssumption` also has that `None`, the absent
transaction, is none. `HashIsPoseidonHolds` alone uses `DerivationAssumption`, that the
tables are derived as `PoseidonTables` says. It speaks of tables and matrices only, never of
the code's loops. That circomlibjs's own numbers satisfy it is not checked here.

| Theorem | Statement |
|---|---|
| `VerifierProofs!TypeCorrect` | `Spec => []TypeOK` |
| `VerifierProofs!PendingCorrect` | `Spec => []PendingFromAdmin` |
| `VerifierProofs!HandoffImplemented` | `Spec => HandoffSpec` |
| `VerifierProofs!PanicCausesHold` | `Spec => []PanicCauses` |
| `VerifierProofs!RateLimitHolds` | `Spec => []RateLimit` |
| `VerifierProofs!BatchByPositionHolds` | `Spec => []BatchByPosition` |
| `VerifierChargeProofs!RateExactHolds` | `Spec => []RateExact` |
| `VerifierClientProofs!ClientTypeCorrect` | `ClientSpec => []ClientTypeOK` |
| `VerifierClientProofs!ResultIsOnChainHolds` | `ClientSpec => []ResultIsOnChain` |
| `VerifierClientProofs!RejectedUnchargedHolds` | `ClientSpec => []RejectedUncharged` |
| `VerifierClientProofs!ClientImplementsVerifier` | `ClientSpec => Spec` |
| `VerifierClientProofs!ClientRateLimit` | `ClientSpec => []RateLimit` |
| `VerifierClientProofs!ClientRateExact` | `ClientSpec => []RateExact` |
| `VerifierClientProofs!FailureMeansChangeHolds` | `ClientSpec => []FailureMeansChange` |
| `VerifierViewsProofs!ViewsTypeCorrect` | `ViewsSpec => []ViewsTypeOK` |
| `VerifierViewsProofs!EstimateCoversHolds` | `ViewsSpec => []EstimateCovers` |
| `RegistryProofs!TypeCorrect`, `PanicCausesHold`, `HandoffImplemented` | the same of `Registry` |
| `RegistryClientProofs!ClientTypeCorrect` | `ClientSpec => []ClientTypeOK` |
| `RegistryClientProofs!SentPanicsHolds` | `ClientSpec => []SentPanics` |
| `ProofCodecProofs!RefusalNamesPartHolds` | `Spec => []RefusalNamesPart` |
| `ProofCodecProofs!PointsDeliveredHolds` | `Spec => []PointsDelivered` |
| `ProofCodecProofs!InputsDeliveredHolds` | `Spec => []InputsDelivered` |
| `ProofCodecProofs!KeyDeliveredHolds` | `Spec => []KeyDelivered` |
| `ProofCodecProofs!AgreementHolds` | `JourneySpec => []Agreement` |
| `PoseidonProofs!TypeCorrect` | `Spec => []TypeOK` |
| `PoseidonProofs!ConstantsOnceHolds` | `Spec => []ConstantsOnce` |
| `PoseidonProofs!HashIsPoseidonHolds` | `Spec => []HashIsPoseidon` |

The budget. `RateLimit` is not inductive: it does not say why the stored counter
cannot be lower than the calls it stands for. `WindowInv` adds that a caller
charged in the current window has a counter of at least that many calls, within
the limit, and alive to the end of the window
(`CurrentWindow + window_size <= liveUntil + 1`). The last part is where
`extend_ttl(window_size, window_size)` is used: from any ledger of a window, one
window ahead is past its end (`WindowBounds`), so `CloseLedgerBudget` can show that
the host evicts no counter of the window it stays in. `FrameInv` ties a batch in
progress to the stored counter: what the frame holds is the stored counter plus
what it charged, and it has charged every entry so far or is at the limit. With
`BatchByPosition` this is `BudgetInv`; each action has a lemma.

Exactness. `ChargeInv` adds to `BudgetInv` that no entry is stored under a window
that has not begun. `NextWindow`, a fact about remainders, says that a ledger
either stays in its window or begins a new one, whose counter is then empty.
`ChargedTogether` is the step that a single call and a finished batch share. The
condition `since < CurrentWindow` is needed: after `set_limits` the current window
start may be the key of a counter kept under the old window size. Of the windows that
had begun when `set_limits` ran `RateExact` therefore says nothing; a caller may find
there a count that is not his of that window.

Ownership. The refinement holds because a stored proposal was always made by the
admin in office (`PendingInv`): `accept_admin` removes the proposal it consumes, and
only the admin can replace one.

Results and rejections of the client. Neither property is inductive: that a rejected
transaction was not charged must also hold later, and a batch is charged entry by
entry before its outcome exists. `NetworkInv` is about sequence numbers. An account has
at most one transaction waiting, with the number after its last; everything applied,
or being applied, has an earlier one; so a transaction's turn comes once and it has one
outcome (`IncludedOnce`). `SessionInv` adds that a certain rejection of something sent
has a ledger that failed it. `ClientTypeOK` keeps the batch in progress a prefix of
the transaction whose turn it is, which is what `RecordBatchInv` needs to tell whose
results they are.

Refinement. `ClientStepIsContractStep`: a step of a session, of the server or of the
queue leaves the contract alone, and applying a transaction is a contract action with
the caller's authorisation. Hence `ClientSpec => Spec`, and what is proved of the
contract holds of it as the SDK uses it; `ClientRateLimit` and `ClientRateExact` are two
instances.

Failed transactions. `FailureMeansChange` compares two executions of a call, the
simulation's and the network's. For a single call both are `verify_one`, a function of
`Basis` (`VerdictOfBasis`). For a batch one is the recursive function `RunBatch` in one step
and the other runs entry by entry, with other steps of the sessions between.
`RunOfBasis` gives both the same closed form: whether and where the batch traps and how
many calls it charges follow from the basis and the entries, shown by the least
number of entries at which they would differ. `FrameInv`, proved of the contract and
carried over by the refinement, says that the frame of a batch in progress is what that
form says of its first entries (`FrameMet`). `FailureInv` is the inductive
invariant: every transaction that was built goes through on the basis of its
simulation, and none that failed in a ledger would on the basis it failed on.
`GoesThrough` is that form: no entry traps, the calls charged are those simulated, and
the counter is the one in the footprint. So the two bases differ.

Estimates. `EstimateCovers` is not inductive: that the counter is still there is a fact
about its life. `EstimateInv` adds it: an estimate that found the caller charged already
left a counter whose life, with what the estimate pays, reaches a window ahead of the
ledger it was asked on (`Covered`). `ChargeInv`, carried over by `ViewsImplementVerifier`,
gives that such a counter exists and, by `WindowInv`, that the host does not evict it
inside its window. `CounterLasts` is that a step leaves the counter's life alone or makes
it a window from now, and `WindowOfStep` that a window begun after the limits were set is
the one before the step or one no ledger was in. `FeeFacts` are the bounds on a fee, and
`EstimateSuffices` draws the conclusion.

What reaches the registry. `SentInv` says that a session about to be simulated carries
no proof of a wrong length, which `Malformed` saw to when it started. The keys may be
replaced until then, so the rest is a fact about every state of the registry:
`run_verification` answers before it reads a point unless the key has one more `ic`
point than there are inputs (`PanicOffCurve`).

Error codes. `FormatProof` has four refusals in a row. The theorem needs that the
last one, by the encoders, can never be taken: `PointsParse` follows a coordinate
that passed the validation through the swap and the concatenations.

Encoding. The two directions are recursive functions, `Power` and `Number`, and an
induction on them is made by hand: a set of naturals that is not empty has a least
element (`Least`), and the least counterexample is refuted by the equation of the step
(`PowerSteps`, `NumberOfDigits`). `NumberOfBytes` is the result: a word of `WordLen` digits
of a number below `Power[WordLen]` is read back as that number. `EncodedWords` carries it
through the concatenation and `ExpiryRead` through `read_expiry_ledger`, whose high bytes
are all 0 exactly when the number is below `Power[U32Len]`. `AgreementHolds` then needs
that on what `formatProof` accepts, snarkjs neither throws nor reduces (`SnarkjsReads`).

Poseidon. `OrderInv` says after each round where the two cursors into the tables stand
(`CursorC`, `CursorS`), in closed form; each kind of round has a lemma that its offset
is the cursor and its width the step. With it `NextInField` knows that no index is past
a table's end, so that the state stays in the field.

The hash. `HashInv` is a simulation relation: after each round the state is what
`Optimised` makes of the plain permutation's after as many rounds. In the full
rounds the constants of the next round are added already; in the partial rounds what
is left of all of theirs is, and a dense factor is applied. The plain permutation is a
recursive function too, so its equations are proved by a least counterexample
(`PlainExists`, `PlainStates`), and so is the linearity of a sum in the field (`TotalOfSums`),
from which `Mix` is linear (`MixOfPlus`). Each kind of round has a lemma: `FullStep`; `MiddleStep`,
where the dense factor appears; and `PartialStep`, which needs that the factor leaves the
first element alone (`FirstApart`) and that the code's loop over the state in place is
the product with the sparse matrix (`MixSparseIsMix`). The last factor is the identity, and
the relation is equality after the last round.

Only model-checked: `CallSettles`, the liveness property (TLAPS cannot prove liveness
under fairness). Every other property of a passing run is a theorem. The four disagreements with
the documentation that have a run are TLC's counterexamples.

## 5. Not modelled, and what is left

* Cryptography: the pairing check, hashes, the circuits. A proof carries which circuit
  it satisfies, or in `ProofJourney` whether its points do.
* Event payloads besides the success flag, the amounts of fees, encodings other than
  those of proofs and keys.
* Archival of persistent and instance entries. The registry never extends the life of
  a circuit's entry (`contracts/registry/src/lib.rs:124`), so one nobody touches is
  archived until someone restores it. That is done by the host's protocol and by
  transactions that no code of the repository builds.
* What an upgraded executable does: `upgrade` only changes which one is installed.
* `generateProof` (`browser.ts`): type checks of its arguments, one call of snarkjs and one
  error translation, without state.
* The CLI and the demo: linear programs that read files, call the functions modelled
  here once and print what they return; the scripts build, deploy and make keys.

`PROJECT.json` gives the reason for each part. What is left to do: archival, if the
repository comes to handle it, and a comparison of circomlibjs's tables, as numbers,
with `DerivationAssumption`.
