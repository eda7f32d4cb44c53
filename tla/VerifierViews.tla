--------------------------- MODULE VerifierViews ---------------------------
(***************************************************************************)
(* The calls of the SDK that simulate the Verifier contract and submit     *)
(* nothing: estimateVerifyFee and getContractConfig (sdk/src/verify.ts)    *)
(* and getContractVersion (sdk/src/version.ts), while the contract is      *)
(* used and administered.                                                  *)
(*                                                                         *)
(* A session is one promise, and each await of the code ends a step.  The  *)
(* RPC server is external: it simulates a call on the current state.       *)
(***************************************************************************)
EXTENDS Verifier, SdkErrors

CONSTANTS Session,  \* concurrent calls of the SDK
          Request,  \* the options they may be called with
          None      \* an absent answer

RequestType ==
  [op: {"estimate"}, caller: CallerArg, item: Item, bundle: {"none", "here", "elsewhere"}]
    \cup [op: {"get_config", "version"}]

ASSUME ViewsAssumption == Request \subseteq RequestType

VARIABLES opts,  \* the options of each session
          call,  \* where each session is, and what it resolved to
          asked  \* history: the ledger an estimate was made on, and its window

viewVars == <<opts, call, asked>>
allVars == <<vars, viewVars>>

NewCall == [phase |-> "idle", outcome |-> "none", answer |-> None]

IsEstimate(s) == opts[s].op = "estimate"

\* get_config; what the contract does not implement is constant.
Config ==
  [admin |-> admin, max |-> limits.max_calls, window |-> limits.window_size,
   allowlistEnabled |-> allowlistEnabled]

\* What the contract answers: `version` is a constant of the executable.
View(op) == IF op = "get_config" THEN Config ELSE wasm

\* What the fee of a verify_proof that is not rejected depends on, for a caller
\* whose counter is e: whether the call creates the counter, and how many ledgers
\* of the counter's life it pays the rent of.  The rest of its work is the same
\* whenever it is called with the same proof.
Fee(e) ==
  [creates |-> e.n = 0,
   life    |-> Charge(e).liveUntil - (IF e.n = 0 THEN ledger - 1 ELSE e.liveUntil)]

-----------------------------------------------------------------------------
(* Steps of a session.                                                     *)

At(s, phase) == call[s].phase = phase

Proceed(s, phase) == call' = [call EXCEPT ![s].phase = phase]

\* Mutant: an error is made and not thrown.
RejectUnthrown(s, code) == call' = [call EXCEPT ![s].outcome = code]

Reject(s, code) == call' = [call EXCEPT ![s] = [@ EXCEPT !.phase = "done", !.outcome = code]]

Resolve(s, answer) ==
  call' = [call EXCEPT ![s] = [phase |-> "done", outcome |-> "answered", answer |-> answer]]

\* resolveCalldata and validateCalldata.
Start(s) ==
  LET malformed == IsEstimate(s) /\ opts[s].item.points = "badLength"
  IN  /\ At(s, "idle")
      /\ \/ malformed /\ Reject(s, "INVALID_PROOF_FORMAT")
         \/ ~malformed /\ Proceed(s, "network")

\* getNetwork, then the network check of a bundle.  Only getContractVersion
\* makes up its source account without asking for it.
GetNetwork(s) ==
  LET elsewhere == IsEstimate(s) /\ opts[s].bundle = "elsewhere"
  IN  /\ At(s, "network")
      /\ \/ elsewhere /\ Reject(s, "NETWORK_MISMATCH")
         \/ ~elsewhere /\ Proceed(s, IF opts[s].op = "version" THEN "simulate" ELSE "account")

GetAccount(s) == At(s, "account") /\ Proceed(s, "simulate")

\* simulateTransaction of verify_proof, and the fee of what it did.
Estimate(s) ==
  LET c == opts[s].caller
      e == counts[c][CurrentWindow]
      v == Verdict(c, opts[s].item, e)
  IN  /\ IsEstimate(s) /\ At(s, "simulate")
      /\ Idle
      /\ \/ /\ v \in {"True", "False"}
            /\ Resolve(s, Fee(e))
            /\ asked' = [asked EXCEPT ![s] = [ledger |-> ledger, window |-> CurrentWindow]]
         \/ /\ v \notin {"True", "False"}
            /\ \E code \in ErrorCodes(v) : Reject(s, code)
            /\ UNCHANGED asked

\* simulateTransaction of get_config or version: an error or an answer without
\* a result is thrown.
Read(s) ==
  /\ ~IsEstimate(s) /\ At(s, "simulate")
  /\ Idle
  /\ \/ Reject(s, "CONTRACT_INVOCATION_FAILED")
     \/ Resolve(s, View(opts[s].op))

\* An awaited request threw.  getContractConfig catches the failure of
\* getAccount, and getContractVersion sorts no errors.
RequestFails(s) ==
  /\ \/ call[s].phase \in {"network", "simulate"}
     \/ At(s, "account") /\ IsEstimate(s)
  /\ \E code \in ThrownCode :
       /\ opts[s].op = "version" => code = "NETWORK_ERROR"
       /\ Reject(s, code)

SessionStep(s) ==
  \/ Estimate(s)
  \/ (Start(s) \/ GetNetwork(s) \/ GetAccount(s) \/ Read(s) \/ RequestFails(s))
     /\ UNCHANGED asked

ViewsInit ==
  /\ Init
  /\ opts \in [Session -> Request]
  /\ call = [s \in Session |-> NewCall]
  /\ asked = [s \in Session |-> [ledger |-> 0, window |-> 0]]

ViewsNext ==
  /\ \/ Next /\ UNCHANGED <<call, asked>>
     \/ (\E s \in Session : SessionStep(s)) /\ UNCHANGED vars
  /\ UNCHANGED opts

ViewsSpec == ViewsInit /\ [][ViewsNext]_allVars

-----------------------------------------------------------------------------
(* Properties.                                                             *)

\* What a session with options o may be answered.
Answer(o) ==
  IF o.op = "estimate" THEN [creates: BOOLEAN, life: Nat]
  ELSE IF o.op = "get_config"
  THEN [admin: Address, max: 0..U32Max, window: Nat \ {0}, allowlistEnabled: BOOLEAN]
  ELSE Wasm

\* Each session is at one of its awaits or settled, has an outcome exactly when
\* it is settled, and an answer of its own function exactly when it was answered.
ViewsTypeOK ==
  /\ opts \in [Session -> Request]
  /\ asked \in [Session -> [ledger: Ledger, window: Ledger]]
  /\ \A s \in Session :
       /\ call[s] = [f \in DOMAIN NewCall |-> call[s][f]]
       /\ call[s].phase \in {"idle", "network", "account", "simulate", "done"}
       /\ call[s].outcome \in ThrownCode \cup CertainCode \cup {"none", "answered"}
       /\ At(s, "done") <=> call[s].outcome # "none"
       /\ IF call[s].outcome = "answered" THEN call[s].answer \in Answer(opts[s])
          ELSE call[s].answer = None

\* For the rest of its window an estimate covers the call: whatever others do, a
\* verify_proof submitted later never has to create a counter the estimate found
\* in place, and pays at most one more ledger of its life for each ledger passed.
\* The counter of a window outlives the window (verify_one extends it), and only
\* a new window or a set_limits puts the caller on another one.
EstimateCovers ==
  \A s \in Session : IsEstimate(s) /\ call[s].outcome = "answered" /\ Idle =>
    LET now == Fee(counts[opts[s].caller][CurrentWindow])
    IN  asked[s].window = CurrentWindow /\ since < CurrentWindow =>
          /\ now.creates => call[s].answer.creates
          /\ now.life <= call[s].answer.life + (ledger - asked[s].ledger)

-----------------------------------------------------------------------------
(* The inductive strengthening of EstimateCovers.                          *)

\* An estimate that paid for a new counter paid for all of the window; one that
\* found the caller charged already left the counter a life that, with what the
\* estimate paid for, is a window long from where it was asked.
Covered(s) ==
  LET c == opts[s].caller
      fee == call[s].answer
  IN  IF fee.creates
      THEN fee.life = Larger(MinTtl, limits.window_size) + 1
      ELSE /\ granted[c] > 0
           /\ asked[s].ledger + limits.window_size
                <= counts[c][CurrentWindow].liveUntil + fee.life

EstimateInv ==
  \A s \in Session : IsEstimate(s) /\ call[s].outcome = "answered" =>
    /\ asked[s].window <= asked[s].ledger /\ asked[s].ledger <= ledger
    /\ asked[s].window = CurrentWindow /\ since < CurrentWindow => Covered(s)

=============================================================================
