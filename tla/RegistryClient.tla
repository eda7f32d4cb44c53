--------------------------- MODULE RegistryClient ---------------------------
(***************************************************************************)
(* verifyViaRegistry and verifyBatchViaRegistry of the SDK                 *)
(* (sdk/src/verify.ts): calls of the Registry contract that are simulated  *)
(* and never submitted, while its admin registers and replaces circuits.   *)
(*                                                                         *)
(* A session is one promise, and each await of the code ends a step.  The  *)
(* RPC server is external: it simulates a call on the current state.       *)
(***************************************************************************)
EXTENDS Registry, SdkErrors

CONSTANTS Session,  \* concurrent calls of the SDK
          Request   \* the options they may be called with

\* A single proof comes as calldata or in a bundle, made for this network or
\* for another one; a batch comes as snarkjs proofs.
RequestType == [op: {"verify_proof", "verify_batch"}, items: Seq(Item),
                bundle: {"none", "here", "elsewhere"}]

ASSUME ClientAssumption ==
  \A req \in Request :
    /\ req \in RequestType
    /\ req.op = "verify_proof" => Len(req.items) = 1
    /\ req.op = "verify_batch" => req.bundle = "none"

VARIABLES opts,  \* the options of each session
          call   \* where each session is, and what it resolved to

clientVars == <<opts, call>>
allVars == <<vars, clientVars>>

NewCall == [phase |-> "idle", outcome |-> "none", verified |-> <<>>]

\* run_verification of each proof of a session.
Verdicts(s) == [i \in DOMAIN opts[s].items |-> Verdict(opts[s].items[i])]

Flags(verdicts) == [i \in DOMAIN verdicts |-> verdicts[i] = "True"]

Panics(verdicts) == \E i \in DOMAIN verdicts : verdicts[i] = "Trap"

-----------------------------------------------------------------------------
(* Steps of a session.                                                     *)

At(s, phase) == call[s].phase = phase

Proceed(s, phase) == call' = [call EXCEPT ![s].phase = phase]

\* Mutant: an error is made and not thrown.
RejectUnthrown(s, code) == call' = [call EXCEPT ![s].outcome = code]

Reject(s, code) == call' = [call EXCEPT ![s] = [@ EXCEPT !.phase = "done", !.outcome = code]]

Resolve(s, flags) ==
  call' = [call EXCEPT ![s] = [phase |-> "done", outcome |-> "verified", verified |-> flags]]

\* Mutant: the bytes of calldata are not checked.
MalformedUnchecked(req) == req.items = <<>>

Malformed(req) == req.items = <<>> \/ \E i \in DOMAIN req.items : req.items[i].points = "badLength"

\* resolveRegistryCalldata or formatProof, and validateCalldata.
Start(s) ==
  /\ At(s, "idle")
  /\ \/ Malformed(opts[s]) /\ Reject(s, "INVALID_PROOF_FORMAT")
     \/ ~Malformed(opts[s]) /\ Proceed(s, "network")

\* getNetwork, then the network check of a bundle.
GetNetwork(s) ==
  /\ At(s, "network")
  /\ \/ opts[s].bundle = "elsewhere" /\ Reject(s, "NETWORK_MISMATCH")
     \/ opts[s].bundle # "elsewhere" /\ Proceed(s, "account")

\* getAccount of a key pair made up for the call; its failure is caught.
GetAccount(s) == At(s, "account") /\ Proceed(s, "simulate")

\* simulateTransaction: an error or an answer without a result is thrown, and
\* the flags are the contract's otherwise.
Simulate(s) ==
  /\ At(s, "simulate")
  /\ Idle
  /\ \/ Reject(s, "CONTRACT_INVOCATION_FAILED")
     \/ ~Panics(Verdicts(s)) /\ Resolve(s, Flags(Verdicts(s)))

\* Any other awaited request threw.
RequestFails(s) ==
  /\ call[s].phase \in {"network", "simulate"}
  /\ \E code \in ThrownCode : Reject(s, code)

SessionStep(s) ==
  Start(s) \/ GetNetwork(s) \/ GetAccount(s) \/ Simulate(s) \/ RequestFails(s)

ClientInit ==
  /\ Init
  /\ opts \in [Session -> Request]
  /\ call = [s \in Session |-> NewCall]

ClientNext ==
  /\ \/ Next /\ UNCHANGED call
     \/ (\E s \in Session : SessionStep(s)) /\ UNCHANGED vars
  /\ UNCHANGED opts

ClientSpec == ClientInit /\ [][ClientNext]_allVars

-----------------------------------------------------------------------------
(* Properties.                                                             *)

\* Each session is at one of its awaits or settled, and has an outcome exactly
\* when it is settled.
ClientTypeOK ==
  /\ opts \in [Session -> Request]
  /\ call \in [Session ->
       [phase: {"idle", "network", "account", "simulate", "done"},
        outcome: ThrownCode \cup {"none", "verified", "INVALID_PROOF_FORMAT",
                                 "NETWORK_MISMATCH"},
        verified: Seq(BOOLEAN)]]
  /\ \A s \in Session : At(s, "done") <=> call[s].outcome # "none"

\* One entry that panics costs a whole batch its answer.  Of what the SDK lets
\* through to the contract, only a proof or a registered key off the curve does:
\* proofs of a wrong length, which read_g1 and read_g2 panic on, never get there,
\* and an unknown id, a wrong number of inputs, or a key with no ic point answers
\* false for its own entry, whatever keys are registered while the call runs.
SentPanics ==
  \A s \in Session : At(s, "simulate") /\ Panics(Verdicts(s)) =>
    \E i \in DOMAIN opts[s].items :
      LET item == opts[s].items[i]
          key == circuits[item.id]
      IN  /\ key # NoVk /\ key.icLen = item.inputs + 1
          /\ item.points = "offCurve" \/ ~key.onCurve

=============================================================================
