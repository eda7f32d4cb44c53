---------------------------- MODULE ProofJourney ----------------------------
(***************************************************************************)
(* One proof on every way it can be verified: by verifyOffChain            *)
(* (sdk/src/verifyOffChain.ts), by the registry and by the verifier        *)
(* contract, the last two from the bytes ProofCodec delivers.              *)
(*                                                                         *)
(* A request without an expiry is also what verifyOnChain makes of a       *)
(* bundle and verifyBatchOnChain of an item without expiryLedger.  All     *)
(* three verify against the key of one circuit with one public signal.     *)
(***************************************************************************)
EXTENDS ProofCodec

CONSTANTS Genuine,  \* the points and signals that satisfy the pairing equation
          Ledger    \* ledgers a call of the verifier may be applied on

ASSUME JourneyAssumption ==
  Genuine \subseteq [a: Seq(Nat), b: Seq(Nat), c: Seq(Nat), signal: Nat] /\ Ledger \subseteq Nat

VARIABLES offChain,  \* None, or what verifyOffChain answered
          registry,  \* None, or what the registry's verify_proof answered
          verifier   \* None, or what the verifier's answered, and on which ledger

verdicts == <<offChain, registry, verifier>>
journeyVars == <<vars, verdicts>>

\* pairing_check; the verifying key is that of the circuit.
Holds(a, b, c, signal) ==
  IF [a |-> a, b |-> b, c |-> c, signal |-> signal] \in Genuine THEN "True" ELSE "False"

-----------------------------------------------------------------------------
(* snarkjs: it throws on what is no number, finds no signal outside the    *)
(* scalar field valid, and reduces coordinates to the base field.  Proofs  *)
(* are as snarkjs writes them, with 1 as the last coordinate of a point.   *)

Readable(texts) == \A i \in DOMAIN texts : texts[i].kind # "other"

Reduced(texts) == [i \in DOMAIN texts |-> texts[i].value % BaseModulus]

\* Nothing is relied on for a number of signals the key is not made for.
SnarkjsAnswers(req) ==
  IF ~(/\ Len(req.b) >= 2 /\ Readable(req.signals) /\ Readable(Coordinates(req.a))
       /\ Readable(SnarkjsG2(req.b)) /\ Readable(Coordinates(req.c))) THEN {"thrown"}
  ELSE IF Len(req.signals) # 1 THEN {"thrown", "True", "False"}
  ELSE IF ~AllParse(req.signals) THEN {"False"}
  ELSE {Holds(Reduced(Coordinates(req.a)), Reduced(SnarkjsG2(req.b)),
              Reduced(Coordinates(req.c)), req.signals[1].value)}

-----------------------------------------------------------------------------
(* The three ways.                                                         *)

VerifyOffChain ==
  /\ op = "proof" /\ offChain = None
  /\ \/ request.protocol # "groth16" /\ offChain' = "INVALID_PROOF_FORMAT"
     \/ request.protocol = "groth16" /\ offChain' \in SnarkjsAnswers(request)
  /\ UNCHANGED <<registry, verifier>>

\* run_verification with a key of two ic points.
RegistryVerdict(r) ==
  IF Len(r.inputs) + 1 # 2 THEN "False" ELSE Holds(r.a, r.b, r.c, r.inputs[1])

AskRegistry ==
  /\ op = "proof" /\ received # None /\ registry = None
  /\ registry' = RegistryVerdict(received)
  /\ UNCHANGED <<offChain, verifier>>

\* Mutant: a proof expires on the ledger it names.
VerifierVerdictEarly(r, ledger) ==
  IF Len(r.inputs) # 2 \/ r.expiry = None THEN "False"
  ELSE IF ledger >= r.expiry THEN "ProofExpired"
  ELSE Holds(r.a, r.b, r.c, r.inputs[1])

\* verify_one, once the caller is let in.
VerifierVerdict(r, ledger) ==
  IF Len(r.inputs) # 2 \/ r.expiry = None THEN "False"
  ELSE IF ledger > r.expiry THEN "ProofExpired"
  ELSE Holds(r.a, r.b, r.c, r.inputs[1])

AskVerifier(ledger) ==
  /\ op = "proof" /\ received # None /\ verifier = None
  /\ verifier' = [ledger |-> ledger, answer |-> VerifierVerdict(received, ledger)]
  /\ UNCHANGED <<offChain, registry>>

JourneyInit == Init /\ offChain = None /\ registry = None /\ verifier = None

JourneyNext ==
  \/ Next /\ UNCHANGED verdicts
  \/ (VerifyOffChain \/ AskRegistry \/ \E ledger \in Ledger : AskVerifier(ledger))
     /\ UNCHANGED vars

JourneySpec == JourneyInit /\ [][JourneyNext]_journeyVars

-----------------------------------------------------------------------------
(* Properties.                                                             *)

\* What formatProof accepts gets one verdict wherever it is verified: the
\* registry finds a proof true exactly if verifyOffChain does, and so does the
\* verifier up to and on the ledger the caller named, and not after it.  With any
\* other number of signals than the circuit's, both contracts answer false.
Agreement ==
  op = "proof" =>
    /\ registry # None /\ request.expiry = None =>
         IF Len(request.signals) # 1 THEN registry = "False"
         ELSE offChain # None => (registry = "True" <=> offChain = "True")
    /\ verifier # None /\ request.expiry # None =>
         IF Len(request.signals) # 1 THEN verifier.answer = "False"
         ELSE offChain # None =>
                (verifier.answer = "True" <=>
                   offChain = "True" /\ verifier.ledger <= request.expiry)

\* What the example of verifyBatchOnChain shows: an item without expiryLedger
\* whose proof is genuine is verified.
ExampleVerifies ==
  op = "proof" /\ offChain = "True" /\ Len(request.signals) = 1
    /\ request.expiry = None /\ verifier # None => verifier.answer = "True"

=============================================================================
