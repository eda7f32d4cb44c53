----------------------------- MODULE ProofCodec -----------------------------
(***************************************************************************)
(* Proofs and verifying keys on their way from snarkjs to the contracts:   *)
(* formatProof and formatVerifyingKey (sdk/src/proof.ts) with the          *)
(* validation of sdk/src/validate.ts, and the bytes as verify_proof and    *)
(* register_circuit read them.                                             *)
(*                                                                         *)
(* Numbers keep their arithmetic and lose their size: a byte has Radix     *)
(* values, a word WordLen bytes, and the two moduli of BN254 are any two   *)
(* numbers that fit a word.                                                *)
(***************************************************************************)
EXTENDS Integers, Sequences

CONSTANTS Radix,         \* values of a byte: 256
          WordLen,       \* bytes of a field element: 32
          U32Len,        \* bytes of a ledger number: 4
          ScalarModulus, \* BN254_FIELD_MODULUS, the modulus r of the scalar field
          BaseModulus,   \* the modulus q of the field of the coordinates
          ProofRequest,  \* arguments of formatProof tried
          KeyRequest,    \* arguments of formatVerifyingKey tried
          None,          \* an absent value
          Fraction       \* a number that is no integer

\* Radix to the power of k, as far as a word needs it.
Power[k \in 0..WordLen] == IF k = 0 THEN 1 ELSE Radix * Power[k - 1]

ASSUME CodecAssumption ==
  /\ Radix \in Nat \ {0, 1} /\ WordLen \in Nat /\ U32Len \in 1..WordLen
  /\ ScalarModulus \in Nat /\ BaseModulus \in Nat
  /\ ScalarModulus < BaseModulus /\ BaseModulus <= Power[WordLen]

\* An element of an array: what the string in it denotes.  "other" is a string
\* that is no numeral, a value that is no string, or nothing at all.
TextType == [kind: {"decimal", "hex", "other"}, value: Nat]

Missing == [kind |-> "other", value |-> 0]

\* A point is an array; its projective coordinates come last and are not read.
ProofRequestType ==
  [protocol: {"groth16", "plonk"}, a: Seq(TextType), b: Seq(Seq(TextType)),
   c: Seq(TextType), signals: Seq(TextType), expiry: Int \cup {None, Fraction}]

KeyRequestType ==
  [protocol: {"groth16", "plonk"}, alpha: Seq(TextType), beta: Seq(Seq(TextType)),
   gamma: Seq(Seq(TextType)), delta: Seq(Seq(TextType)), ic: Seq(Seq(TextType))]

ASSUME RequestAssumption ==
  ProofRequest \subseteq ProofRequestType /\ KeyRequest \subseteq KeyRequestType

MaxU32 == Power[U32Len] - 1

VARIABLES request,  \* the arguments of the call
          op,       \* "proof" or "key"
          output,   \* None, the bytes returned, or the error thrown
          received  \* None, or what the contract reads from the bytes

vars == <<request, op, output, received>>

-----------------------------------------------------------------------------
(* Encoding.                                                               *)

ElementAt(array, i) == IF i <= Len(array) THEN array[i] ELSE Missing

\* parseFieldElement, and the test validatePublicSignals makes of a signal.
Parses(t) == t.kind \in {"decimal", "hex"} /\ t.value < ScalarModulus

\* bigintToBytes32.
Bytes32(v) == [i \in 1..WordLen |-> (v \div Power[WordLen - i]) % Radix]

Coordinates(point) == <<ElementAt(point, 1), ElementAt(point, 2)>>

\* The coordinates of a G2 point as snarkjs lists them.
SnarkjsG2(point) ==
  <<ElementAt(point[1], 1), ElementAt(point[1], 2),
    ElementAt(point[2], 1), ElementAt(point[2], 2)>>

\* The coordinates of a G2 point in the order they are written.
G2Coordinates(point) ==
  <<ElementAt(point[1], 2), ElementAt(point[1], 1),
    ElementAt(point[2], 2), ElementAt(point[2], 1)>>

AllParse(texts) == \A i \in DOMAIN texts : Parses(texts[i])

\* The words of the texts, one after the other.
Encode(texts) ==
  [k \in 1..(Len(texts) * WordLen) |->
     Bytes32(texts[((k - 1) \div WordLen) + 1].value)[((k - 1) % WordLen) + 1]]

Refused(code) == [ok |-> FALSE, code |-> code]

-----------------------------------------------------------------------------
(* formatProof.                                                            *)

\* assertProofFieldElement.
IsProofElement(t) == t.kind = "decimal" /\ t.value < ScalarModulus

IsProofPair(array) ==
  /\ Len(array) >= 2
  /\ IsProofElement(array[1])
  /\ IsProofElement(array[2])

\* Mutant: the coordinates of a proof are left to the encoding.
ProofShapeShort(req) ==
  /\ req.protocol = "groth16"
  /\ Len(req.a) >= 2 /\ Len(req.b) >= 2 /\ Len(req.c) >= 2

\* validateProofInput, before it looks at the signals.
ProofShape(req) ==
  /\ req.protocol = "groth16"
  /\ IsProofPair(req.a)
  /\ Len(req.b) >= 2 /\ IsProofPair(req.b[1]) /\ IsProofPair(req.b[2])
  /\ IsProofPair(req.c)

\* Mutant: the bound is off by one.
ExpiryFitsOffByOne(e) == e = None \/ e \in 0..(MaxU32 + 1)

ExpiryFits(e) == e = None \/ e \in 0..MaxU32

\* The checks in the order they are made; those of encodePublicInputs and of
\* encodeG1 and encodeG2 repeat what validateProofInput did.
FormatProof(req) ==
  LET points == [a |-> Coordinates(req.a), b |-> G2Coordinates(req.b),
                 c |-> Coordinates(req.c)]
      words  == [i \in DOMAIN req.signals |-> Bytes32(req.signals[i].value)]
  IN  IF ~ProofShape(req) THEN Refused("INVALID_PROOF_FORMAT")
      ELSE IF ~AllParse(req.signals) THEN Refused("INVALID_PUBLIC_INPUT")
      ELSE IF ~ExpiryFits(req.expiry) THEN Refused("INVALID_PUBLIC_INPUT")
      ELSE IF ~(AllParse(points.a) /\ AllParse(points.b) /\ AllParse(points.c))
           THEN Refused("INVALID_PROOF_FORMAT")
      ELSE [ok |-> TRUE, proofA |-> Encode(points.a), proofB |-> Encode(points.b),
            proofC |-> Encode(points.c),
            publicInputs |-> IF req.expiry = None THEN words
                             ELSE Append(words, Bytes32(req.expiry))]

-----------------------------------------------------------------------------
(* formatVerifyingKey.  A coordinate may be hexadecimal here.              *)

\* Mutant: a key without ic points is let through.
KeyShapeAnyIc(req) ==
  /\ req.protocol = "groth16"
  /\ Len(req.alpha) >= 2
  /\ \A point \in {req.beta, req.gamma, req.delta} : Len(point) >= 2

KeyShape(req) ==
  /\ req.protocol = "groth16"
  /\ Len(req.alpha) >= 2
  /\ \A point \in {req.beta, req.gamma, req.delta} : Len(point) >= 2
  /\ req.ic # <<>>

FormatVerifyingKey(req) ==
  LET alpha == Coordinates(req.alpha)
      beta  == G2Coordinates(req.beta)
      gamma == G2Coordinates(req.gamma)
      delta == G2Coordinates(req.delta)
      ic    == [i \in DOMAIN req.ic |-> Coordinates(req.ic[i])]
      parsed == /\ AllParse(alpha) /\ AllParse(beta) /\ AllParse(gamma) /\ AllParse(delta)
                /\ \A i \in DOMAIN ic : AllParse(ic[i])
  IN  IF ~(KeyShape(req) /\ parsed) THEN Refused("INVALID_PROOF_FORMAT")
      ELSE [ok |-> TRUE, alpha |-> Encode(alpha), beta |-> Encode(beta),
            gamma |-> Encode(gamma), delta |-> Encode(delta),
            ic |-> [i \in DOMAIN ic |-> Encode(ic[i])]]

-----------------------------------------------------------------------------
(* The contracts' side.                                                    *)

\* The big-endian number in bytes.
Number(bytes) ==
  LET value[i \in 0..Len(bytes)] ==
        IF i = 0 THEN 0 ELSE value[i - 1] * Radix + bytes[i]
  IN  value[Len(bytes)]

\* The word that begins after `skipped` bytes.
WordAt(bytes, skipped) == Number([k \in 1..WordLen |-> bytes[skipped + k]])

Words(bytes) == [i \in 1..(Len(bytes) \div WordLen) |-> WordAt(bytes, (i - 1) * WordLen)]

\* What an assertion on a length that fails leaves.
Panic == <<>>

\* read_g1 and the host's from_bytes: x, then y.
ReadG1(bytes) == IF Len(bytes) = 2 * WordLen THEN Words(bytes) ELSE Panic

\* read_g2: of each coordinate the host expects c1, then c0.  The result is
\* <<x.c0, x.c1, y.c0, y.c1>>.
ReadG2(bytes) ==
  LET w == Words(bytes)
  IN  IF Len(bytes) = 4 * WordLen THEN <<w[2], w[1], w[4], w[3]>> ELSE Panic

ReadExpiryLedger(word) ==
  LET high == WordLen - U32Len
  IN  IF \E i \in 1..high : word[i] # 0 THEN None
      ELSE Number([k \in 1..U32Len |-> word[high + k]])

\* verify_one: the points, and the expiry if there are two inputs.
VerifierReads(calldata) ==
  [a |-> ReadG1(calldata.proofA), b |-> ReadG2(calldata.proofB),
   c |-> ReadG1(calldata.proofC),
   inputs |-> [i \in DOMAIN calldata.publicInputs |-> Number(calldata.publicInputs[i])],
   expiry |-> IF Len(calldata.publicInputs) = 2
              THEN ReadExpiryLedger(calldata.publicInputs[2]) ELSE None]

\* register_circuit, and run_verification when it uses the key.
RegistryReads(key) ==
  [alpha |-> ReadG1(key.alpha), beta |-> ReadG2(key.beta),
   gamma |-> ReadG2(key.gamma), delta |-> ReadG2(key.delta),
   ic |-> [i \in DOMAIN key.ic |-> ReadG1(key.ic[i])]]

-----------------------------------------------------------------------------
Init ==
  /\ \/ op = "proof" /\ request \in ProofRequest
     \/ op = "key" /\ request \in KeyRequest
  /\ output = None /\ received = None

Format ==
  /\ output = None
  /\ output' = IF op = "proof" THEN FormatProof(request) ELSE FormatVerifyingKey(request)
  /\ UNCHANGED <<request, op, received>>

Receive ==
  /\ output # None /\ output.ok
  /\ received = None
  /\ received' = IF op = "proof" THEN VerifierReads(output) ELSE RegistryReads(output)
  /\ UNCHANGED <<request, op, output>>

Next == Format \/ Receive

Spec == Init /\ [][Next]_vars

-----------------------------------------------------------------------------
(* Properties.                                                             *)

G1Of(point) == <<point[1].value, point[2].value>>

G2Of(point) ==
  <<point[1][1].value, point[1][2].value, point[2][1].value, point[2][2].value>>

\* The points the verifier computes with are those of the snarkjs proof: no
\* length assertion of read_g1 and read_g2 can fail, and no coordinate is
\* swapped or changed.
PointsDelivered ==
  op = "proof" /\ received # None =>
    /\ received.a = G1Of(request.a)
    /\ received.b = G2Of(request.b)
    /\ received.c = G1Of(request.c)

\* The verifier sees every signal in its place and the expiry after them, and
\* enforces the very ledger the caller gave: an expiry formatProof accepts is
\* never one that read_expiry_ledger rejects or reads otherwise.
InputsDelivered ==
  op = "proof" /\ received # None =>
    LET n == Len(request.signals)
    IN  /\ \A i \in 1..n : received.inputs[i] = request.signals[i].value
        /\ Len(received.inputs) = IF request.expiry = None THEN n ELSE n + 1
        /\ n = 1 => received.expiry = request.expiry

\* A verifying key reaches the registry as it is, with at least the constant ic
\* point, whichever notation its coordinates are in.
KeyDelivered ==
  op = "key" /\ received # None =>
    /\ received.alpha = G1Of(request.alpha)
    /\ received.beta = G2Of(request.beta)
    /\ received.gamma = G2Of(request.gamma)
    /\ received.delta = G2Of(request.delta)
    /\ received.ic # <<>>
    /\ received.ic = [i \in DOMAIN request.ic |-> G1Of(request.ic[i])]

InField(t, modulus) == t.kind = "decimal" /\ t.value < modulus

PairInField(array, modulus) ==
  Len(array) >= 2 /\ InField(array[1], modulus) /\ InField(array[2], modulus)

ProofInField(modulus) ==
  /\ request.protocol = "groth16"
  /\ PairInField(request.a, modulus) /\ PairInField(request.c, modulus)
  /\ Len(request.b) >= 2
  /\ PairInField(request.b[1], modulus) /\ PairInField(request.b[2], modulus)

\* The error code tells the caller which argument to mend: a proof that is in
\* order is never blamed, and an input only once the proof is in order.
RefusalNamesPart ==
  op = "proof" /\ output # None => output.ok \/
    output.code = IF ProofInField(ScalarModulus) THEN "INVALID_PUBLIC_INPUT"
                                                 ELSE "INVALID_PROOF_FORMAT"

\* What docs/proof-format.md says of the validation: "every coordinate and
\* public input fits in the relevant BN254 field", where the coordinates are
\* elements of the base field: a proof within it is not refused as malformed.
CoordinatesInBaseField ==
  op = "proof" /\ output # None /\ ProofInField(BaseModulus) =>
    output.ok \/ output.code # "INVALID_PROOF_FORMAT"

=============================================================================
