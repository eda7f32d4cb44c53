---------------------------- MODULE MCProofCodec ----------------------------
(* A small instance of ProofJourney for TLC: a sound proof and key,        *)
(* and each of them with one coordinate, one array or one input changed.   *)
EXTENDS ProofJourney, TLC

Dec(v) == [kind |-> "decimal", value |-> v]
Hex(v) == [kind |-> "hex", value |-> v]

\* The least and the greatest element of the scalar field, the first number
\* outside it, the greatest of the base field, and the first outside that.
Texts == {Dec(0), Dec(ScalarModulus - 1), Dec(ScalarModulus), Dec(BaseModulus - 1),
          Dec(BaseModulus), Hex(ScalarModulus - 1), Hex(ScalarModulus), Missing}

\* Every coordinate of its own value, and at most one of them replaced.
Values(n) ==
  LET sound == [i \in 1..n |-> Dec(i % ScalarModulus)]
  IN  {sound} \cup {[sound EXCEPT ![i] = t] : i \in 1..n, t \in Texts}

G2(v, i) == <<<<v[i], v[i + 1]>>, <<v[i + 2], v[i + 3]>>, <<Dec(1), Dec(0)>>>>

ProofOf(v, signals, expiry) ==
  [protocol |-> "groth16", a |-> <<v[1], v[2], Dec(1)>>, b |-> G2(v, 3),
   c |-> <<v[7], v[8], Dec(1)>>, signals |-> signals, expiry |-> expiry]

Expiries == {None, Fraction, -1, 0, 1, MaxU32, MaxU32 + 1}

Signals == UNION {[1..n -> Texts] : n \in 0..2}

SoundProof == ProofOf([i \in 1..8 |-> Dec(i)], <<Dec(9)>>, 1)

MCProofRequest ==
  {ProofOf(v, <<Dec(9)>>, e) : v \in Values(8), e \in Expiries}
    \cup {ProofOf([i \in 1..8 |-> Dec(i)], s, e) : s \in Signals, e \in Expiries}
    \cup {[SoundProof EXCEPT !.protocol = "plonk"], [SoundProof EXCEPT !.a = <<Dec(1)>>],
          [SoundProof EXCEPT !.b = <<<<Dec(1), Dec(2)>>>>],
          [SoundProof EXCEPT !.b = <<<<Dec(1)>>, <<Dec(2), Dec(3)>>>>],
          [SoundProof EXCEPT !.c = <<>>]}

\* The sound proof, and one with 0 for a coordinate, which is also what snarkjs
\* makes of BaseModulus.
MCGenuine ==
  {[a |-> <<1, 2>>, b |-> <<3, 4, 5, 6>>, c |-> <<7, 8>>, signal |-> 9],
   [a |-> <<0, 2>>, b |-> <<3, 4, 5, 6>>, c |-> <<7, 8>>, signal |-> 9]}

KeyOf(v, n) ==
  [protocol |-> "groth16", alpha |-> <<v[1], v[2]>>, beta |-> G2(v, 3),
   gamma |-> G2(v, 7), delta |-> G2(v, 11),
   ic |-> [i \in 1..n |-> <<v[13 + 2 * i], v[14 + 2 * i]>>]]

SoundKey == KeyOf([i \in 1..18 |-> Dec(i % ScalarModulus)], 2)

MCKeyRequest ==
  {KeyOf(v, n) : v \in Values(18), n \in 0..2}
    \cup {[SoundKey EXCEPT !.protocol = "plonk"], [SoundKey EXCEPT !.alpha = <<>>],
          [SoundKey EXCEPT !.gamma = <<<<Dec(1), Dec(2)>>>>],
          [SoundKey EXCEPT !.delta = <<<<Dec(1)>>, <<Dec(2), Dec(3)>>>>],
          [SoundKey EXCEPT !.ic = <<<<Dec(1)>>>>]}

=============================================================================
