------------------------------ MODULE Poseidon ------------------------------
(***************************************************************************)
(* poseidon() of the SDK (sdk/src/poseidon.ts): the hash behind every      *)
(* commitment the demo and the CLI make.  The code runs the optimised      *)
(* permutation, where the round constants have been moved ahead and the    *)
(* matrix of a partial round is sparse, over tables it reads from          *)
(* circomlibjs by index arithmetic; it must give what the plain            *)
(* permutation gives, which is the one the circuits constrain.             *)
(*                                                                         *)
(* Arrays are functions on 0..n-1, as in the code.  The field is any prime *)
(* field, and the tables are external.                                     *)
(***************************************************************************)
EXTENDS Integers, Sequences

CONSTANTS Modulus,        \* BN254_SCALAR_MODULUS
          FullRounds,     \* N_ROUNDS_F: 8
          PartialRounds,  \* N_ROUNDS_P, by number of inputs
          C, S, M, P,     \* the tables of circomlibjs, by number of inputs
          RoundConstants, \* the constants of the plain permutation
          Argument,       \* arguments tried
          NotBigint,      \* an element that is no bigint
          NotArray,       \* an argument that is no array
          Invalid,        \* the error INVALID_PUBLIC_INPUT
          None            \* an absent value

MaxInputs == Len(PartialRounds)

Half == FullRounds \div 2

ASSUME PoseidonAssumption ==
  /\ Modulus \in Nat \ {0, 1}
  /\ FullRounds \in Nat /\ FullRounds = 2 * Half /\ Half > 0
  /\ PartialRounds \in Seq(Nat)

\* The tables are long enough for the rounds, and bigints are numbers.
ASSUME TablesAssumption ==
  /\ \A w \in 1..MaxInputs :
       /\ \A i \in 0..(FullRounds * (w + 1) + PartialRounds[w] - 1) : C[w][i] \in Int
       /\ \A i \in 0..((w * 2 + 1) * PartialRounds[w] - 1) : S[w][i] \in Int
       /\ \A row, column \in 0..w : M[w][row][column] \in Int /\ P[w][row][column] \in Int
  /\ \A x \in Argument \ {NotArray} :
       \A i \in 1..Len(x) : x[i] = NotBigint \/ x[i] \in Int

VARIABLES inputs,  \* the argument of the call
          state,   \* the state of the permutation, once the inputs are absorbed
          round,   \* rounds done, of all three kinds
          output,  \* None, the hash, or the error thrown
          readC,   \* history: the constants read from C
          readS    \* history: the constants read from S

vars == <<inputs, state, round, output, readC, readS>>

-----------------------------------------------------------------------------
(* The field.                                                              *)

Field == 0..(Modulus - 1)

\* mod, whose result is never negative; TLA+'s remainder is not either.
Mod(value) == value % Modulus

Add(a, b) == Mod(a + b)

Mul(a, b) == Mod(a * b)

Pow5(value) ==
  LET squared == Mul(value, value)
  IN  Mul(value, Mul(squared, squared))

\* The sum of the first k values of f.
Total(f, k) ==
  LET sum[i \in 0..k] == IF i = 0 THEN 0 ELSE Add(sum[i - 1], f[i - 1])
  IN  sum[k]

-----------------------------------------------------------------------------
(* The steps of a round, on the state of a call with w inputs.             *)

Mix(w, matrix, st) ==
  [column \in 0..w |->
     Total([row \in 0..w |-> Mul(matrix[row][column], st[row])], w + 1)]

SboxAll(st) == [index \in DOMAIN st |-> Pow5(st[index])]

\* Mutant: the first element is replaced before the others have used it.
MixSparseEager(w, base, st) ==
  LET s0 == Total([index \in 0..w |-> Mul(S[w][base + index], st[index])], w + 1)
  IN  [k \in 0..w |-> IF k = 0 THEN s0 ELSE Add(st[k], Mul(s0, S[w][base + w + k]))]

\* The sparse matrix of a partial round: 2w + 1 constants of S from `base` on.
MixSparse(w, base, st) ==
  LET s0 == Total([index \in 0..w |-> Mul(S[w][base + index], st[index])], w + 1)
  IN  [k \in 0..w |-> IF k = 0 THEN s0 ELSE Add(st[k], Mul(st[0], S[w][base + w + k]))]

\* The state the inputs make: reduced to the field, after a zero.
Absorbed(args) ==
  [index \in 0..Len(args) |-> IF index = 0 THEN 0 ELSE Mod(args[index])]

-----------------------------------------------------------------------------
(* One call, for t - 1 inputs.                                             *)

n == Len(inputs)
t == n + 1
Slots == 0..(t - 1)

\* Mutant: the sum is not reduced.
AddFromUnreduced(base, st) == [index \in Slots |-> st[index] + C[n][base + index]]

\* A state whose constants start at index `base` of C.
AddFrom(base, st) == [index \in Slots |-> Add(st[index], C[n][base + index])]

\* A table is read at `count` indices from `base` on.
Touch(h, base, count) ==
  [count |-> h.count + count, at |-> h.at \cup base..(base + count - 1)]

Accepted ==
  /\ inputs # NotArray
  /\ Len(inputs) \in 1..MaxInputs
  /\ \A i \in 1..Len(inputs) : inputs[i] # NotBigint

Init ==
  /\ inputs \in Argument
  /\ state = <<>> /\ round = 0 /\ output = None
  /\ readC = [count |-> 0, at |-> {}] /\ readS = readC

Refuse ==
  /\ output = None
  /\ ~Accepted
  /\ output' = Invalid
  /\ UNCHANGED <<inputs, state, round, readC, readS>>

\* normalizeInput, and the first constants.
Absorb ==
  /\ output = None /\ state = <<>>
  /\ Accepted
  /\ state' = AddFrom(0, Absorbed(inputs))
  /\ readC' = Touch(readC, 0, t)
  /\ UNCHANGED <<inputs, round, output, readS>>

Running == state # <<>> /\ output = None

\* A round on all of the state: its constants start at `base`.
FullRound(base, matrix) ==
  /\ state' = Mix(n, matrix, AddFrom(base, SboxAll(state)))
  /\ readC' = Touch(readC, base, t)
  /\ round' = round + 1
  /\ UNCHANGED <<inputs, output, readS>>

\* Mutant: the constants of the inputs are added once more.
FirstRoundOffset ==
  /\ Running /\ round < Half - 1
  /\ FullRound(round * t, M[n])

FirstRound ==
  /\ Running /\ round < Half - 1
  /\ FullRound((round + 1) * t, M[n])

\* The last full round of the first half, which prepares the sparse ones.
MiddleRound ==
  /\ Running /\ round = Half - 1
  /\ FullRound(Half * t, P[n])

\* A round on the first element only, with a sparse matrix: 2t - 1 constants of S.
PartialRound ==
  LET r     == round - Half
      base  == (t * 2 - 1) * r
      first == Add(Pow5(state[0]), C[n][(Half + 1) * t + r])
  IN  /\ Running /\ r \in 0..(PartialRounds[n] - 1)
      /\ state' = MixSparse(n, base, [state EXCEPT ![0] = first])
      /\ readC' = Touch(readC, (Half + 1) * t + r, 1)
      /\ readS' = Touch(Touch(readS, base, t), base + t, t - 1)
      /\ round' = round + 1
      /\ UNCHANGED <<inputs, output>>

SecondRound ==
  LET r == round - Half - PartialRounds[n]
  IN  /\ Running /\ r \in 0..(Half - 2)
      /\ FullRound((Half + 1) * t + PartialRounds[n] + r * t, M[n])

\* The last round adds no constants.
LastRound ==
  /\ Running /\ round = FullRounds + PartialRounds[n] - 1
  /\ state' = Mix(n, M[n], SboxAll(state))
  /\ output' = state'[0]
  /\ round' = round + 1
  /\ UNCHANGED <<inputs, readC, readS>>

Next ==
  Refuse \/ Absorb \/ FirstRound \/ MiddleRound \/ PartialRound \/ SecondRound \/ LastRound

Spec == Init /\ [][Next]_vars

-----------------------------------------------------------------------------
(* Properties.                                                             *)

Hashed == state # <<>> /\ output # None

\* A call in progress has a state of one element more than its inputs, all of
\* them in the field, and its rounds are counted up to the last.
TypeOK ==
  /\ inputs \in Argument
  /\ output \in Field \cup {None, Invalid}
  /\ state # <<>> => /\ Accepted
                     /\ state \in [Slots -> Field]
                     /\ round \in 0..(FullRounds + PartialRounds[n])

\* A round of the permutation as it is defined: constants for the whole state,
\* the S-box on all of it or on its first element, and the matrix.
PlainRound(w, r, st) ==
  LET keyed == [i \in 0..w |-> Add(st[i], RoundConstants[w][r][i])]
      full  == r < Half \/ r >= Half + PartialRounds[w]
  IN  Mix(w, M[w], IF full THEN SboxAll(keyed) ELSE [keyed EXCEPT ![0] = Pow5(@)])

\* Its state after each round.
Plain(args) ==
  LET w == Len(args)
      st[r \in 0..(FullRounds + PartialRounds[w])] ==
        IF r = 0 THEN Absorbed(args) ELSE PlainRound(w, r - 1, st[r - 1])
  IN  st

Reference == Plain(inputs)[FullRounds + PartialRounds[n]][0]

\* The optimised rounds compute the plain permutation, of the inputs reduced to
\* the field, however many there are and whatever their sign and size: a
\* commitment made by the SDK is the one the circuit accepts.
HashIsPoseidon == Hashed => output = Reference

InOrder(read) == read.at = 0..(read.count - 1)

\* The offsets of the five kinds of rounds tile the tables: each constant is
\* read once, in order, none past the end, and all of them by the end.
ConstantsOnce ==
  /\ InOrder(readC) /\ InOrder(readS)
  /\ Hashed => /\ readC.count = FullRounds * t + PartialRounds[n]
               /\ readS.count = (t * 2 - 1) * PartialRounds[n]

-----------------------------------------------------------------------------
(* The inductive strengthening of ConstantsOnce.                           *)

\* How many constants of C have been read after `round` rounds: a row for the
\* inputs and for each full round but the last, one for each partial round.
CursorC ==
  LET partial == round - Half
      second  == partial - PartialRounds[n]
  IN  IF round <= Half THEN (round + 1) * t
      ELSE IF second < 0 THEN (Half + 1) * t + partial
      ELSE IF second < Half THEN (Half + 1) * t + PartialRounds[n] + second * t
      ELSE FullRounds * t + PartialRounds[n]

\* How many of S.
CursorS ==
  LET partial == round - Half
  IN  IF partial < 0 THEN 0
      ELSE IF partial < PartialRounds[n] THEN (t * 2 - 1) * partial
      ELSE (t * 2 - 1) * PartialRounds[n]

\* The history is in order and as long as the rounds done require.
OrderInv ==
  /\ InOrder(readC) /\ InOrder(readS)
  /\ readC.count \in Nat /\ readS.count \in Nat
  /\ state = <<>> => readC.count = 0 /\ readS.count = 0 /\ round = 0
  /\ state # <<>> => /\ Accepted
                     /\ round \in 0..(FullRounds + PartialRounds[n])
                     /\ readC.count = CursorC /\ readS.count = CursorS
  /\ Hashed => round = FullRounds + PartialRounds[n]

=============================================================================
