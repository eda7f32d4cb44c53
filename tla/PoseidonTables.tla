--------------------------- MODULE PoseidonTables ---------------------------
(***************************************************************************)
(* The tables poseidon.ts reads (external: poseidon_constants_opt.js of    *)
(* circomlibjs), as far as its hash depends on them: how they follow from  *)
(* the round constants and the matrix of the plain permutation.            *)
(*                                                                         *)
(* The constants of a round are stored as what gives them once the matrix  *)
(* of the round before has been applied.  In the partial rounds, where     *)
(* only the first element meets the S-box, the constants of the others are *)
(* moved ahead through the matrices of all the rounds before, and the      *)
(* matrix splits into a sparse factor, applied in the round, and a dense   *)
(* one that leaves the first element alone and moves to the round before.  *)
(***************************************************************************)
EXTENDS Poseidon

CONSTANTS Ahead, \* what is left to add before each partial round, by inputs
          Dense  \* the dense factor left to apply before it, by inputs

Vector(w) == [0..w -> Field]

\* The sum of two states.
Plus(w, x, y) == [i \in 0..w |-> Add(x[i], y[i])]

\* Constants of C for a whole state.
RowOfC(w, base) == [i \in 0..w |-> C[w][base + i]]

\* What partial round r adds to the state that plain constants are added to:
\* its one constant, and what was moved ahead less the constants it is due.
Advance(w, r) ==
  [i \in 0..w |-> IF i = 0 THEN C[w][(Half + 1) * (w + 1) + r]
                  ELSE Ahead[w][r][i] - RoundConstants[w][Half + r][i]]

\* Where the constants of the second half of the full rounds start.
SecondBase(w) == (Half + 1) * (w + 1) + PartialRounds[w]

\* The matrix of the 2w + 1 constants of S from `base` on: its first column, the
\* rest of its first row, and the identity elsewhere.
SparseMatrix(w, base) ==
  [row \in 0..w |-> [column \in 0..w |->
     IF column = 0 THEN S[w][base + row]
     ELSE IF row = 0 THEN S[w][base + w + column]
     ELSE IF row = column THEN 1 ELSE 0]]

ConstantsDerived(w) ==
  LET K     == RoundConstants[w]
      last  == PartialRounds[w]
      Moved(base) == Mix(w, M[w], RowOfC(w, base))
  IN  /\ \A r \in 0..(FullRounds + last - 1) : K[r] \in Vector(w)
      /\ \A r \in 0..last : Ahead[w][r] \in Vector(w)
      /\ \A i \in 0..w : Mod(C[w][i]) = K[0][i]
      /\ \A r \in 1..(Half - 1) : Moved(r * (w + 1)) = K[r]
      /\ Moved(Half * (w + 1)) = Ahead[w][0]
      /\ \A r \in 0..(last - 1) :
           /\ Ahead[w][r][0] = K[Half + r][0]
           /\ Mix(w, M[w], Advance(w, r)) = Ahead[w][r + 1]
      /\ Ahead[w][last] = K[Half + last]
      /\ \A r \in 0..(Half - 2) :
           Moved(SecondBase(w) + r * (w + 1)) = K[Half + last + r + 1]

\* A dense factor is the identity in its first row and column, and the last one
\* is the identity everywhere.
MatricesDerived(w) ==
  LET last == PartialRounds[w]
  IN  /\ \A r \in 0..last, i, j \in 0..w :
           /\ Dense[w][r][i][j] \in Int
           /\ i = 0 \/ j = 0 \/ r = last => Dense[w][r][i][j] = IF i = j THEN 1 ELSE 0
      /\ \A x \in Vector(w) :
           /\ Mix(w, P[w], x) = Mix(w, Dense[w][0], Mix(w, M[w], x))
           /\ \A r \in 0..(last - 1) :
                Mix(w, SparseMatrix(w, (2 * w + 1) * r), Mix(w, Dense[w][r], x))
                  = Mix(w, Dense[w][r + 1], Mix(w, M[w], x))

ASSUME DerivationAssumption ==
  \A w \in 1..MaxInputs : ConstantsDerived(w) /\ MatricesDerived(w)

-----------------------------------------------------------------------------
(* The inductive strengthening of HashIsPoseidon.                          *)

\* What the state is after r rounds, in terms of the plain permutation after as
\* many: what the next round, or all the next partial ones, add to it is added
\* already, and the dense factor is applied.
Optimised(args, r) ==
  LET w       == Len(args)
      plain   == Plain(args)[r]
      partial == r - Half
  IN  IF r = FullRounds + PartialRounds[w] THEN plain
      ELSE IF partial \in 0..(PartialRounds[w] - 1)
        THEN Mix(w, Dense[w][partial], Plus(w, plain, Ahead[w][partial]))
      ELSE Plus(w, plain, RoundConstants[w][r])

HashInv ==
  /\ state # <<>> => state = Optimised(inputs, round)
  /\ Hashed => output = state[0]

=============================================================================
