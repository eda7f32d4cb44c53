----------------------------- MODULE MCPoseidon -----------------------------
(***************************************************************************)
(* A small instance of Poseidon for TLC.  The tables are derived from the  *)
(* constants of the plain permutation the way the optimised ones of        *)
(* circomlibjs are: constants move back through the linear layer, and the  *)
(* matrix of a partial round splits into a sparse and a dense factor, the  *)
(* dense one moving to the round before.                                   *)
(***************************************************************************)
EXTENDS PoseidonTables, TLC

MCPartialRounds == <<3, 2>>

Dims(w) == 0..(w - 1)

\* f, evaluated once and for all.
Table(f) == f @@ <<>>

\* The matrix of the plain permutation: a Cauchy matrix of small numbers.
Inverse(x) == CHOOSE y \in Field : Mul(x, y) = 1

Mds(w) == Table([i \in Dims(w) |-> Table([j \in Dims(w) |-> Inverse(i + w + j)])])

Constant(w, r) == [i \in Dims(w) |-> Mod(1 + 3 * r + 5 * i * r + i + w)]

-----------------------------------------------------------------------------
(* Linear algebra over the field, on vectors and matrices indexed from lo. *)

Dot(u, v, I) ==
  LET sum[J \in SUBSET I] ==
        IF J = {} THEN 0
        ELSE LET i == CHOOSE i \in J : TRUE IN Add(sum[J \ {i}], Mul(u[i], v[i]))
  IN  sum[I]

Apply(A, v, I) == Table([i \in I |-> Dot(A[i], v, I)])

Unit(j, I) == [i \in I |-> IF i = j THEN 1 ELSE 0]

Solve(A, v, I) == CHOOSE x \in [I -> Field] : Apply(A, x, I) = v

Transpose(A, I) == Table([i \in I |-> Table([j \in I |-> A[j][i]])])

Inverted(A, I) == Transpose([j \in I |-> Solve(A, Unit(j, I), I)], I)

Times(A, B, I) == [i \in I |-> Apply(Transpose(B, I), A[i], I)]

-----------------------------------------------------------------------------
(* The derivation, for w = inputs + 1.                                     *)

Rp(w) == MCPartialRounds[w - 1]

Back(w, v) == Solve(Mds(w), v, Dims(w))

\* acc[r]: what is left to add before partial round r, for the constants of
\* that round and of all later ones that could be moved ahead.
Moved(w) ==
  LET acc[r \in 0..Rp(w)] ==
        IF r = Rp(w) THEN Constant(w, Half + r)
        ELSE LET v == Back(w, acc[r + 1])
             IN  [i \in Dims(w) |->
                    Add(Constant(w, Half + r)[i], IF i = 0 THEN 0 ELSE v[i])]
  IN  acc

\* The dense factor of A: the identity in its first row and column.
Factor(A, I) ==
  [i \in I |-> [j \in I |->
     IF i = 0 \/ j = 0 THEN (IF i = j THEN 1 ELSE 0) ELSE A[i][j]]]

\* whole[r]: the matrix applied before partial round r.  The one of round r + 1
\* is its sparse factor, which stays in round r, times its dense factor, which
\* moves back through that round to the plain matrix before it.
Whole(w) ==
  LET I == Dims(w)
      whole[r \in 0..Rp(w)] ==
        IF r = Rp(w) THEN Mds(w) ELSE Times(Factor(whole[r + 1], I), Mds(w), I)
  IN  whole

Factors(w) ==
  LET I == Dims(w)
      whole == Whole(w)
  IN  Table([r \in 0..Rp(w) |->
         IF r = Rp(w) THEN [j \in I |-> Unit(j, I)]
         ELSE Transpose(Factor(whole[r + 1], I), I)])

\* The 2w - 1 numbers of the sparse matrix of partial round r: its first row,
\* then its first column below that.
Sparse(w, r) ==
  LET D == Dims(w) \ {0}
      A == Whole(w)[r + 1]
      hat == Inverted([i \in D |-> [j \in D |-> A[i][j]]], D)
  IN  Table([index \in 0..(2 * w - 2) |->
         IF index = 0 THEN A[0][0]
         ELSE IF index < w THEN Dot([j \in D |-> A[0][j]], [j \in D |-> hat[j][index]], D)
         ELSE A[index - w + 1][0]])

OptC(w) ==
  LET moved == Moved(w)
  IN  Table([x \in 0..(FullRounds * w + Rp(w) - 1) |->
         LET i == x % w
             r == x \div w
             y == x - (Half + 1) * w
         IN  IF r = 0 THEN Constant(w, 0)[i]
             ELSE IF r < Half THEN Back(w, Constant(w, r))[i]
             ELSE IF r = Half THEN Back(w, moved[0])[i]
             ELSE IF y < Rp(w) THEN Back(w, moved[y + 1])[0]
             ELSE LET z == y - Rp(w)
                  IN  Back(w, Constant(w, Half + Rp(w) + 1 + z \div w))[z % w]])

OptS(w) ==
  LET rows == Table([r \in 0..(Rp(w) - 1) |-> Sparse(w, r)])
  IN  Table([x \in 0..((2 * w - 1) * Rp(w) - 1) |->
               rows[x \div (2 * w - 1)][x % (2 * w - 1)]])

Constants == <<[r \in 0..12 |-> Constant(2, r)], [r \in 0..12 |-> Constant(3, r)]>>
TableC == <<OptC(2), OptC(3)>>
TableS == <<OptS(2), OptS(3)>>
TableM == <<Transpose(Mds(2), Dims(2)), Transpose(Mds(3), Dims(3))>>
TableP == <<Transpose(Whole(2)[0], Dims(2)), Transpose(Whole(3)[0], Dims(3))>>
TableAhead == <<Moved(2), Moved(3)>>
TableDense == <<Factors(2), Factors(3)>>

\* TLC keeps the value of a definition and not that of a constant.
MCRoundConstants == Constants
MCC == TableC
MCS == TableS
MCM == TableM
MCP == TableP
MCAhead == TableAhead
MCDense == TableDense

\* Numbers below, in and above the field; too few and too many of them; and
\* what is no array or no bigint.
Numbers == {1 - Modulus, -1} \cup 0..Modulus

MCArgument ==
  {<<x>> : x \in Numbers} \cup {<<x, y>> : x \in Numbers, y \in Numbers}
    \cup {<<>>, <<1, 2, 3>>, <<1, NotBigint>>, NotArray}

=============================================================================
