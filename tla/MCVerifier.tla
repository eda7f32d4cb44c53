----------------------------- MODULE MCVerifier -----------------------------
(* Small instances of Verifier for TLC: the keys and proofs the runs try.  *)
EXTENDS Verifier, TLC

CONSTANTS c1, c2  \* circuits

MCCircuit == {c1, c2}

Key(len, curve, circuit) == [icLen |-> len, onCurve |-> curve, circuit |-> circuit]

MCOneKey == {Key(2, TRUE, c1)}

\* Two usable keys, one that is too short and one that is off the curve.
MCKeys == {Key(2, TRUE, c1), Key(2, TRUE, c2), Key(1, TRUE, c1), Key(2, FALSE, c1)}

Proof(points, inputs, expiry, circuit) ==
  [points |-> points, inputs |-> inputs, expiry |-> expiry, proves |-> circuit]

\* A proof of c1 good for ever and one good until ledger 1.
MCBudgetItem == {Proof("valid", 2, MaxLedger, c1), Proof("valid", 2, 1, c1)}

\* One proof for each early return and each panic of verify_one.
MCEveryItem == {Proof("valid", 2, MaxLedger, c1), Proof("valid", 2, MaxLedger, c2),
                Proof("valid", 2, 0, c1), Proof("valid", 1, 0, c1),
                Proof("valid", 2, NotU32, c1), Proof("badLength", 2, MaxLedger, c1),
                Proof("offCurve", 2, MaxLedger, c1), Proof("offCurve", 2, 0, c1)}

\* Addresses are told apart only by the roles a run gives them.
AddressSymmetry == Permutations(Address)

=============================================================================
