-------------------------- MODULE MCVerifierClient --------------------------
(* Small instances of VerifierClient for TLC.                              *)
EXTENDS VerifierClient, TLC

CONSTANTS a,  \* the account both sessions use, and the admin
          c1  \* the circuit of the keys

Key(curve) == [icLen |-> 2, onCurve |-> curve, circuit |-> c1]

MCKeys == {Key(TRUE)}

\* A usable key and one off the curve.
MCBothKeys == {Key(TRUE), Key(FALSE)}

Proof(points, expiry) ==
  [points |-> points, inputs |-> 2, expiry |-> expiry, proves |-> c1]

Lasting == Proof("valid", MaxLedger)
Expiring == Proof("valid", 0)
Malformation == Proof("badLength", MaxLedger)

MCItem == {Lasting, Expiring, Malformation}

Single(item, bundle) ==
  [op |-> "verify_proof", caller |-> a, items |-> <<item>>, bundle |-> bundle]

Batch(items) ==
  [op |-> "verify_batch", caller |-> a, items |-> items, bundle |-> "none"]

\* A batch of which one proof may expire and the other may be over the budget.
MixedBatch == Batch(<<Expiring, Lasting>>)

\* What two sessions of one account get into each other's way with.
MCRacingRequest == {Single(Lasting, "none"), MixedBatch}

MCRequest == {Single(Lasting, "none"), Single(Expiring, "here"),
              Single(Lasting, "elsewhere"), Single(Malformation, "none"),
              Batch(<<>>), MixedBatch}

\* Sessions are told apart only by their requests.
SessionSymmetry == Permutations(Session)

=============================================================================
