-------------------------- MODULE MCRegistryClient --------------------------
(* A small instance of RegistryClient for TLC.                             *)
EXTENDS RegistryClient, TLC

CONSTANTS c1, c2  \* circuits

Key(len, curve, circuit) == [icLen |-> len, onCurve |-> curve, circuit |-> circuit]

\* A usable key, one off the curve, and one with no ic point.
MCKeys == {Key(2, TRUE, c1), Key(2, FALSE, c2), Key(0, TRUE, c1)}

Entry(id, points, circuit) ==
  [id |-> id, points |-> points, inputs |-> 1, proves |-> circuit]

MCItem == {Entry(1, "valid", c1), Entry(2, "valid", c1), Entry(2, "offCurve", c1),
           Entry(1, "badLength", c1)}

Single(item, bundle) == [op |-> "verify_proof", items |-> <<item>>, bundle |-> bundle]

Batch(items) == [op |-> "verify_batch", items |-> items, bundle |-> "none"]

\* Requests that are refused, a single proof, and a batch over two circuits.
MCRequest ==
  {Single(Entry(1, "valid", c1), "elsewhere"), Single(Entry(1, "badLength", c1), "none"),
   Single(Entry(2, "offCurve", c1), "here"), Batch(<<>>),
   Batch(<<Entry(1, "valid", c1), Entry(2, "valid", c1)>>)}

\* Admins and signers are told apart only by what they did.
AddressSymmetry == Permutations(Address)

=============================================================================
