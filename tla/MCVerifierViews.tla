-------------------------- MODULE MCVerifierViews --------------------------
(* A small instance of VerifierViews for TLC.                              *)
EXTENDS VerifierViews

CONSTANTS a,  \* the caller, and the admin
          c1  \* the circuit of the keys

MCKeys == {[icLen |-> 2, onCurve |-> TRUE, circuit |-> c1],
           [icLen |-> 2, onCurve |-> FALSE, circuit |-> c1]}

Proof(points, expiry) ==
  [points |-> points, inputs |-> 2, expiry |-> expiry, proves |-> c1]

MCItem == {Proof("valid", 0), Proof("valid", MaxLedger), Proof("badLength", MaxLedger)}

EstimateOf(item, bundle) ==
  [op |-> "estimate", caller |-> a, item |-> item, bundle |-> bundle]

MCRequest ==
  {EstimateOf(Proof("valid", 0), "here"), EstimateOf(Proof("valid", MaxLedger), "elsewhere"),
   EstimateOf(Proof("valid", MaxLedger), "none"),
   EstimateOf(Proof("badLength", MaxLedger), "none"),
   [op |-> "get_config"], [op |-> "version"]}

=============================================================================
