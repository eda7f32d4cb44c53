\* A genuine proof without an expiry.
SPECIFICATION JourneySpec
CONSTANTS
  Radix = 2
  WordLen = 4
  U32Len = 2
  ScalarModulus = 11
  BaseModulus = 13
  ProofRequest <- MCProofRequest
  KeyRequest <- MCKeyRequest
  Genuine <- MCGenuine
  Ledger = {0, 1, 2}
  None = None
  Fraction = Fraction
INVARIANTS ExampleVerifies
CHECK_DEADLOCK FALSE
