\* Bytes of 2 values, words of 4 bytes, ledger numbers of 2, moduli 11 and 13.
SPECIFICATION JourneySpec
CONSTANTS
  Radix = 2
  WordLen = 4
  U32Len = 2
  ScalarModulus = 11
  BaseModulus = 13
  ProofRequest <- MCProofRequest
  KeyRequest <- MCKeyRequest
  Genuine <- MCGenuine
  Ledger = {0, 1, 2}
  None = None
  Fraction = Fraction
INVARIANTS PointsDelivered InputsDelivered KeyDelivered RefusalNamesPart Agreement
CHECK_DEADLOCK FALSE
