\* A coordinate between the two moduli.
SPECIFICATION JourneySpec
CONSTANTS
  Radix = 2
  WordLen = 4
  U32Len = 2
  ScalarModulus = 11
  BaseModulus = 13
  ProofRequest <- MCProofRequest
  KeyRequest <- MCKeyRequest
  Genuine <- MCGenuine
  Ledger = {0, 1, 2}
  None = None
  Fraction = Fraction
INVARIANTS CoordinatesInBaseField
CHECK_DEADLOCK FALSE
