\* A field of 13 elements, 6 full rounds, 3 or 2 partial ones, 0 to 3 inputs.
SPECIFICATION Spec
CONSTANTS
  Modulus = 13
  FullRounds = 6
  PartialRounds <- MCPartialRounds
  C <- MCC
  S <- MCS
  M <- MCM
  P <- MCP
  RoundConstants <- MCRoundConstants
  Ahead <- MCAhead
  Dense <- MCDense
  Argument <- MCArgument
  NotBigint = NotBigint
  NotArray = NotArray
  Invalid = Invalid
  None = None
INVARIANTS TypeOK HashIsPoseidon ConstantsOnce
CHECK_DEADLOCK FALSE
