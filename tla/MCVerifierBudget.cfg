\* The call budget: two callers, windows of 2 and 3 ledgers, limits that change.
SPECIFICATION Spec
CONSTANTS
  Address = {a, b}
  NoAddr = NoAddr
  CallerArg = {a, b}
  NomineeArg = {}
  ListedArg = {}
  MaxCallsArg = {1, 2}
  WindowArg = {0, 2, 3}
  Vk <- MCOneKey
  Item <- MCBudgetItem
  c1 = c1
  c2 = c2
  Circuit <- MCCircuit
  Wasm = {w1}
  U32Max = 4
  MinTtl = 1
  MaxTtl = 9
  MaxLedger = 3
  MaxBatch = 2
SYMMETRY AddressSymmetry
INVARIANTS TypeOK RateLimit RateExact BatchByPosition
CHECK_DEADLOCK FALSE
