\* One call that only simulates, while the contract is used and administered.
SPECIFICATION ViewsSpec
CONSTANTS
  a = a
  c1 = c1
  Address = {a}
  NoAddr = NoAddr
  CallerArg = {a}
  NomineeArg = {}
  ListedArg = {}
  MaxCallsArg = {1, 2}
  WindowArg = {2}
  Vk <- MCKeys
  Item <- MCItem
  Circuit = {c1}
  Wasm = {w1, w2}
  U32Max = 3
  MinTtl = 0
  MaxTtl = 3
  MaxLedger = 3
  MaxBatch = 0
  Session = {s1}
  Request <- MCRequest
  None = None
INVARIANTS ViewsTypeOK EstimateCovers
CHECK_DEADLOCK FALSE
