\* One call against a key, limits and ledgers that change under it.
SPECIFICATION ClientSpec
CONSTANTS
  a = a
  c1 = c1
  Address = {a}
  NoAddr = NoAddr
  CallerArg = {a}
  NomineeArg = {}
  ListedArg = {}
  MaxCallsArg = {0, 1}
  WindowArg = {2}
  Vk <- MCBothKeys
  Item <- MCItem
  Circuit = {c1}
  Wasm = {w1}
  U32Max = 3
  MinTtl = 1
  MaxTtl = 3
  MaxLedger = 2
  MaxBatch = 2
  Session = {s1}
  Request <- MCRequest
  Stamp = {0}
  None = None
  PollLimit = 2
INVARIANTS FailureMeansChange
PROPERTIES CallSettles
CHECK_DEADLOCK FALSE
