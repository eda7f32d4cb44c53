\* The results of one batch whose answer may lack its diagnostic events.
SPECIFICATION ClientSpec
CONSTANTS
  a = a
  c1 = c1
  Address = {a}
  NoAddr = NoAddr
  CallerArg = {a}
  NomineeArg = {}
  ListedArg = {}
  MaxCallsArg = {0, 1}
  WindowArg = {2}
  Vk <- MCKeys
  Item <- MCItem
  Circuit = {c1}
  Wasm = {w1}
  U32Max = 3
  MinTtl = 1
  MaxTtl = 3
  MaxLedger = 2
  MaxBatch = 2
  Session = {s1}
  Request <- MCRequest
  Stamp = {0}
  None = None
  PollLimit = 2
INVARIANTS BatchResultComplete
CHECK_DEADLOCK FALSE
