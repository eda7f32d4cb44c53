\* Two sessions of one account, one of them or both sending a batch.
SPECIFICATION ClientSpec
CONSTANTS
  a = a
  c1 = c1
  Address = {a}
  NoAddr = NoAddr
  CallerArg = {a}
  NomineeArg = {}
  ListedArg = {}
  MaxCallsArg = {1}
  WindowArg = {2}
  Vk <- MCKeys
  Item <- MCItem
  Circuit = {c1}
  Wasm = {w1}
  U32Max = 3
  MinTtl = 1
  MaxTtl = 3
  MaxLedger = 2
  MaxBatch = 2
  Session = {s1, s2}
  Request <- MCRacingRequest
  Stamp = {0}
  None = None
  PollLimit = 2
SYMMETRY SessionSymmetry
INVARIANTS ClientTypeOK ResultIsOnChain RejectedUncharged
CHECK_DEADLOCK FALSE
