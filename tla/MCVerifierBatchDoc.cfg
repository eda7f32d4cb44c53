\* The doc of verify_batch says one invalid proof never fails the call.
SPECIFICATION Spec
CONSTANTS
  Address = {a, b, c}
  NoAddr = NoAddr
  CallerArg = {a}
  NomineeArg = {a, b, c}
  ListedArg = {a}
  MaxCallsArg = {1, 2}
  WindowArg = {1, 3}
  Vk <- MCOneKey
  Item <- MCEveryItem
  c1 = c1
  c2 = c2
  Circuit <- MCCircuit
  Wasm = {w1, w2}
  U32Max = 9
  MinTtl = 1
  MaxTtl = 9
  MaxLedger = 1
  MaxBatch = 2
INVARIANTS BatchNeverFails

CHECK_DEADLOCK FALSE
