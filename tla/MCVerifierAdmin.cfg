\* Administration between verify calls: every key and proof, three addresses.
SPECIFICATION Spec
CONSTANTS
  Address = {a, b, c}
  NoAddr = NoAddr
  CallerArg = {a}
  NomineeArg = {a, b, c}
  ListedArg = {a}
  MaxCallsArg = {1, 2}
  WindowArg = {1, 3}
  Vk <- MCKeys
  Item <- MCEveryItem
  c1 = c1
  c2 = c2
  Circuit <- MCCircuit
  Wasm = {w1, w2}
  U32Max = 2
  MinTtl = 1
  MaxTtl = 2
  MaxLedger = 1
  MaxBatch = 1
INVARIANTS PanicCauses PendingFromAdmin
PROPERTIES HandoffSpec
CHECK_DEADLOCK FALSE
