\* One call of the SDK, two ids whose keys two admins replace while it runs; batches of two.
SPECIFICATION ClientSpec
CONSTANTS
  Address = {a, b}
  NoAddr = NoAddr
  CircuitId = {1, 2}
  Circuit = {c1, c2}
  c1 = c1
  c2 = c2
  Vk <- MCKeys
  NoVk = NoVk
  Item <- MCItem
  Wasm = {w1}
  MaxBatch = 2
  Session = {s1}
  Request <- MCRequest
SYMMETRY AddressSymmetry
INVARIANTS ClientTypeOK TypeOK PanicCauses SentPanics
PROPERTIES HandoffSpec
CHECK_DEADLOCK FALSE
