\* Two threads and every interleaving of their calls.
SPECIFICATION Spec
CONSTANTS
  f1 = f1
  f2 = f2
  f3 = f3
  a1 = a1
  a2 = a2
  b1 = b1
  b2 = b2
  c1 = c1
  Threads = {t1, t2}
  Files = {f1, f2}
  Nodes = {a1, a2, b1}
  FileOf <- TwoAndOne
  Capacity = 2
  MaxCalls = 4
SYMMETRY ThreadSymmetry
INVARIANTS
  CountExact
  OnlyGetRaises
CHECK_DEADLOCK FALSE
