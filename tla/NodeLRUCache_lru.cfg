\* One thread: the cache is an LRU cache.
SPECIFICATION Spec
CONSTANTS
  f1 = f1
  f2 = f2
  f3 = f3
  a1 = a1
  a2 = a2
  b1 = b1
  b2 = b2
  c1 = c1
  Threads = {t1}
  Files = {f1, f2, f3}
  Nodes = {a1, a2, b1, b2, c1}
  FileOf <- TwoTwoOne
  Capacity = 3
  MaxCalls = 5
PROPERTIES
  ImplementsLRU
CHECK_DEADLOCK FALSE
