SPECIFICATION Spec
CONSTANTS
  NULL = NULL
  k1 = k1
  k2 = k2
  k3 = k3
  k4 = k4
  Keys = {k1, k2, k3, k4}
  Pointers = {v1, v2, v3, v4}
  Addrs = {a1, a2, a3, a4}
  nbucket = 2
  Hash <- MCHash
SYMMETRY Symmetry
INVARIANTS
  CursorsAllocated
  ChainsExact
  ValuesInBounds
PROPERTIES
  ImplementsTable
  FreedWithEntry
CHECK_DEADLOCK FALSE
