CONSTANTS
  c1 = c1
  c2 = c2
  c3 = c3
  l1 = l1
  l2 = l2
  Loops <- TwoLoops
  Conns <- ThreeConns
  Home <- HomeOf
  Floor = 2
  Timeout = 5
  Waits = {2, 3}
  MaxTime = 6
SYMMETRY Alike
SPECIFICATION Spec
INVARIANTS NoneOverstays FloorCheckSuffices
PROPERTY CutsOnlyQuietBurst
