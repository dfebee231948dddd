SPECIFICATION CrossingSpec
CONSTANTS
  DEPTH = 4
  DROPPED_MAX = 0
  Dwords = {d1, d2}
  Zero = Zero
  POINTER_W = 5
SYMMETRY DwordSymmetry
PROPERTIES EveryPopTakesHead
