SPECIFICATION Spec
CONSTANTS
  Texts = {t1, t2, t3}
  None = None
  CutShort = CutShort
INVARIANTS SavedIsAlwaysKept
