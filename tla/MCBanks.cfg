SPECIFICATION BanksSpec
CONSTANTS
  p = p
  q = q
  Presets = {p, q}
  Folder <- MCFolder
  Numbers = {0, 1}
  MAX_PROGRAMS = 2
  MaxEdits = 3
  Texts <- Maps
  None = None
  CutShort = CutShort
INVARIANTS NeverOlder BanksKept ProgramsAreFound
PROPERTIES ImplementsAtomicFile
