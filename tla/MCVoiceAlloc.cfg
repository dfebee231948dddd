SPECIFICATION Spec
CONSTANTS
  VOICE_COUNT = 3
  Notes = {n1, n2}
  MaxStrikes = 5
  NoNote = NoNote
SYMMETRY NoteSymmetry
INVARIANTS KeysHoldVoices NoStuckNote
PROPERTIES StealsOnlyWhenAllHeld ImplementsKeystrokes
