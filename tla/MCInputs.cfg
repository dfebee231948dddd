SPECIFICATION InputsSpec
CONSTANTS
  DataBytes = {0, 1}
  SYSEX_MAX = 1
  SILENCES = 2
  MaxWire = 5
  LINE_MAX_BYTES = 4
  OUT_LINE_BYTES = 2
  HISTORY_LEN = 1
  MAX_CANDIDATES = 2
  SCROLLBACK_LINES = 2
  SCROLLBACK_BYTES = 5
  ROWS = 3
  MIN_ROWS = 3
  Commands <- CommandTexts
  Words <- WordTexts
  Keys = {"x", "space", "lead", "enter", "backspace", "tab", "ctrl_a", "ctrl_c", "ctrl_u", "ctrl_w"}
  Params = {3, 5, 6}
  MaxLines = 4
  MaxPrints = 3
CHECK_DEADLOCK FALSE
INVARIANTS CursorNeverInsideCharacter ScreenMatchesView LinesAsPrinted
PROPERTIES DeliversTheWire
