SPECIFICATION FairSpec
CONSTANTS
  VOICE_COUNT = 1
  CHANNEL_WORDS = 2
  FIFO_HOLDS = 5
  WRITES_PER_TICK = 3
  POPS = 2
  PER_PASS = 1
  Notes = {n1, n2}
  Rest = Rest
  MaxAsks = 3
INVARIANTS NothingDropped KnownIsTrue NoteOnLandsTogether
PROPERTIES StageLands ChipFollowsImage
