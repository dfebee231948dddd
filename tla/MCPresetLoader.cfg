SPECIFICATION FairSpec
CONSTANTS
  Parts = {osc, filter}
  Programs = {p1, p2, p3}
  Missing = {p3}
  Edited = edited
  Startup = startup
  Loads = {startup}
  QUEUE_LENGTH = 2
  PROGRAM_QUEUE_LENGTH = 2
  MaxEvents = 4
INVARIANTS SoundFollowsPreset RequestsHaveWaiters LastProgramWins
PROPERTIES RequestersReturn
