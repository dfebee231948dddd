SPECIFICATION Spec
CONSTANTS
  Set = {1, 2}
  Counter = 3
  CAPACITY = 2
  ATTEMPTS = 3
  MaxLosses = 3
INVARIANTS RunsWholeProgram ReleasedAsSent NothingLeftOver SelfTestIsItsOwn OneTransaction
