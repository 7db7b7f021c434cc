SPECIFICATION TimerSpec
CONSTANTS
  Channels = {"ch"}
  Amounts = {1}
  Calls = {"c1", "c2"}
  Typical = 1
  Multiplier = 1
  Lossy = {"c1"}
  Droppable = {"c2"}
  Prompt = FALSE
  SubmitBound = 0
  ResolveBound = 0
  PublishBound = 0
INVARIANTS TypeOK NoMissedEvent ResultTellsEffect LeftBehind
PROPERTIES AwaitReturns CallsReturn ImplementsAtomicLedger
