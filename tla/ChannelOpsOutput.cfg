SPECIFICATION Spec
CONSTANTS
  Channels = {"ch"}
  Amounts = {1}
  Calls = {"c1", "c2"}
  Typical = 1
  Multiplier = 2
  Lossy = {}
  Droppable = {}
  Prompt = FALSE
  SubmitBound = 0
  ResolveBound = 0
  PublishBound = 0
INVARIANT OutputOfOwnTransaction
