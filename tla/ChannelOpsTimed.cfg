SPECIFICATION Spec
CONSTANTS
  Channels = {"ch"}
  Amounts = {1, 2}
  Calls = {"c1", "c2"}
  Typical = 2
  Multiplier = 2
  Lossy = {"c1"}
  Droppable = {"c2"}
  Prompt = TRUE
  SubmitBound = 1
  ResolveBound = 1
  PublishBound = 1
INVARIANT PromptNeverTimesOut
