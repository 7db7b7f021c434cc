SPECIFICATION Spec
CONSTANTS
  One = 2
  Floor = 1
  Word = 4
  Edges <- MCEdges
  MaxLength = 3
  Overrun = 1
  Parameters <- MCParameters
  FaceValues <- MCFaceValues
INVARIANT PenaltyPrunesNothing
CHECK_DEADLOCK FALSE
