SPECIFICATION PixSpec
CONSTANTS
  NodeRange <- MCNodeRange
  Policy <- MCPolicy
  Asked <- MCAsked
  Ids <- MCIds
  Batches = {"b1", "b2"}
  Native = {"b1"}
  Requests <- MCRequests
  MaxItems = 2
  Funds = 4
  Initial <- MCInitial
INVARIANTS AdmissionTypeOK AdmittedOnTerms TypeOK ReceiptsAccountForFunds DepositedOnce
PROPERTIES ReturnedIsFinal BatchesReturn
CHECK_DEADLOCK FALSE
