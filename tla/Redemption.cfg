SPECIFICATION Spec
CONSTANTS
  Addresses <- MCAddresses
  Times <- MCTimes
  Ids <- MCIds
  Requests <- MCNodeRequests
  Me = "me"
  Redeemers = {"r1", "r2"}
  Grace = 1
  Notice = 1
  Values = {1, 2}
  MaxIndex = 2
INVARIANTS TypeOK ReportsAreTrue
CHECK_DEADLOCK FALSE
