SPECIFICATION FairSpec
CONSTANTS
  Addresses <- MCAddresses
  Times <- MCTimesStill
  Ids <- MCIdsMore
  Requests <- MCNodeRequests
  Me = "me"
  Redeemers = {"r1", "r2"}
  Grace = 1
  Notice = 1
  Values = {1}
  MaxIndex = 1
INVARIANTS OkDrains ReportsAreTrue
PROPERTY RedeemersReturn
CHECK_DEADLOCK FALSE
