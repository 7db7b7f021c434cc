SPECIFICATION QueriesSpec
CONSTANTS
  Addresses <- MCAddresses
  Times <- MCTimesMore
  Ids <- MCIdsMore
  Requests <- MCQueryRequests
  Me = "me"
  Redeemers = {"r1"}
  Grace = 1
  Notice = 1
  Values = {1}
  MaxIndex = 0
INVARIANTS QueryMissesNothing QueryFindsWanted
CHECK_DEADLOCK FALSE
