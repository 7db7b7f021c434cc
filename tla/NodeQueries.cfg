SPECIFICATION Spec
CONSTANTS
  Addresses <- MCAddresses
  Times <- MCTimes
  OffchainKeys = {"k1"}
  ServiceTypes = {"exit", "rpc"}
  Ids <- MCIds
  Calls <- MCCalls
  Safes <- MCSafes
INVARIANTS TypeOK QueriesMissNothing QueriesFindWanted
