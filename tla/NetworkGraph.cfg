SPECIFICATION FairSpec
CONSTANTS
  One = 4
  Floor = 1
  Word = 4
  Me = "me"
  Paths <- MCPaths
  Judgements <- MCJudgements
  Balances <- MCBalances
  Penalty = 2
  MinAckRate = 1
INVARIANTS TypeOK OutcomesRank ProbedLoopsAreRoutes
PROPERTIES OutcomesPruneNothing SoundPathsRecover BrokenPathsStarve
