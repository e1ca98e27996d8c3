SPECIFICATION FairSpec
CONSTANTS
  w1 = w1
  w2 = w2
  h1 = h1
  h2 = h2
  r1 = r1
  r2 = r2
  NoOp = NoOp
  Writes = {w1, w2}
  Reads = {r1, r2}
  Ops = {h1, h2}
  OpOf <- MCOpOf
  PolicyOf <- MCPolicyOf
  InnerReverts = {h2}
  Limit = 1
  AnswersMayBeLost = TRUE
  RecordMayFail = TRUE
INVARIANTS SettledRowsAreTrue AnsweredIsLogged
PROPERTIES OutcomeIsKept IncludedIsBackfilled ReadsAreAnswered
