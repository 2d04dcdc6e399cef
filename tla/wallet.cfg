SPECIFICATION FairSpec
CONSTANTS
  k1 = k1
  k2 = k2
  k3 = k3
  w1 = w1
  Click = {k1, k2, k3}
  SessionOf <- MCSessionOf
  Mortal = {k2}
  Withdrawal = {w1}
  AuthOf <- MCAuthOf
  Settlement = Settlement
  CLICK_BATCH_SIZE = 2
  MaxTroubles = 1
INVARIANTS
  TypeOK
  ClickInOnePlace
  LeavesRecorded
  ResentAfterFailure
  AnswerMatchesChain
PROPERTY ClicksLeave
