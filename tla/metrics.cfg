CONSTANTS
  c1 = c1
  c2 = c2
  u1 = u1
  u2 = u2
  p1 = p1
  p2 = p2
  User <- MCUser
  Publisher <- MCPublisher
  Detail <- MCDetail
  TimeOf <- MCTimeOf
  DAY = 10
  PLANCK = 10000
  TOP = 20
  SHOWN_EPOCHS = 30
  EpochLengths <- MCEpochLengths
  Chain <- MCChain
  Campaign <- MCCampaign
  FirstHead = 5
  StartBlocks <- MCStartBlocks
  BACKFILL_DEPTH = 4
  CHUNK_SIZE = 3
  MAX_SPLITS = 2
  STAMP_BATCH = 3
  MaxHead = 6
  MaxFaults = 0
  MaxNulls = 1
  MaxCrashes = 1
SPECIFICATION ServerSpec
INVARIANT AnswersAddUp
