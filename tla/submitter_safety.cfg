CONSTANTS
  b1 = b1
  b2 = b2
  b3 = b3
  s1 = s1
  s2 = s2
  MaxTrouble = 2
  Batch = {b1,b2,b3}
  Stream <- MCStream
  StreamOf <- MCStreamOf
  FirstNonce <- MCFirstNonce
  Mortal = {b3}
  o1 = o1
  Other = {o1}
  MaxEvictions = 1
  MaxForeign = 1
  CLAIM_BATCH_SIZE = 2
  MAX_INFLIGHT = 2
  MAX_SUBMIT_RETRIES = 2
  MaxFaults = 1
  MaxCrashes = 1
SPECIFICATION Spec
CONSTRAINT Bounded
INVARIANTS
  TypeOK
  NonceDiscipline
  InflightBound
  EstimatedGroupIsNext
  OneStage
  ArrivalOrderKept
  SubmittedOnce
  NoNonceGap
  ConfirmedWasMined

