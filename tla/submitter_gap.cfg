CONSTANTS
  b1 = b1
  b2 = b2
  b3 = b3
  s1 = s1
  s2 = s2
  MaxTrouble = 9
  Batch = {b1,b2,b3}
  Stream <- MCStream
  StreamOf <- MCStreamOf
  FirstNonce <- MCFirstNonce
  Mortal = {}
  o1 = o1
  Other = {o1}
  MaxEvictions = 1
  MaxForeign = 0
  CLAIM_BATCH_SIZE = 1
  MAX_INFLIGHT = 2
  MAX_SUBMIT_RETRIES = 1
  MaxFaults = 0
  MaxCrashes = 0
SPECIFICATION Spec
PROPERTY RebaseHealsGap
