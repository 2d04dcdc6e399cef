SPECIFICATION Spec
CONSTANTS
  r1 = r1
  r2 = r2
  r3 = r3
  c1 = c1
  c2 = c2
  Request <- MCRequest
  Presigned <- MCPresigned
  Console <- MCConsole
  MAX_QUEUE = 2
  CLAIM_BATCH_SIZE = 2
  MaxRestarts = 0
SYMMETRY Consoles
INVARIANT
  RejectedNeverSigned
