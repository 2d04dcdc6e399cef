\* The monitor and the top-up bot, one at a time.  The monitored fleet and the
\* bot's accounts may come to rest, but the daemons never do.
SPECIFICATION FleetSpec
CONSTANTS
  Fleets <- MCFleets
  CHAIN_STALL_CYCLES = 2
  ErrorBurst = 1
  MaxErrors = 1
  MaxOverlap = 2
  Master = "master"
  Listed <- MCListed
  InitialMaster = {6, 9}
  MinWei = 2
  ToWei = 4
  ReserveWei = 3
  STEP = 2
  Fee = 1
  Faucet = 3
  MaxPool = 3
  MaxTroubles = 4
INVARIANTS
  FleetTypeOK
  AlertsMatchIssues
PROPERTIES
  IssuesFollow
  PaidAsPlanned
  KeptFunded
