SPECIFICATION ChannelSpec
CONSTANTS
  WORD = 1024
  NSEC_PER_SEC = 2
  TICK_HZ = 1
  PERVAL_RANGE = 4
  PRESCALE_MAX = 2
  Threads = {owner, work}
  Configurers = {owner}
  Freezable = {owner}
  ApiCallers = {}
  NoThread = NoThread
  FlagSets <- OwnerFlags
  PeriodsNs <- Periods
  DutiesNs = {6}
  Percents = {150}
INVARIANTS
  ChannelTypeOK
  DivisorNeverZero
  QuietReadIsConsistent
  AwakeRegistersAgree
  SnapshotExact
  DutyWithinPeriod
PROPERTIES
  ResumesCompletely
