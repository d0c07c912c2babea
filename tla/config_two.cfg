SPECIFICATION FairSpec
CONSTANTS
  WORD = 1024
  NSEC_PER_SEC = 2
  TICK_HZ = 1
  PERVAL_RANGE = 4
  PRESCALE_MAX = 2
  Threads = {user, kernel}
  Configurers = {user, kernel}
  ApiCallers = {kernel}
  NoThread = NoThread
  FlagSets <- MixedFlags
  PeriodsNs <- MixedPeriods
  DutiesNs = {6}
  Percents = {100}
INVARIANTS
  TypeOK
  FullDutyHonoured
  PrescaleTracksPeriod
  PeriodFieldFits
  DutyRegisterFollows
  OneRegisterStale
PROPERTIES
  CallIsAtomic
  PeriodNeverReset
  ImplementsSettings
  CallsReturn
