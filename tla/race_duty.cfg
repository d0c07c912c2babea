SPECIFICATION Spec
CONSTANTS
  WORD = 1024
  NSEC_PER_SEC = 2
  TICK_HZ = 1
  PERVAL_RANGE = 4
  PRESCALE_MAX = 2
  Threads = {owner, sysfs}
  Configurers = {owner, sysfs}
  ApiCallers = {}
  NoThread = NoThread
  FlagSets <- PairFlags
  PeriodsNs <- ProgrammablePeriods
  DutiesNs = {0, 6, 10}
  Percents = {0}
INVARIANT
  DutyWithinPeriod
