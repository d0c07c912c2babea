SPECIFICATION Spec
CONSTANTS
  WORD = 1024
  NSEC_PER_SEC = 2
  TICK_HZ = 1
  PERVAL_RANGE = 4
  PRESCALE_MAX = 2
  Threads = {owner}
  Configurers = {owner}
  ApiCallers = {}
  NoThread = NoThread
  FlagSets <- PairFlags
  PeriodsNs <- ProgrammablePeriods
  DutiesNs = {4, 6}
  Percents = {0}
INVARIANT
  PeriodRegisterCurrent
