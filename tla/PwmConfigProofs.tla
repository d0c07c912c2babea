-------------------------- MODULE PwmConfigProofs ---------------------------
(***************************************************************************)
(* Theorems about pwm_config(): what holds for every number of callers and *)
(* every width of the words and fields.                                    *)
(*                                                                         *)
(*   Types             -> TypeCorrect                                      *)
(*   Registers         -> RegistersCorrect, DutyRegisterIsCurrent,         *)
(*                        NeverBothStale, PeriodStays                      *)
(*   Mutual exclusion, applied attributes -> CallsAreAtomic                *)
(*   A sole configurer -> SoleConfigurerKeepsDuty                          *)
(*   Paired calls      -> PairedCallsKeepDuty, DocumentedCallsPass         *)
(***************************************************************************)
EXTENDS PwmConfig, PwmTicksProofs

(***************************************************************************)
(* Types.                                                                  *)
(***************************************************************************)
\* Scaling a word by any prescale the registers hold gives an integer.
LEMMA FieldScaling ==
  \A w \in Words, q \in 0 .. PRESCALE_MAX : w \div (q + 1) \in Int
BY WordsNotEmpty, NumbersAssumption

\* What a caller may ask for is a command.
LEMMA RequestType ==
  ASSUME NEW mask \in SUBSET Attributes, NEW period \in Words, NEW duty \in Words,
         NEW percent \in Nat, NEW polarity \in BOOLEAN
  PROVE  Request(mask, period, duty, percent, polarity) \in Command
BY WordsNotEmpty DEF Request, Command

LEMMA NoCommandType == NoCommand \in Command
BY RequestType, WordsNotEmpty DEF NoCommand

LEMMA MasksType ==
  ASSUME NEW t
  PROVE  MasksOf(t) \subseteq SUBSET Attributes
<1>1. ASSUME NEW flags \in FlagSets PROVE MaskOf(t, flags) \in SUBSET Attributes
  BY ConfigAssumption DEF MaskOf, ApiMask, Attributes
<1>2. {"START"} \in SUBSET Attributes /\ {"STOP"} \in SUBSET Attributes
  BY DEF Attributes
<1>. QED
  BY <1>1, <1>2 DEF MasksOf

LEMMA TypeInit == Init => TypeOK
<1>. SUFFICES ASSUME Init PROVE TypeOK
  OBVIOUS
<1>1. cmd \in [Threads -> Command] /\ pc \in [Threads -> Stages]
  BY NoCommandType DEF Init, Stages
<1>2. 0 \in 0 .. PRESCALE_MAX /\ 0 \in 0 .. FIELD_RANGE - 1
  BY NumbersAssumption, FieldTypes
<1>. QED
  BY <1>1, <1>2, WordsNotEmpty DEF Init, TypeOK

\* The unlocked half of a call touches only the caller's command and stage.
LEMMA TypeUnlocked ==
  ASSUME TypeOK, NEW t \in Threads, UnlockedStep(t)
  PROVE  TypeOK'
<1>1. CASE Call(t)
  <2>1. PICK mask \in MasksOf(t), period \in PeriodsNs, duty \in DutiesNs,
             percent \in Percents, polarity \in BOOLEAN :
          cmd' = [cmd EXCEPT ![t] =
                    Request(mask, NsToTicks(tick_hz, period), NsToTicks(tick_hz, duty),
                            percent, polarity)]
    BY <1>1 DEF Call
  <2>2. tick_hz \in Nat /\ period \in Nat /\ duty \in Nat /\ percent \in Nat
    BY ConfigAssumption DEF TypeOK
  <2>3. Request(mask, NsToTicks(tick_hz, period), NsToTicks(tick_hz, duty),
                percent, polarity) \in Command
    BY <2>2, MasksType, ConversionTypes, RequestType
  <2>4. cmd' \in [Threads -> Command]
    BY <2>1, <2>3 DEF TypeOK
  <2>5. pc' \in [Threads -> Stages]
    BY <1>1 DEF Call, Goto, TypeOK, Stages
  <2>. QED
    BY <1>1, <2>4, <2>5 DEF Call, TypeOK, channel, registers
<1>2. CASE ResolvePercent(t)
  <2>. DEFINE period == IF "PERIOD" \in cmd[t].mask THEN cmd[t].period ELSE period_ticks
              duty   == PercentToTicks(period, cmd[t].percent)
              c      == [cmd[t] EXCEPT !.mask = (@ \ {"PERCENT"}) \cup {"DUTY"},
                                       !.duty = duty, !.percent = 0]
  <2>1. cmd[t] \in Command
    BY DEF TypeOK
  <2>2. period \in Words /\ cmd[t].percent \in Nat
    BY <2>1 DEF TypeOK, Command
  <2>3. duty \in Words
    BY <2>2, ConversionTypes
  <2>. HIDE DEF duty
  <2>4. c \in Command
    BY <2>1, <2>3 DEF Command, Attributes
  <2>5. cmd' = cmd \/ cmd' = [cmd EXCEPT ![t] = c]
    BY <1>2, <2>1 DEF ResolvePercent, duty, Command, TypeOK
  <2>6. cmd' \in [Threads -> Command]
    BY <2>4, <2>5 DEF TypeOK
  <2>7. pc' \in [Threads -> Stages]
    BY <1>2 DEF ResolvePercent, Goto, TypeOK, Stages
  <2>. QED
    BY <1>2, <2>6, <2>7 DEF ResolvePercent, TypeOK, channel, registers
<1>3. CASE CheckRejects(t)
  BY <1>3, NoCommandType
     DEF CheckRejects, Goto, Return, TypeOK, Stages, channel, registers
<1>4. CASE CheckPasses(t)
  BY <1>4 DEF CheckPasses, Goto, TypeOK, Stages, channel, registers
<1>. QED
  BY <1>1, <1>2, <1>3, <1>4 DEF UnlockedStep

\* A programmed period leaves fields that fit the registers.
LEMMA TypePeriod ==
  ASSUME TypeOK, NEW t \in Threads, PeriodApplied(t)
  PROVE  /\ period_ticks' \in Words
         /\ pwm_ctrl' \in [prescale : 0 .. PRESCALE_MAX, enabled : BOOLEAN,
                           inverted : BOOLEAN]
         /\ pwm_ctrl'.prescale = Prescale(period_ticks')
         /\ pwm_duty' \in 0 .. FIELD_RANGE - 1
         /\ pwm_perval' \in 0 .. FIELD_RANGE - 1
<1>. DEFINE p == cmd[t].period
            q == Prescale(p)
<1>1. p \in Words /\ Programmable(p) /\ p > 0
  BY ProgrammablePositive DEF TypeOK, Command, PeriodApplied
<1>2. q \in 0 .. PRESCALE_MAX
  BY <1>1, PrescaleBracket, NumbersAssumption DEF Programmable
<1>3. duty_ticks \div (q + 1) \in Int
  BY <1>2, FieldScaling DEF TypeOK
<1>4. RescaledDutyField(duty_ticks, q) \in 0 .. FIELD_RANGE - 1
  BY <1>3, FieldTypes DEF RescaledDutyField
<1>5. Perval(p) % FIELD_RANGE \in 0 .. FIELD_RANGE - 1
  BY <1>1, PervalBound, FieldTypes
<1>. HIDE DEF q
<1>6. DutyForPeriod(p) \in 0 .. FIELD_RANGE - 1
  BY <1>4, FieldTypes DEF DutyForPeriod, TypeOK, q
<1>7. /\ pwm_ctrl' = [pwm_ctrl EXCEPT !.prescale = q]
      /\ period_ticks' = p
  BY DEF PeriodApplied, Rescales, TypeOK, q
<1>. QED
  BY <1>1, <1>2, <1>5, <1>6, <1>7 DEF PeriodApplied, PervalForPeriod, TypeOK, q

\* The half under the lock.
LEMMA TypeLocked ==
  ASSUME TypeOK, NEW t \in Threads, LockedStep(t)
  PROVE  TypeOK'
<1>1. CASE PeriodRefused(t)
  BY <1>1 DEF PeriodRefused, Goto, TypeOK, Stages, channel, registers
<1>2. CASE PeriodApplied(t)
  BY <1>2, TypePeriod DEF PeriodApplied, Goto, TypeOK, Stages
<1>3. CASE ConfigDuty(t)
  <2>1. cmd[t].duty \in Words /\ pwm_ctrl.prescale \in 0 .. PRESCALE_MAX
    BY DEF TypeOK, Command
  <2>2. cmd[t].duty \div (pwm_ctrl.prescale + 1) \in Int
    BY <2>1, FieldScaling
  <2>3. DutyField(cmd[t].duty, pwm_ctrl.prescale) \in 0 .. FIELD_RANGE - 1
    BY <2>2, FieldTypes DEF DutyField
  <2>4. duty_ticks' \in Words /\ pwm_duty' \in 0 .. FIELD_RANGE - 1
    BY <1>3, <2>1, <2>3, FieldTypes DEF ConfigDuty, TypeOK
  <2>. QED
    BY <1>3, <2>4 DEF ConfigDuty, Goto, TypeOK, Stages
<1>4. CASE PolarityAndLeave(t)
  <2>1. cmd[t].polarity \in BOOLEAN /\ (~cmd[t].polarity) \in BOOLEAN
    BY DEF TypeOK, Command
  <2>2. /\ active_high' \in BOOLEAN
        /\ pwm_ctrl' \in [prescale : 0 .. PRESCALE_MAX, enabled : BOOLEAN,
                          inverted : BOOLEAN]
    BY <1>4, <2>1 DEF PolarityAndLeave, TypeOK
  <2>3. cmd' \in [Threads -> Command] /\ pc' \in [Threads -> Stages]
    BY <1>4, NoCommandType DEF PolarityAndLeave, Goto, Return, TypeOK, Stages
  <2>. QED
    BY <1>4, <2>2, <2>3 DEF PolarityAndLeave, Unlock, TypeOK
<1>. QED
  BY <1>1, <1>2, <1>3, <1>4 DEF LockedStep

LEMMA TypeStep == TypeOK /\ [Next]_vars => TypeOK'
<1>. SUFFICES ASSUME TypeOK, [Next]_vars PROVE TypeOK'
  OBVIOUS
<1>1. CASE ChannelRequested
  BY <1>1 DEF ChannelRequested, TypeOK, registers
<1>2. ASSUME NEW t \in Threads, EnterAndRun(t) PROVE TypeOK'
  <2>1. pwm_ctrl' \in [prescale : 0 .. PRESCALE_MAX, enabled : BOOLEAN,
                       inverted : BOOLEAN]
    BY <1>2 DEF EnterAndRun, TypeOK
  <2>. QED
    BY <1>2, <2>1 DEF EnterAndRun, Goto, Lock, TypeOK, Stages, channel
<1>3. CASE UNCHANGED vars
  BY <1>3 DEF vars, channel, registers, TypeOK
<1>. QED
  BY <1>1, <1>2, <1>3, TypeUnlocked, TypeLocked DEF Next

\* Every variable keeps its type: in particular every register field stays
\* within the bits the driver owns, for any period, duty and percentage.
THEOREM TypeCorrect == Spec => []TypeOK
BY TypeInit, TypeStep, PTL DEF Spec

(***************************************************************************)
(* Registers.  The three agreements between the channel structure and the  *)
(* registers are inductive together with the types: each of the two places *)
(* that writes a duty or a period also writes the full-cycle bit.          *)
(***************************************************************************)
RegistersAgree == PrescaleTracksPeriod /\ PeriodFieldFits /\ FullDutyHonoured

LEMMA RegistersInit == Init => RegistersAgree
BY NumbersAssumption
   DEF Init, RegistersAgree, PrescaleTracksPeriod, PeriodFieldFits, FullDutyHonoured

\* Steps that write neither a period, nor a duty, nor their registers.
LEMMA RegistersUntouched ==
  ASSUME RegistersAgree,
         UNCHANGED <<period_ticks, duty_ticks, pwm_duty, pwm_perval, pwm_ctrl.prescale>>
  PROVE  RegistersAgree'
BY DEF RegistersAgree, PrescaleTracksPeriod, PeriodFieldFits, FullDutyHonoured

LEMMA RegistersStep ==
  TypeOK /\ RegistersAgree /\ [Next]_vars => RegistersAgree'
<1>. SUFFICES ASSUME TypeOK, RegistersAgree, [Next]_vars PROVE RegistersAgree'
  OBVIOUS
<1>1. CASE ChannelRequested
  BY <1>1, RegistersUntouched DEF ChannelRequested, registers
<1>2. ASSUME NEW t \in Threads, UnlockedStep(t) PROVE RegistersAgree'
  BY <1>2, RegistersUntouched
     DEF UnlockedStep, Call, ResolvePercent, CheckRejects, CheckPasses, channel, registers
<1>3. ASSUME NEW t \in Threads, EnterAndRun(t) PROVE RegistersAgree'
  <2>1. pwm_ctrl'.prescale = pwm_ctrl.prescale
    BY <1>3 DEF EnterAndRun, TypeOK
  <2>. QED
    BY <1>3, <2>1, RegistersUntouched DEF EnterAndRun, channel
<1>4. ASSUME NEW t \in Threads, PeriodRefused(t) PROVE RegistersAgree'
  BY <1>4, RegistersUntouched DEF PeriodRefused, channel, registers
<1>5. ASSUME NEW t \in Threads, PeriodApplied(t) PROVE RegistersAgree'
  <2>. DEFINE p == cmd[t].period
  <2>1. period_ticks' = p /\ duty_ticks' = duty_ticks /\ p \in Words /\ Programmable(p)
    BY <1>5 DEF PeriodApplied, TypeOK, Command
  <2>2. PrescaleTracksPeriod'
    BY <1>5, TypePeriod DEF PrescaleTracksPeriod
  <2>3. PeriodFieldFits'
    <3>1. Perval(p) % FIELD_RANGE = Perval(p)
      BY <2>1, PervalBound, NumbersAssumption DEF FIELD_RANGE
    <3>. QED
      BY <1>5, <2>1, <3>1, PervalBound, NumbersAssumption
         DEF PeriodApplied, PervalForPeriod, PeriodFieldFits, RegistersAgree
  <2>4. FullDutyHonoured'
    BY <1>5, <2>1 DEF PeriodApplied, DutyForPeriod, FullDutyHonoured
  <2>. QED
    BY <2>2, <2>3, <2>4 DEF RegistersAgree
<1>6. ASSUME NEW t \in Threads, ConfigDuty(t) PROVE RegistersAgree'
  BY <1>6 DEF ConfigDuty, RegistersAgree, PrescaleTracksPeriod, PeriodFieldFits,
              FullDutyHonoured
<1>7. ASSUME NEW t \in Threads, PolarityAndLeave(t) PROVE RegistersAgree'
  <2>1. pwm_ctrl'.prescale = pwm_ctrl.prescale
    BY <1>7 DEF PolarityAndLeave, TypeOK
  <2>. QED
    BY <1>7, <2>1, RegistersUntouched DEF PolarityAndLeave
<1>8. CASE UNCHANGED vars
  BY <1>8, RegistersUntouched DEF vars, channel, registers
<1>. QED
  BY <1>1, <1>2, <1>3, <1>4, <1>5, <1>6, <1>7, <1>8 DEF Next, LockedStep

\* Whatever is called, in whatever interleaving: the prescale register is the
\* one the reported period needs, the period counter never spills out of its
\* 17 bits, and a channel whose duty is its period is driven at full cycle.
THEOREM RegistersCorrect ==
  Spec => [](PrescaleTracksPeriod /\ PeriodFieldFits /\ FullDutyHonoured)
<1>1. Init => TypeOK /\ RegistersAgree
  BY TypeInit, RegistersInit
<1>2. TypeOK /\ RegistersAgree /\ [Next]_vars => (TypeOK /\ RegistersAgree)'
  BY TypeStep, RegistersStep
<1>3. RegistersAgree => PrescaleTracksPeriod /\ PeriodFieldFits /\ FullDutyHonoured
  BY DEF RegistersAgree
<1>. QED
  BY <1>1, <1>2, <1>3, PTL DEF Spec

\* However the attributes of a channel are set and by whom, the prescale field
\* a later duty is scaled by is the one of the period the channel reports.
THEOREM PrescaleFollowsPeriod == Spec => []PrescaleTracksPeriod
BY RegistersCorrect, PTL

\* No accepted period spills into the bit PWM_PERVAL_MSK keeps in excess.
THEOREM PeriodNeverSpills == Spec => []PeriodFieldFits
BY RegistersCorrect, PTL

\* The two registers that a full cycle lets go stale.  PeriodApplied leaves a
\* fresh period register and perhaps a stale duty register, ConfigDuty a fresh
\* duty register and perhaps a stale period register.
DutyAndPeriodFollow == DutyRegisterFollows /\ OneRegisterStale

LEMMA FollowInit == Init => DutyAndPeriodFollow
<1>1. 0 \div (0 + 1) = 0 /\ 0 % FIELD_RANGE = 0
  BY FieldTypes
<1>. QED
  BY <1>1 DEF Init, DutyAndPeriodFollow, DutyRegisterFollows, OneRegisterStale, DutyField

LEMMA FollowUntouched ==
  ASSUME DutyAndPeriodFollow,
         UNCHANGED <<period_ticks, duty_ticks, pwm_duty, pwm_perval, pwm_ctrl.prescale>>
  PROVE  DutyAndPeriodFollow'
BY DEF DutyAndPeriodFollow, DutyRegisterFollows, OneRegisterStale

LEMMA FollowStep ==
  TypeOK /\ DutyAndPeriodFollow /\ [Next]_vars => DutyAndPeriodFollow'
<1>. SUFFICES ASSUME TypeOK, DutyAndPeriodFollow, [Next]_vars PROVE DutyAndPeriodFollow'
  OBVIOUS
<1>1. CASE ChannelRequested \/ UNCHANGED vars
  BY <1>1, FollowUntouched DEF ChannelRequested, vars, channel, registers
<1>2. ASSUME NEW t \in Threads, UnlockedStep(t) \/ PeriodRefused(t)
      PROVE  DutyAndPeriodFollow'
  BY <1>2, FollowUntouched
     DEF UnlockedStep, Call, ResolvePercent, CheckRejects, CheckPasses, PeriodRefused,
         channel, registers
<1>3. ASSUME NEW t \in Threads, EnterAndRun(t) \/ PolarityAndLeave(t)
      PROVE  DutyAndPeriodFollow'
  <2>1. pwm_ctrl'.prescale = pwm_ctrl.prescale
    BY <1>3 DEF EnterAndRun, PolarityAndLeave, TypeOK
  <2>. QED
    BY <1>3, <2>1, FollowUntouched DEF EnterAndRun, PolarityAndLeave, channel
<1>4. ASSUME NEW t \in Threads, PeriodApplied(t) PROVE DutyAndPeriodFollow'
  <2>. DEFINE p == cmd[t].period
  <2>1. /\ p \in Words /\ Programmable(p)
        /\ period_ticks' = p /\ duty_ticks' = duty_ticks
        /\ pwm_duty' = DutyForPeriod(p) /\ pwm_perval' = PervalForPeriod(p)
        /\ pwm_ctrl'.prescale = Prescale(p)
    BY <1>4, TypePeriod DEF PeriodApplied, TypeOK, Command
  <2>2. DutyRegisterFollows'
    BY <2>1 DEF DutyForPeriod, Rescales, DutyAndPeriodFollow, DutyRegisterFollows
  <2>3. Perval(p) % FIELD_RANGE = Perval(p)
    BY <2>1, PervalBound, NumbersAssumption DEF FIELD_RANGE
  <2>4. OneRegisterStale'
    BY <2>1, <2>3 DEF PervalForPeriod, OneRegisterStale
  <2>. QED
    BY <2>2, <2>4 DEF DutyAndPeriodFollow
<1>5. ASSUME NEW t \in Threads, ConfigDuty(t) PROVE DutyAndPeriodFollow'
  BY <1>5 DEF ConfigDuty, DutyAndPeriodFollow, DutyRegisterFollows, OneRegisterStale
<1>. QED
  BY <1>1, <1>2, <1>3, <1>4, <1>5 DEF Next, LockedStep

LEMMA FollowInvariant == Spec => []DutyAndPeriodFollow
<1>1. Init => TypeOK /\ DutyAndPeriodFollow
  BY TypeInit, FollowInit
<1>2. TypeOK /\ DutyAndPeriodFollow /\ [Next]_vars => (TypeOK /\ DutyAndPeriodFollow)'
  BY TypeStep, FollowStep
<1>. QED
  BY <1>1, <1>2, PTL DEF Spec

\* Whatever is called, in whatever interleaving, the duty register is that of the
\* present duty and prescale: exactly, a tick short, or a full cycle.
THEOREM DutyRegisterIsCurrent == Spec => []DutyRegisterFollows
<1>1. DutyAndPeriodFollow => DutyRegisterFollows
  BY DEF DutyAndPeriodFollow
<1>. QED
  BY <1>1, FollowInvariant, PTL

\* The two ways out of a full cycle leave one register stale, never both.
THEOREM NeverBothStale == Spec => []OneRegisterStale
<1>1. DutyAndPeriodFollow => OneRegisterStale
  BY DEF DutyAndPeriodFollow
<1>. QED
  BY <1>1, FollowInvariant, PTL

\* Only __config_period_ticks() writes the period, and never with zero.
LEMMA PeriodStaysPositive ==
  ASSUME TypeOK, [Next]_vars
  PROVE  /\ period_ticks > 0 => period_ticks' > 0
         /\ tick_hz # 0 => tick_hz' = tick_hz
<1>1. ASSUME NEW t \in Threads, PeriodApplied(t) PROVE period_ticks' > 0
  <2>1. cmd[t].period \in Words /\ Programmable(cmd[t].period)
    BY <1>1 DEF PeriodApplied, TypeOK, Command
  <2>. QED
    BY <1>1, <2>1, ProgrammablePositive DEF PeriodApplied
<1>2. (\E t \in Threads : PeriodApplied(t)) \/ UNCHANGED period_ticks
  BY DEF Next, UnlockedStep, LockedStep, ChannelRequested, Call, ResolvePercent,
         CheckRejects, CheckPasses, EnterAndRun, PeriodRefused, ConfigDuty,
         PolarityAndLeave, vars, channel
<1>3. tick_hz # 0 => tick_hz' = tick_hz
  BY DEF Next, UnlockedStep, LockedStep, ChannelRequested, Call, ResolvePercent,
         CheckRejects, CheckPasses, EnterAndRun, PeriodRefused, PeriodApplied,
         ConfigDuty, PolarityAndLeave, vars, channel, TypeOK
<1>. QED
  BY <1>1, <1>2, <1>3

\* The prescale field holds programmable prescales only.
LEMMA AgreeProgrammable ==
  ASSUME TypeOK, RegistersAgree, period_ticks > 0
  PROVE  Programmable(period_ticks)
BY NumbersAssumption DEF TypeOK, RegistersAgree, PrescaleTracksPeriod, Programmable

\* The clock is slow enough for a tick to last a nanosecond, and the longest
\* programmable period is short enough to be told in a word of nanoseconds.
LEMMA PeriodReadable ==
  ASSUME TypeOK, period_ticks > 0, Programmable(period_ticks), tick_hz # 0
  PROVE  PeriodNs > 0 /\ (period_ticks * NSEC_PER_SEC) \div TICK_HZ \in Words
<1>. DEFINE p == period_ticks
            q == Prescale(p)
            n == p * NSEC_PER_SEC
            k == n \div TICK_HZ
<1>1. /\ p \in Nat \ {0} /\ p \in Words
      /\ NSEC_PER_SEC \in Nat \ {0} /\ TICK_HZ \in Nat \ {0} /\ TICK_HZ <= NSEC_PER_SEC
      /\ WORD \in Nat \ {0} /\ PERVAL_RANGE \in Nat \ {0} /\ PRESCALE_MAX \in Nat
  BY WordsNotEmpty, NumbersAssumption, ConfigAssumption DEF TypeOK
<1>2. q \in 0 .. PRESCALE_MAX /\ p <= PERVAL_RANGE * (q + 1)
  BY <1>1, PrescaleBracket DEF Programmable
<1>. HIDE DEF q
<1>3. p <= PERVAL_RANGE * (PRESCALE_MAX + 1)
  <2>1. PERVAL_RANGE * (q + 1) <= PERVAL_RANGE * (PRESCALE_MAX + 1)
    BY <1>1, <1>2, TimesMonotonic
  <2>2. PERVAL_RANGE * (q + 1) \in Int /\ PERVAL_RANGE * (PRESCALE_MAX + 1) \in Int
    BY <1>1, <1>2
  <2>. QED
    BY <1>1, <1>2, <2>1, <2>2
<1>4. n \in Nat /\ NSEC_PER_SEC <= n
  <2>1. NSEC_PER_SEC * 1 <= NSEC_PER_SEC * p
    BY <1>1, TimesMonotonic
  <2>. QED
    BY <1>1, <2>1
<1>5. n < WORD * TICK_HZ
  <2>. DEFINE m == PERVAL_RANGE * (PRESCALE_MAX + 1)
  <2>1. m \in Nat
    BY <1>1
  <2>2. m * NSEC_PER_SEC < WORD * TICK_HZ
    BY ConfigAssumption
  <2>. HIDE DEF m
  <2>3. NSEC_PER_SEC * p <= NSEC_PER_SEC * m
    BY <1>1, <1>3, <2>1, TimesMonotonic DEF m
  <2>4. n = NSEC_PER_SEC * p /\ m * NSEC_PER_SEC = NSEC_PER_SEC * m
    BY <1>1, <2>1
  <2>5. NSEC_PER_SEC * m \in Int /\ WORD * TICK_HZ \in Int
    BY <1>1, <2>1
  <2>. QED
    BY <1>4, <2>2, <2>3, <2>4, <2>5
<1>. HIDE DEF n
<1>6. /\ k \in Nat /\ n = TICK_HZ * k + (n % TICK_HZ)
      /\ n % TICK_HZ \in 0 .. TICK_HZ - 1
  BY <1>1, <1>4
<1>. HIDE DEF k
<1>7. k > 0
  <2>1. k = 0 => TICK_HZ * k = 0
    BY <1>1, <1>6
  <2>. QED
    BY <1>1, <1>4, <1>6, <2>1
<1>8. k < WORD
  <2>1. ASSUME k >= WORD PROVE FALSE
    <3>1. TICK_HZ * WORD <= TICK_HZ * k
      BY <1>1, <1>6, <2>1, TimesMonotonic
    <3>2. TICK_HZ * WORD = WORD * TICK_HZ /\ WORD * TICK_HZ \in Int /\ TICK_HZ * k \in Int
      BY <1>1, <1>6
    <3>. QED
      BY <1>1, <1>4, <1>5, <1>6, <3>1, <3>2
  <2>. QED
    BY <1>1, <1>6, <2>1
<1>9. k % WORD = k
  BY <1>1, <1>6, <1>8
<1>10. tick_hz = TICK_HZ
  BY DEF TypeOK
<1>. QED
  BY <1>1, <1>6, <1>7, <1>8, <1>9, <1>10 DEF PeriodNs, TicksToNs, Words, k, n

\* And nothing else reads as more than zero nanoseconds.
LEMMA ReadablePeriod ==
  ASSUME TypeOK, PeriodNs # 0
  PROVE  period_ticks > 0 /\ tick_hz # 0
<1>1. tick_hz # 0
  BY DEF PeriodNs, TicksToNs
<1>2. period_ticks # 0
  <2>1. (0 * NSEC_PER_SEC) \div TICK_HZ = 0 /\ 0 % WORD = 0
    BY WordsNotEmpty, NumbersAssumption, ConfigAssumption
  <2>. QED
    BY <1>1, <2>1 DEF PeriodNs, TicksToNs, TypeOK
<1>. QED
  BY <1>1, <1>2, WordsNotEmpty DEF TypeOK

\* A reader that has seen a period can go on dividing by it, however the
\* channel is reconfigured meanwhile.
THEOREM PeriodStays == Spec => PeriodNeverReset
<1>. DEFINE Inv == TypeOK /\ RegistersAgree
            Readable == (Inv /\ period_ticks > 0 /\ tick_hz # 0) => PeriodNs > 0
<1>1. Readable
  BY PeriodReadable, AgreeProgrammable
<1>2. Readable'
  BY <1>1, PTL
<1>3. Inv /\ Inv' /\ [Next]_vars => [PeriodNs > 0 => PeriodNs' > 0]_vars
  <2>. SUFFICES ASSUME Inv, Inv', [Next]_vars, PeriodNs > 0 PROVE PeriodNs' > 0
    OBVIOUS
  <2>1. period_ticks > 0 /\ tick_hz # 0
    BY ReadablePeriod
  <2>2. period_ticks' > 0 /\ tick_hz' # 0
    BY <2>1, PeriodStaysPositive
  <2>. QED
    BY <1>2, <2>2
<1>4. Spec => []Inv
  BY TypeInit, RegistersInit, TypeStep, RegistersStep, PTL DEF Spec
<1>. QED
  BY <1>3, <1>4, PTL DEF Spec, PeriodNeverReset

(***************************************************************************)
(* Atomicity.  A thread between EnterAndRun and PolarityAndLeave holds the *)
(* lock, so nobody disturbs what it has applied so far.                    *)
(***************************************************************************)
MutualExclusion == \A t \in Threads : pc[t] \in InLock <=> lock = t

\* What thread t has applied when it is at a given stage under the lock.
PeriodDone(t) ==
  (pc[t] \in {"duty", "polarity"} /\ "PERIOD" \in cmd[t].mask
     /\ Programmable(cmd[t].period)) => period_ticks = cmd[t].period

DutyDone(t) ==
  (pc[t] = "polarity" /\ "DUTY" \in cmd[t].mask) =>
    /\ duty_ticks = cmd[t].duty
    /\ pwm_duty = IF cmd[t].duty = period_ticks THEN PWM_FDCYCLE
                  ELSE DutyField(cmd[t].duty, pwm_ctrl.prescale)

Applied == \A t \in Threads : PeriodDone(t) /\ DutyDone(t)

AtomicInv == TypeOK /\ MutualExclusion /\ Applied

\* The steps of a thread that does not hold the lock, and those of the one
\* that does, as far as the lock and the stages are concerned.
LEMMA OutsideStep ==
  ASSUME TypeOK, NEW t \in Threads, UnlockedStep(t)
  PROVE  /\ pc[t] \notin InLock /\ pc'[t] \notin InLock /\ lock' = lock
         /\ \A u \in Threads \ {t} : pc'[u] = pc[u] /\ cmd'[u] = cmd[u]
         /\ UNCHANGED <<channel, registers>>
<1>1. /\ pc[t] \notin InLock /\ pc'[t] \notin InLock /\ lock' = lock
      /\ \A u \in Threads \ {t} : pc'[u] = pc[u]
      /\ UNCHANGED <<channel, registers>>
  BY DEF UnlockedStep, Call, ResolvePercent, CheckRejects, CheckPasses, Goto,
         TypeOK, InLock, channel, registers
<1>2. \A u \in Threads \ {t} : cmd'[u] = cmd[u]
  BY DEF UnlockedStep, Call, ResolvePercent, CheckRejects, CheckPasses, Return,
         TypeOK
<1>. QED
  BY <1>1, <1>2

LEMMA InsideStep ==
  ASSUME TypeOK, NEW t \in Threads, LockedStep(t)
  PROVE  /\ pc[t] \in InLock
         /\ (pc'[t] \in InLock /\ lock' = lock) \/ (pc'[t] \notin InLock /\ lock' = NoThread)
         /\ \A u \in Threads \ {t} : pc'[u] = pc[u] /\ cmd'[u] = cmd[u]
BY DEF LockedStep, PeriodRefused, PeriodApplied, ConfigDuty, PolarityAndLeave,
       Goto, Return, Unlock, TypeOK, InLock

LEMMA EnterStep ==
  ASSUME TypeOK, NEW t \in Threads, EnterAndRun(t)
  PROVE  /\ lock = NoThread /\ lock' = t /\ pc'[t] = "period"
         /\ \A u \in Threads \ {t} : pc'[u] = pc[u]
         /\ cmd' = cmd
BY DEF EnterAndRun, Goto, Lock, TypeOK

LEMMA MutualExclusionStep ==
  TypeOK /\ MutualExclusion /\ [Next]_vars => MutualExclusion'
<1>. SUFFICES ASSUME TypeOK, MutualExclusion, [Next]_vars PROVE MutualExclusion'
  OBVIOUS
<1>1. CASE ChannelRequested \/ UNCHANGED vars
  BY <1>1 DEF ChannelRequested, vars, MutualExclusion
<1>2. ASSUME NEW t \in Threads, UnlockedStep(t) PROVE MutualExclusion'
  BY <1>2, OutsideStep DEF MutualExclusion
<1>3. ASSUME NEW t \in Threads, LockedStep(t) PROVE MutualExclusion'
  BY <1>3, InsideStep, ConfigAssumption DEF MutualExclusion
<1>4. ASSUME NEW t \in Threads, EnterAndRun(t) PROVE MutualExclusion'
  BY <1>4, EnterStep, ConfigAssumption DEF MutualExclusion, InLock
<1>. QED
  BY <1>1, <1>2, <1>3, <1>4 DEF Next

LEMMA AppliedStep == AtomicInv /\ [Next]_vars => Applied'
<1>. SUFFICES ASSUME AtomicInv, [Next]_vars, NEW u \in Threads
              PROVE  (PeriodDone(u) /\ DutyDone(u))'
  BY DEF Applied
<1>. USE DEF AtomicInv
<1>1. CASE ChannelRequested \/ UNCHANGED vars
  BY <1>1 DEF ChannelRequested, vars, channel, registers, Applied, PeriodDone, DutyDone
<1>2. ASSUME NEW t \in Threads, UnlockedStep(t)
      PROVE  (PeriodDone(u) /\ DutyDone(u))'
  BY <1>2, OutsideStep DEF Applied, PeriodDone, DutyDone, InLock, channel, registers
<1>3. ASSUME NEW t \in Threads, EnterAndRun(t)
      PROVE  (PeriodDone(u) /\ DutyDone(u))'
  <2>1. u # t => pc[u] \notin InLock
    BY <1>3, EnterStep, ConfigAssumption DEF MutualExclusion
  <2>. QED
    BY <1>3, <2>1, EnterStep DEF PeriodDone, DutyDone, InLock
<1>4. ASSUME NEW t \in Threads, LockedStep(t), t # u
      PROVE  (PeriodDone(u) /\ DutyDone(u))'
  <2>1. pc'[u] \notin InLock
    BY <1>4, InsideStep DEF MutualExclusion
  <2>. QED
    BY <2>1 DEF PeriodDone, DutyDone, InLock
<1>5. ASSUME LockedStep(u) PROVE (PeriodDone(u) /\ DutyDone(u))'
  <2>1. CASE PeriodRefused(u)
    BY <2>1 DEF PeriodRefused, Goto, TypeOK, PeriodDone, DutyDone
  <2>2. CASE PeriodApplied(u)
    BY <2>2 DEF PeriodApplied, Goto, TypeOK, PeriodDone, DutyDone
  <2>3. CASE ConfigDuty(u)
    BY <2>3 DEF ConfigDuty, Goto, TypeOK, Applied, PeriodDone, DutyDone
  <2>4. CASE PolarityAndLeave(u)
    BY <2>4 DEF PolarityAndLeave, Goto, TypeOK, PeriodDone, DutyDone
  <2>. QED
    BY <1>5, <2>1, <2>2, <2>3, <2>4 DEF LockedStep
<1>. QED
  BY <1>1, <1>2, <1>3, <1>4, <1>5 DEF Next

LEMMA AtomicInvariant == Spec => []AtomicInv
<1>1. Init => MutualExclusion /\ Applied
  BY ConfigAssumption DEF Init, MutualExclusion, Applied, PeriodDone, DutyDone, InLock
<1>2. Init => AtomicInv
  BY <1>1, TypeInit DEF AtomicInv
<1>3. AtomicInv /\ [Next]_vars => AtomicInv'
  BY TypeStep, MutualExclusionStep, AppliedStep DEF AtomicInv
<1>. QED
  BY <1>2, <1>3, PTL DEF Spec

\* With any number of callers on the same channel, a call that returns 0
\* leaves the channel with the duty it set, the duty register of exactly that
\* duty and period, and its period if the prescaler can reach it.
THEOREM CallsAreAtomic == Spec => CallIsAtomic
<1>1. AtomicInv /\ [Next]_vars => [\A t \in Threads : AppliedOnReturn(t)]_vars
  <2>. SUFFICES ASSUME AtomicInv, Next, NEW t \in Threads,
                       pc[t] = "polarity", pc'[t] = "idle"
                PROVE  AppliedOnReturn(t)
    BY DEF AppliedOnReturn
  <2>1. PolarityAndLeave(t)
    <3>1. ASSUME NEW u \in Threads, UnlockedStep(u) PROVE FALSE
      BY <3>1, OutsideStep DEF AtomicInv, InLock
    <3>2. ASSUME NEW u \in Threads, EnterAndRun(u) PROVE FALSE
      BY <3>2, EnterStep DEF AtomicInv
    <3>3. ~ChannelRequested
      BY DEF ChannelRequested
    <3>4. LockedStep(t)
      BY <3>1, <3>2, <3>3, InsideStep DEF AtomicInv, Next
    <3>. QED
      BY <3>4 DEF LockedStep, PeriodRefused, PeriodApplied, ConfigDuty, Goto
  <2>2. pwm_ctrl'.prescale = pwm_ctrl.prescale
    BY <2>1 DEF PolarityAndLeave, AtomicInv, TypeOK
  <2>. QED
    BY <2>1, <2>2 DEF PolarityAndLeave, AppliedOnReturn, AtomicInv, Applied, PeriodDone,
                      DutyDone
<1>. QED
  BY <1>1, AtomicInvariant, PTL DEF Spec, CallIsAtomic

(***************************************************************************)
(* A sole configurer.  Validation happens before the lock, but with one    *)
(* configuring thread nobody else changes what it validated against.       *)
(***************************************************************************)
\* A command that names a period and a duty names a period the prescaler can
\* reach, or one of no ticks; a bystander names neither.
CommandOK(t) ==
  LET c == cmd[t]
  IN  /\ "PERIOD" \in c.mask => c.mask = {"PERIOD"} \/ c.period = 0 \/ Programmable(c.period)
      /\ t \notin Configurers => c.mask \cap {"PERIOD", "DUTY", "PERCENT"} = {}

\* The command still is what it was validated to be.
StillValid(t) ==
  LET c == cmd[t]
  IN  /\ pc[t] \in {"lock", "period"} => Valid(c)
      /\ pc[t] = "duty" => NewDuty(c) <= period_ticks

\* The duty exceeds the period only between the two assignments of one call.
DutySettled ==
  (\A t \in Configurers : pc[t] # "duty") => duty_ticks <= period_ticks

SoleInv ==
  /\ TypeOK /\ MutualExclusion
  /\ \A t \in Threads : CommandOK(t)
  /\ \A t \in Configurers : StillValid(t)
  /\ DutySettled

LEMMA SoleInit == Init => SoleInv
<1>. SUFFICES ASSUME Init PROVE SoleInv
  OBVIOUS
<1>1. TypeOK
  BY TypeInit
<1>. QED
  BY <1>1, ConfigAssumption
     DEF Init, SoleInv, MutualExclusion, CommandOK, StillValid, DutySettled, InLock,
         NoCommand, Request

\* What a step does to the command of a thread.
LEMMA CommandChange ==
  ASSUME TypeOK, [Next]_vars, NEW t \in Threads
  PROVE  \/ cmd'[t] = cmd[t] \/ cmd'[t] = NoCommand \/ Call(t)
         \/ ResolvePercent(t) /\ "PERCENT" \in cmd[t].mask
<1>1. ASSUME NEW u \in Threads \ {t}, UnlockedStep(u) \/ EnterAndRun(u) \/ LockedStep(u)
      PROVE  cmd'[t] = cmd[t]
  BY <1>1, OutsideStep, InsideStep, EnterStep
<1>2. ASSUME UnlockedStep(t) \/ EnterAndRun(t) \/ LockedStep(t)
      PROVE  cmd'[t] = cmd[t] \/ cmd'[t] = NoCommand \/ Call(t)
               \/ (ResolvePercent(t) /\ "PERCENT" \in cmd[t].mask)
  BY <1>2 DEF UnlockedStep, ResolvePercent, CheckRejects, CheckPasses, EnterAndRun,
              LockedStep, PeriodRefused, PeriodApplied, ConfigDuty, PolarityAndLeave,
              Return, TypeOK
<1>3. CASE ChannelRequested \/ UNCHANGED vars
  BY <1>3 DEF ChannelRequested, vars
<1>. QED
  BY <1>1, <1>2, <1>3 DEF Next

LEMMA CommandStep ==
  ASSUME SoleConfigurer, SoleInv, [Next]_vars, NEW t \in Threads
  PROVE  CommandOK(t)'
<1>. USE DEF SoleInv
<1>1. CASE cmd'[t] = cmd[t]
  BY <1>1 DEF CommandOK
<1>2. CASE cmd'[t] = NoCommand
  BY <1>2 DEF CommandOK, NoCommand, Request
<1>3. CASE Call(t)
  <2>1. PICK mask \in MasksOf(t), period \in PeriodsNs, duty \in DutiesNs,
             percent \in Percents, polarity \in BOOLEAN :
          cmd' = [cmd EXCEPT ![t] =
                    Request(mask, NsToTicks(tick_hz, period), NsToTicks(tick_hz, duty),
                            percent, polarity)]
    BY <1>3 DEF Call
  <2>2. cmd'[t].mask = mask /\
          ("PERIOD" \in mask => cmd'[t].period = NsToTicks(tick_hz, period))
    BY <2>1 DEF TypeOK, Request
  <2>3. t \notin Configurers => mask \cap {"PERIOD", "DUTY", "PERCENT"} = {}
    BY DEF MasksOf, SysfsMasks
  <2>4. tick_hz = 0 => mask \in SysfsMasks
    BY DEF MasksOf
  <2>5. tick_hz # 0 => LET ticks == NsToTicks(tick_hz, period)
                       IN  ticks = 0 \/ Programmable(ticks)
    BY DEF TypeOK, SoleConfigurer
  <2>. QED
    BY <2>2, <2>3, <2>4, <2>5 DEF CommandOK, SysfsMasks
<1>4. CASE ResolvePercent(t) /\ "PERCENT" \in cmd[t].mask
  <2>1. /\ cmd'[t].mask = (cmd[t].mask \ {"PERCENT"}) \cup {"DUTY"}
        /\ cmd'[t].period = cmd[t].period
    BY <1>4 DEF ResolvePercent, TypeOK, Command
  <2>. QED
    BY <1>4, <2>1 DEF CommandOK
<1>. QED
  BY <1>1, <1>2, <1>3, <1>4, CommandChange

\* Steps of the configurer itself, and steps that leave period and duty alone.
LEMMA ValidStep ==
  ASSUME SoleConfigurer, SoleInv, [Next]_vars, NEW t \in Configurers
  PROVE  StillValid(t)' /\ DutySettled'
<1>. USE DEF SoleInv
<1>1. t \in Threads /\ \A u \in Configurers : u = t
  BY ConfigAssumption DEF SoleConfigurer
<1>2. ASSUME UNCHANGED <<period_ticks, duty_ticks>>, pc'[t] = pc[t], cmd'[t] = cmd[t]
      PROVE  StillValid(t)' /\ DutySettled'
  BY <1>1, <1>2 DEF StillValid, DutySettled, Valid, NewDuty, NewPeriod
<1>3. ASSUME NEW u \in Threads, u # t, UnlockedStep(u) \/ EnterAndRun(u) \/ LockedStep(u)
      PROVE  UNCHANGED <<period_ticks, duty_ticks>> /\ pc'[t] = pc[t] /\ cmd'[t] = cmd[t]
  <2>1. pc'[t] = pc[t] /\ cmd'[t] = cmd[t]
    BY <1>1, <1>3, OutsideStep, InsideStep, EnterStep
  <2>2. cmd[u].mask \cap {"PERIOD", "DUTY", "PERCENT"} = {}
    BY <1>1, <1>3 DEF CommandOK
  <2>3. UNCHANGED <<period_ticks, duty_ticks>>
    BY <1>3, <2>2 DEF UnlockedStep, Call, ResolvePercent, CheckRejects, CheckPasses,
                      EnterAndRun, LockedStep, PeriodRefused, PeriodApplied, ConfigDuty,
                      PolarityAndLeave, channel
  <2>. QED
    BY <2>1, <2>3
<1>4. CASE ChannelRequested \/ UNCHANGED vars
  BY <1>2, <1>4 DEF ChannelRequested, vars, channel
<1>5. CASE UnlockedStep(t)
  <2>1. CASE CheckPasses(t)
    BY <1>1, <2>1 DEF CheckPasses, Goto, StillValid, DutySettled, TypeOK, channel, Valid,
                      NewDuty, NewPeriod
  <2>2. CASE Call(t) \/ ResolvePercent(t) \/ CheckRejects(t)
    BY <1>1, <2>2 DEF Call, ResolvePercent, CheckRejects, Goto, StillValid, DutySettled,
                      TypeOK, channel
  <2>. QED
    BY <1>5, <2>1, <2>2 DEF UnlockedStep
<1>6. CASE EnterAndRun(t)
  BY <1>1, <1>6, EnterStep DEF EnterAndRun, Goto, StillValid, DutySettled, TypeOK, channel,
                               Valid, NewDuty, NewPeriod
<1>7. CASE PeriodRefused(t)
  <2>1. /\ pc[t] = "period" /\ pc'[t] = "duty" /\ cmd' = cmd
        /\ UNCHANGED <<period_ticks, duty_ticks>>
    BY <1>1, <1>7 DEF PeriodRefused, Goto, TypeOK, channel
  <2>2. Valid(cmd[t]) /\ duty_ticks <= period_ticks
    BY <1>1, <2>1 DEF StillValid, DutySettled
  <2>3. NewDuty(cmd[t]) <= period_ticks
    <3>1. NewDuty(cmd[t]) \in Nat /\ period_ticks \in Nat
      BY <1>1, WordsNotEmpty DEF TypeOK, Command, NewDuty
    <3>. QED
      BY <1>1, <1>7, <2>2, <3>1 DEF PeriodRefused, CommandOK, Valid, NewDuty, NewPeriod
  <2>. QED
    BY <1>1, <2>1, <2>3 DEF StillValid, DutySettled, NewDuty
<1>8. CASE PeriodApplied(t)
  <2>1. /\ pc[t] = "period" /\ pc'[t] = "duty" /\ cmd' = cmd
        /\ "PERIOD" \in cmd[t].mask
        /\ period_ticks' = cmd[t].period /\ duty_ticks' = duty_ticks
    BY <1>1, <1>8 DEF PeriodApplied, Goto, TypeOK
  <2>2. Valid(cmd[t])
    BY <1>1, <2>1 DEF StillValid
  <2>. QED
    BY <1>1, <2>1, <2>2 DEF StillValid, DutySettled, Valid, NewDuty, NewPeriod
<1>9. CASE ConfigDuty(t)
  <2>1. /\ pc[t] = "duty" /\ pc'[t] = "polarity" /\ period_ticks' = period_ticks
        /\ duty_ticks' = NewDuty(cmd[t])
    BY <1>1, <1>9 DEF ConfigDuty, Goto, TypeOK, NewDuty
  <2>. QED
    BY <1>1, <2>1 DEF StillValid, DutySettled
<1>10. CASE PolarityAndLeave(t)
  BY <1>1, <1>10 DEF PolarityAndLeave, Goto, TypeOK, StillValid, DutySettled
<1>. QED
  BY <1>1, <1>2, <1>3, <1>4, <1>5, <1>6, <1>7, <1>8, <1>9, <1>10 DEF Next, LockedStep

LEMMA SoleStep ==
  ASSUME SoleConfigurer, SoleInv, [Next]_vars
  PROVE  SoleInv'
<1>1. TypeOK' /\ MutualExclusion'
  BY TypeStep, MutualExclusionStep DEF SoleInv
<1>2. \A t \in Threads : CommandOK(t)'
  BY CommandStep
<1>3. \A t \in Configurers : StillValid(t)' /\ DutySettled'
  BY ValidStep
<1>4. Configurers # {}
  BY DEF SoleConfigurer
<1>. QED
  BY <1>1, <1>2, <1>3, <1>4 DEF SoleInv

LEMMA SoleKeepsDuty ==
  ASSUME SoleConfigurer, SoleInv
  PROVE  DutyWithinPeriod
BY ConfigAssumption DEF SoleConfigurer, SoleInv, MutualExclusion, DutySettled,
                        DutyWithinPeriod, InLock

\* With one configuring thread, however many others start and stop the channel,
\* the duty never exceeds the period when the lock is free.
THEOREM SoleConfigurerKeepsDuty ==
  ASSUME SoleConfigurer
  PROVE  Spec => []DutyWithinPeriod
<1>1. SoleInv /\ [Next]_vars => SoleInv'
  BY SoleStep
<1>. QED
  BY <1>1, SoleInit, SoleKeepsDuty, PTL DEF Spec

(***************************************************************************)
(* Paired calls.  A call that names period and duty is validated against   *)
(* itself, so it does not matter what the others do before it has the lock.*)
(***************************************************************************)
Paired(t) ==
  LET c == cmd[t]
  IN  /\ c.mask \cap {"PERIOD", "DUTY", "PERCENT"} # {} =>
           /\ "PERIOD" \in c.mask /\ c.mask \cap {"DUTY", "PERCENT"} # {}
           /\ c.period = 0 \/ Programmable(c.period)
      /\ pc[t] \notin {"idle", "percent"} => "PERCENT" \notin c.mask
      /\ (pc[t] \in {"lock"} \cup InLock /\ "PERIOD" \in c.mask) => c.duty <= c.period

\* The duty is within the period, or about to be replaced by that of the period.
DutyFollows ==
  \/ duty_ticks <= period_ticks
  \/ \E t \in Threads : /\ pc[t] = "duty" /\ "DUTY" \in cmd[t].mask

PairInv ==
  /\ AtomicInv
  /\ \A t \in Threads : Paired(t)
  /\ DutyFollows

\* What a caller asks for, once the channel has its clock.
LEMMA PairedCall ==
  ASSUME PairedCalls, TypeOK, NEW t \in Threads, Call(t)
  PROVE  Paired(t)'
<1>1. PICK mask \in MasksOf(t), period \in PeriodsNs, duty \in DutiesNs,
           percent \in Percents, polarity \in BOOLEAN :
        cmd' = [cmd EXCEPT ![t] =
                  Request(mask, NsToTicks(tick_hz, period), NsToTicks(tick_hz, duty),
                          percent, polarity)]
  BY DEF Call
<1>2. /\ cmd'[t].mask = mask /\ pc'[t] = "percent"
      /\ "PERIOD" \in mask => cmd'[t].period = NsToTicks(tick_hz, period)
  BY <1>1 DEF Call, Goto, TypeOK, Request
<1>3. \/ t \in Configurers /\ \E flags \in FlagSets : mask = MaskOf(t, flags)
      \/ mask \in {{"START"}, {"STOP"}}
  BY DEF MasksOf
<1>4. "PERIOD" \in mask <=> mask \cap {"DUTY", "PERCENT"} # {}
  BY <1>3 DEF PairedCalls
<1>5. tick_hz = 0 => mask \cap {"PERIOD", "DUTY", "PERCENT"} = {}
  BY <1>4 DEF MasksOf, SysfsMasks
<1>6. tick_hz # 0 => LET ticks == NsToTicks(tick_hz, period)
                     IN  ticks = 0 \/ Programmable(ticks)
  BY DEF TypeOK, PairedCalls
<1>. QED
  BY <1>2, <1>4, <1>5, <1>6 DEF Paired, InLock

LEMMA PairedStep ==
  ASSUME PairedCalls, PairInv, [Next]_vars, NEW u \in Threads
  PROVE  Paired(u)'
<1>. USE DEF PairInv, AtomicInv
<1>1. ASSUME UNCHANGED <<pc[u], cmd[u]>> PROVE Paired(u)'
  BY <1>1 DEF Paired
<1>2. CASE ChannelRequested \/ UNCHANGED vars
  BY <1>1, <1>2 DEF ChannelRequested, vars
<1>3. ASSUME NEW t \in Threads \ {u}, UnlockedStep(t) \/ EnterAndRun(t) \/ LockedStep(t)
      PROVE  Paired(u)'
  BY <1>1, <1>3, OutsideStep, InsideStep, EnterStep
<1>4. CASE ResolvePercent(u)
  <2>1. /\ pc[u] = "percent" /\ pc'[u] = "check" /\ cmd'[u].period = cmd[u].period
        /\ IF "PERCENT" \in cmd[u].mask
           THEN cmd'[u].mask = (cmd[u].mask \ {"PERCENT"}) \cup {"DUTY"}
           ELSE cmd'[u].mask = cmd[u].mask
    BY <1>4 DEF ResolvePercent, Goto, TypeOK, Command
  <2>. QED
    BY <2>1 DEF Paired, InLock
<1>5. CASE CheckPasses(u)
  BY <1>5 DEF CheckPasses, Goto, TypeOK, Valid, NewDuty, NewPeriod, Paired
<1>6. CASE CheckRejects(u) \/ PolarityAndLeave(u)
  BY <1>6 DEF CheckRejects, PolarityAndLeave, Return, Goto, TypeOK, NoCommand, Request,
              Paired, InLock
<1>7. CASE EnterAndRun(u) \/ PeriodRefused(u) \/ PeriodApplied(u) \/ ConfigDuty(u)
  BY <1>7 DEF EnterAndRun, PeriodRefused, PeriodApplied, ConfigDuty, Goto, TypeOK, Paired,
              InLock
<1>. QED
  BY <1>2, <1>3, <1>4, <1>5, <1>6, <1>7, PairedCall DEF Next, UnlockedStep, LockedStep

LEMMA DutyFollowsStep ==
  ASSUME PairInv, [Next]_vars
  PROVE  DutyFollows'
<1>. USE DEF PairInv, AtomicInv
<1>1. CASE ChannelRequested \/ UNCHANGED vars
  BY <1>1 DEF ChannelRequested, vars, channel, DutyFollows
<1>2. ASSUME NEW t \in Threads, UnlockedStep(t) PROVE DutyFollows'
  <2>1. \A u \in Threads : pc[u] = "duty" => pc'[u] = "duty" /\ cmd'[u] = cmd[u]
    BY <1>2, OutsideStep DEF InLock
  <2>. QED
    BY <1>2, <2>1, OutsideStep DEF DutyFollows, channel
<1>3. ASSUME NEW t \in Threads, EnterAndRun(t) PROVE DutyFollows'
  <2>1. \A u \in Threads : pc[u] = "duty" => pc'[u] = "duty"
    BY <1>3 DEF EnterAndRun, Goto, TypeOK
  <2>. QED
    BY <1>3, <2>1 DEF EnterAndRun, DutyFollows, channel
<1>4. ASSUME NEW t \in Threads, LockedStep(t) PROVE DutyFollows'
  <2>1. \A u \in Threads \ {t} : pc[u] # "duty"
    BY <1>4, InsideStep DEF MutualExclusion, InLock
  <2>2. CASE PeriodRefused(t)
    BY <2>1, <2>2 DEF PeriodRefused, Goto, TypeOK, DutyFollows, channel
  <2>3. CASE PeriodApplied(t)
    <3>1. "DUTY" \in cmd[t].mask
      BY <2>3 DEF PeriodApplied, Goto, Paired
    <3>2. pc'[t] = "duty" /\ cmd' = cmd
      BY <2>3 DEF PeriodApplied, Goto, TypeOK
    <3>. QED
      BY <3>1, <3>2 DEF DutyFollows
  <2>4. CASE ConfigDuty(t)
    <3>1. CASE "DUTY" \notin cmd[t].mask
      BY <2>1, <2>4, <3>1 DEF ConfigDuty, DutyFollows
    <3>2. CASE "DUTY" \in cmd[t].mask
      <4>1. /\ pc[t] = "duty" /\ duty_ticks' = cmd[t].duty /\ period_ticks' = period_ticks
        BY <2>4, <3>2 DEF ConfigDuty, Goto
      <4>2. /\ "PERIOD" \in cmd[t].mask /\ cmd[t].duty <= cmd[t].period
            /\ cmd[t].period = 0 \/ Programmable(cmd[t].period)
        BY <3>2, <4>1 DEF Paired, InLock
      <4>3. Programmable(cmd[t].period) => period_ticks = cmd[t].period
        BY <4>1, <4>2 DEF Applied, PeriodDone
      <4>4. /\ cmd[t].duty \in Nat /\ period_ticks \in Nat
        BY WordsNotEmpty DEF TypeOK, Command
      <4>5. duty_ticks' <= period_ticks'
        BY <4>1, <4>2, <4>3, <4>4
      <4>. QED
        BY <4>5 DEF DutyFollows
    <3>. QED
      BY <3>1, <3>2
  <2>5. CASE PolarityAndLeave(t)
    BY <2>1, <2>5 DEF PolarityAndLeave, Goto, DutyFollows
  <2>. QED
    BY <1>4, <2>2, <2>3, <2>4, <2>5 DEF LockedStep
<1>. QED
  BY <1>1, <1>2, <1>3, <1>4 DEF Next

\* With any number of configuring threads, if every call sets period and duty
\* together, the duty never exceeds the period when the lock is free: the race
\* needs a call that sets one of the two.
THEOREM PairedCallsKeepDuty ==
  ASSUME PairedCalls
  PROVE  Spec => []DutyWithinPeriod
<1>1. Init => AtomicInv
  BY TypeInit, ConfigAssumption
     DEF Init, AtomicInv, MutualExclusion, Applied, PeriodDone, DutyDone, InLock
<1>2. Init => PairInv
  BY <1>1 DEF Init, PairInv, Paired, DutyFollows, InLock, NoCommand, Request
<1>3. PairInv /\ [Next]_vars => PairInv'
  <2>1. AtomicInv /\ [Next]_vars => AtomicInv'
    BY TypeStep, MutualExclusionStep, AppliedStep DEF AtomicInv
  <2>. QED
    BY <2>1, PairedStep, DutyFollowsStep DEF PairInv
<1>4. PairInv => DutyWithinPeriod
  BY ConfigAssumption DEF PairInv, AtomicInv, MutualExclusion, InLock, DutyFollows,
                          DutyWithinPeriod
<1>. QED
  BY <1>2, <1>3, <1>4, PTL DEF Spec

\* What such a call asks for, in ticks, on its way to the validation.
Documented(t) ==
  LET c == cmd[t]
  IN  /\ pc[t] = "percent" =>
           /\ c.mask # {}
           /\ "PERIOD" \in c.mask <=> c.mask \cap {"DUTY", "PERCENT"} # {}
           /\ "PERIOD" \in c.mask => c.period = 0 \/ Programmable(c.period)
           /\ "DUTY" \in c.mask => c.duty <= c.period
           /\ c.percent \in 0 .. 100
      /\ pc[t] = "check" =>
           /\ c.mask # {}
           /\ "PERIOD" \in c.mask <=> "DUTY" \in c.mask
           /\ "DUTY" \in c.mask => c.duty <= c.period

LEMMA DocumentedCall ==
  ASSUME DocumentedCalls, TypeOK, NEW t \in Threads, Call(t)
  PROVE  Documented(t)'
<1>1. PICK mask \in MasksOf(t), period \in PeriodsNs, duty \in DutiesNs,
           percent \in Percents, polarity \in BOOLEAN :
        cmd' = [cmd EXCEPT ![t] =
                  Request(mask, NsToTicks(tick_hz, period), NsToTicks(tick_hz, duty),
                          percent, polarity)]
  BY DEF Call
<1>2. /\ cmd'[t] = Request(mask, NsToTicks(tick_hz, period), NsToTicks(tick_hz, duty),
                           percent, polarity)
      /\ pc'[t] = "percent"
  BY <1>1 DEF Call, Goto, TypeOK
<1>3. \/ t \in Configurers /\ \E flags \in FlagSets : mask = MaskOf(t, flags)
      \/ mask \in {{"START"}, {"STOP"}}
  BY DEF MasksOf
<1>4. mask # {} /\ ("PERIOD" \in mask <=> mask \cap {"DUTY", "PERCENT"} # {})
  BY <1>3 DEF DocumentedCalls, PairedCalls, MaskOf, ApiMask
<1>5. tick_hz = 0 => mask \cap {"PERIOD", "DUTY", "PERCENT"} = {}
  BY <1>4 DEF MasksOf, SysfsMasks
<1>6. tick_hz # 0 => /\ NsToTicks(tick_hz, period) = 0 \/ Programmable(NsToTicks(tick_hz, period))
                     /\ NsToTicks(tick_hz, duty) <= NsToTicks(tick_hz, period)
  <2>1. tick_hz # 0 => tick_hz = TICK_HZ /\ TICK_HZ \in 1 .. NSEC_PER_SEC
    BY ConfigAssumption DEF TypeOK
  <2>2. period \in Words /\ duty \in Words /\ duty <= period
    BY DEF DocumentedCalls
  <2>. QED
    BY <2>1, <2>2, ConversionKeepsOrder DEF DocumentedCalls, PairedCalls
<1>7. percent \in 0 .. 100 /\ 0 \in 0 .. 100
  BY DEF DocumentedCalls
<1>. QED
  BY <1>2, <1>4, <1>5, <1>6, <1>7 DEF Documented, Request

LEMMA DocumentedStep ==
  ASSUME DocumentedCalls, TypeOK, \A t \in Threads : Documented(t), [Next]_vars,
         NEW u \in Threads
  PROVE  Documented(u)'
<1>1. ASSUME UNCHANGED <<pc[u], cmd[u]>> PROVE Documented(u)'
  BY <1>1 DEF Documented
<1>2. ASSUME pc'[u] \notin {"percent", "check"} PROVE Documented(u)'
  BY <1>2 DEF Documented
<1>3. CASE ChannelRequested \/ UNCHANGED vars
  BY <1>1, <1>3 DEF ChannelRequested, vars
<1>4. ASSUME NEW t \in Threads \ {u}, UnlockedStep(t) \/ EnterAndRun(t) \/ LockedStep(t)
      PROVE  Documented(u)'
  BY <1>1, <1>4, OutsideStep, InsideStep, EnterStep
<1>5. CASE ResolvePercent(u)
  <2>1. pc[u] = "percent" /\ pc'[u] = "check" /\ Documented(u)
    BY <1>5 DEF ResolvePercent, Goto, TypeOK
  <2>2. CASE "PERCENT" \notin cmd[u].mask
    BY <1>5, <2>1, <2>2 DEF ResolvePercent, Documented
  <2>3. CASE "PERCENT" \in cmd[u].mask
    <3>1. /\ cmd'[u].mask = (cmd[u].mask \ {"PERCENT"}) \cup {"DUTY"}
          /\ cmd'[u].period = cmd[u].period
          /\ cmd'[u].duty = PercentToTicks(cmd[u].period, cmd[u].percent)
      BY <1>5, <2>1, <2>3 DEF ResolvePercent, Documented, TypeOK, Command
    <3>2. /\ cmd[u].period \in Words
          /\ cmd[u].period = 0 \/ Programmable(cmd[u].period)
          /\ cmd[u].percent \in 0 .. 100
      BY <2>1, <2>3 DEF Documented, TypeOK, Command
    <3>3. PercentToTicks(cmd[u].period, cmd[u].percent) <= cmd[u].period
      <4>1. 100 * PERVAL_RANGE * (PRESCALE_MAX + 1) < WORD
        BY DEF DocumentedCalls
      <4>2. \A p \in Words, n \in 0 .. 100 :
              Programmable(p) \/ p = 0 => PercentToTicks(p, n) <= p
        BY <4>1, PercentWithinPeriod, Zenon
      <4>. QED
        BY <3>2, <4>2, Zenon
    <3>. QED
      BY <2>1, <2>3, <3>1, <3>3 DEF Documented
  <2>. QED
    BY <2>2, <2>3
<1>6. CASE CheckRejects(u) \/ CheckPasses(u) \/ EnterAndRun(u)
  BY <1>2, <1>6 DEF CheckRejects, CheckPasses, EnterAndRun, Goto, TypeOK
<1>7. CASE LockedStep(u)
  BY <1>2, <1>7 DEF LockedStep, PeriodRefused, PeriodApplied, ConfigDuty, PolarityAndLeave,
                    Goto, TypeOK
<1>. QED
  BY <1>3, <1>4, <1>5, <1>6, <1>7, DocumentedCall DEF Next, UnlockedStep

\* Calls that set period and duty together, and keep to a duty within the period or a
\* percentage within a hundred, are never refused: neither the rounding to ticks
\* nor the product of the percentage makes one invalid, whatever the others do.
THEOREM DocumentedCallsPass ==
  ASSUME DocumentedCalls
  PROVE  Spec => []NothingRefused
<1>1. Init => \A t \in Threads : Documented(t)
  BY DEF Init, Documented
<1>2. TypeOK /\ (\A t \in Threads : Documented(t)) /\ [Next]_vars
        => (\A t \in Threads : Documented(t))'
  BY DocumentedStep
<1>3. (\A t \in Threads : Documented(t)) => NothingRefused
  BY DEF Documented, NothingRefused, Valid, NewDuty, NewPeriod
<1>. QED
  BY <1>1, <1>2, <1>3, TypeCorrect, PTL DEF Spec
=============================================================================
