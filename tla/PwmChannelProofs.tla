-------------------------- MODULE PwmChannelProofs --------------------------
(***************************************************************************)
(* Theorems about a channel that is read back, suspended and resumed while *)
(* it is configured: for every number of callers, every width of the words *)
(* and fields, and every interleaving of the reads, the copies and the     *)
(* calls.                                                                  *)
(*                                                                         *)
(*   Types                 -> ChannelTypeCorrect                           *)
(*   Programmable periods  -> ReaderNeverTraps                             *)
(*   An undisturbed sleep  -> SnapshotIsExact                              *)
(*   A sole configurer     -> QuietReadsAgree                              *)
(*   Frozen configurers    -> ResumeRestoresConfiguration,                 *)
(*                            ResumeSwitchesOnLast                         *)
(***************************************************************************)
EXTENDS PwmChannel, PwmConfigProofs

(***************************************************************************)
(* Types.                                                                  *)
(***************************************************************************)
LEMMA NanosecondsType ==
  \A hz \in Nat, ticks \in Nat : TicksToNs(hz, ticks) \in Words
<1>1. \A n \in Int : n % WORD \in Words
  BY WordsNotEmpty DEF Words
<1>2. ASSUME NEW hz \in Nat \ {0}, NEW ticks \in Nat
      PROVE  (ticks * NSEC_PER_SEC) \div hz \in Int
  <2>1. ticks * NSEC_PER_SEC \in Nat
    BY NumbersAssumption
  <2>. QED
    BY <2>1
<1>. QED
  BY <1>1, <1>2, WordsNotEmpty DEF TicksToNs

\* A word divided by anything is a word.
LEMMA QuotientType ==
  ASSUME NEW a \in Words, NEW b \in Nat \ {0}
  PROVE  a \div b \in Words
<1>. DEFINE k == a \div b
<1>1. a \in Nat
  BY WordsNotEmpty
<1>2. k \in Nat /\ a = b * k + (a % b) /\ a % b \in 0 .. b - 1
  BY <1>1
<1>. HIDE DEF k
<1>3. k * 1 <= k * b
  BY <1>2, TimesMonotonic
<1>4. k <= a
  BY <1>1, <1>2, <1>3
<1>. QED
  BY <1>2, <1>4, WordsNotEmpty DEF Words, k

LEMMA ReadsType ==
  ASSUME TypeOK
  PROVE  DutyNs \in Words /\ PeriodNs \in Words
<1>1. tick_hz \in Nat /\ duty_ticks \in Nat /\ period_ticks \in Nat
  BY WordsNotEmpty, ConfigAssumption DEF TypeOK
<1>. QED
  BY <1>1, NanosecondsType DEF DutyNs, PeriodNs

LEMMA PercentType ==
  ASSUME NEW duty_ns \in Words, NEW period_ns \in Words, period_ns # 0
  PROVE  PercentOf(duty_ns, period_ns) \in Words
<1>1. (duty_ns * 100) % WORD \in Words
  BY WordsNotEmpty DEF Words
<1>2. period_ns \in Nat \ {0}
  BY WordsNotEmpty
<1>. QED
  BY <1>1, <1>2, QuotientType DEF PercentOf

LEMMA ReaderTypeStep ==
  ASSUME TypeOK, ReaderTypeOK, ReaderStep
  PROVE  ReaderTypeOK'
<1>. USE DEF ReaderTypeOK, ReaderGoto
<1>1. DutyNs \in Words /\ PeriodNs \in Words
  BY ReadsType
<1>2. CASE ReadDuty
  BY <1>1, <1>2, WordsNotEmpty DEF ReadDuty, NoConf
<1>3. CASE ReadPeriod
  BY <1>1, <1>3 DEF ReadPeriod
<1>4. CASE TestFails
  BY <1>4, WordsNotEmpty DEF TestFails, NoPercentage, Words
<1>5. CASE TestPasses
  BY <1>5 DEF TestPasses
<1>6. CASE ReadNumerator
  BY <1>1, <1>6 DEF ReadNumerator
<1>7. CASE Divide
  <2>1. conf' = [conf EXCEPT !.duty_percent = PercentOf(conf.duty_percent, PeriodNs)]
    BY <1>7 DEF Divide
  <2>2. PercentOf(conf.duty_percent, PeriodNs) \in Words
    BY <1>1, <1>7, PercentType DEF Divide
  <2>. QED
    BY <1>7, <2>1, <2>2 DEF Divide
<1>8. CASE ReadPolarity
  BY <1>8, WordsNotEmpty DEF ReadPolarity, NoConf
<1>. QED
  BY <1>2, <1>3, <1>4, <1>5, <1>6, <1>7, <1>8 DEF ReaderStep

LEMMA NotSavedType ==
  /\ ResetCtrl \in [prescale : 0 .. PRESCALE_MAX, enabled : BOOLEAN, inverted : BOOLEAN]
  /\ 0 \in 0 .. FIELD_RANGE - 1
  /\ NotSaved \in [pwm_ctrl : [prescale : 0 .. PRESCALE_MAX, enabled : BOOLEAN,
                               inverted : BOOLEAN],
                   pwm_duty : 0 .. FIELD_RANGE - 1, pwm_perval : 0 .. FIELD_RANGE - 1]
<1>1. ResetCtrl \in [prescale : 0 .. PRESCALE_MAX, enabled : BOOLEAN, inverted : BOOLEAN]
  BY NumbersAssumption DEF ResetCtrl
<1>2. 0 \in 0 .. FIELD_RANGE - 1
  BY FieldTypes
<1>. QED
  BY <1>1, <1>2 DEF NotSaved

LEMMA PowerTypeStep ==
  ASSUME TypeOK, PowerTypeOK, PowerStep
  PROVE  TypeOK' /\ PowerTypeOK'
<1>. USE DEF PowerTypeOK, PowerStages, Power
<1>1. CASE Freeze
  BY <1>1 DEF Freeze, TypeOK, vars, channel, registers
<1>2. CASE SaveCtrl \/ SaveDuty \/ SavePerval
  BY <1>2 DEF SaveCtrl, SaveDuty, SavePerval, TypeOK, vars, channel, registers
<1>3. CASE Sleep
  BY <1>3, NotSavedType DEF Sleep, TypeOK, channel
<1>4. CASE SleepAborted
  BY <1>4 DEF SleepAborted, TypeOK, vars, channel, registers
<1>5. CASE RestoreDuty \/ RestorePerval \/ RestoreCtrl
  BY <1>5 DEF RestoreDuty, RestorePerval, RestoreCtrl, TypeOK, channel
<1>6. CASE Thaw
  BY <1>6, NotSavedType DEF Thaw, TypeOK, vars, channel, registers
<1>. QED
  BY <1>1, <1>2, <1>3, <1>4, <1>5, <1>6 DEF PowerStep

LEMMA ChannelTypeInit == ChannelInit => ChannelTypeOK
<1>. SUFFICES ASSUME ChannelInit PROVE ChannelTypeOK
  OBVIOUS
<1>1. TypeOK
  BY TypeInit DEF ChannelInit
<1>2. ReaderTypeOK
  BY WordsNotEmpty DEF ChannelInit, ReaderInit, ReaderTypeOK, NoConf
<1>3. PowerTypeOK
  BY NotSavedType DEF ChannelInit, PowerInit, PowerTypeOK, PowerStages
<1>. QED
  BY <1>1, <1>2, <1>3 DEF ChannelTypeOK

LEMMA ChannelTypeStep ==
  ChannelTypeOK /\ [ChannelNext]_channelVars => ChannelTypeOK'
<1>. SUFFICES ASSUME ChannelTypeOK, [ChannelNext]_channelVars PROVE ChannelTypeOK'
  OBVIOUS
<1>. USE DEF ChannelTypeOK
<1>1. CASE Next /\ ReaderWaits /\ PowerWaits
  <2>1. TypeOK'
    BY <1>1, TypeStep
  <2>2. ReaderTypeOK'
    BY <1>1 DEF ReaderWaits, ReaderTypeOK
  <2>3. PowerTypeOK'
    BY <1>1 DEF PowerWaits, PowerTypeOK
  <2>. QED
    BY <2>1, <2>2, <2>3
<1>2. CASE PowerStep /\ UNCHANGED readerVars
  BY <1>2, PowerTypeStep DEF readerVars, ReaderTypeOK
<1>3. CASE ReaderStep /\ UNCHANGED powerVars
  <2>1. UNCHANGED vars
    BY <1>3 DEF ReaderStep
  <2>2. TypeOK'
    BY <2>1, TypeStep
  <2>. QED
    BY <1>3, <2>2, ReaderTypeStep DEF powerVars, PowerTypeOK
<1>4. CASE UNCHANGED channelVars
  <2>1. UNCHANGED vars
    BY <1>4 DEF channelVars
  <2>2. TypeOK'
    BY <2>1, TypeStep
  <2>. QED
    BY <1>4, <2>2 DEF channelVars, readerVars, powerVars, ReaderTypeOK, PowerTypeOK
<1>. QED
  BY <1>1, <1>2, <1>3, <1>4 DEF ChannelNext

\* Whatever is read back fits the words of the caller's structure, and the copy
\* of the registers restores no bit the driver does not own.
THEOREM ChannelTypeCorrect == ChannelSpec => []ChannelTypeOK
BY ChannelTypeInit, ChannelTypeStep, PTL DEF ChannelSpec

(***************************************************************************)
(* The reader.  The registers cannot witness that the period is one that   *)
(* reads as more than zero while they are being restored, so the invariant *)
(* is about the channel structure alone.                                   *)
(***************************************************************************)
PeriodProgrammable == period_ticks > 0 => Programmable(period_ticks)

PeriodSeen == rpc \in {"numerator", "divide"} => period_ticks > 0 /\ tick_hz # 0

ReaderInv == ChannelTypeOK /\ PeriodProgrammable /\ PeriodSeen

LEMMA ProgrammableStep ==
  TypeOK /\ PeriodProgrammable /\ [Next]_vars => PeriodProgrammable'
<1>. SUFFICES ASSUME TypeOK, PeriodProgrammable, [Next]_vars PROVE PeriodProgrammable'
  OBVIOUS
<1>1. ASSUME NEW t \in Threads, PeriodApplied(t) PROVE Programmable(period_ticks')
  BY <1>1 DEF PeriodApplied
<1>2. (\E t \in Threads : PeriodApplied(t)) \/ UNCHANGED period_ticks
  BY DEF Next, UnlockedStep, LockedStep, ChannelRequested, Call, ResolvePercent,
         CheckRejects, CheckPasses, EnterAndRun, PeriodRefused, ConfigDuty,
         PolarityAndLeave, vars, channel
<1>. QED
  BY <1>1, <1>2 DEF PeriodProgrammable

\* Suspend and resume do not touch the channel structure.
LEMMA PowerKeepsChannel ==
  ASSUME PowerStep
  PROVE  UNCHANGED <<channel, lock, pc, cmd>>
BY DEF PowerStep, Freeze, SaveCtrl, SaveDuty, SavePerval, Sleep, SleepAborted,
       RestoreDuty, RestorePerval, RestoreCtrl, Thaw, vars

LEMMA ReaderInvInit == ChannelInit => ReaderInv
<1>1. ChannelInit => PeriodProgrammable /\ PeriodSeen
  BY DEF ChannelInit, Init, ReaderInit, PeriodProgrammable, PeriodSeen
<1>. QED
  BY <1>1, ChannelTypeInit DEF ReaderInv

LEMMA ReaderInvStep == ReaderInv /\ [ChannelNext]_channelVars => ReaderInv'
<1>. SUFFICES ASSUME ReaderInv, [ChannelNext]_channelVars PROVE ReaderInv'
  OBVIOUS
<1>. USE DEF ReaderInv
<1>1. ChannelTypeOK'
  BY ChannelTypeStep
<1>2. CASE Next /\ ReaderWaits
  <2>1. PeriodProgrammable'
    BY <1>2, ProgrammableStep DEF ChannelTypeOK
  <2>2. PeriodSeen'
    BY <1>2, PeriodStaysPositive DEF ReaderWaits, PeriodSeen, ChannelTypeOK
  <2>. QED
    BY <1>1, <2>1, <2>2
<1>3. CASE PowerStep /\ UNCHANGED readerVars
  BY <1>1, <1>3, PowerKeepsChannel DEF readerVars, channel, PeriodProgrammable, PeriodSeen
<1>4. CASE ReaderStep
  <2>1. UNCHANGED <<period_ticks, tick_hz>>
    BY <1>4 DEF ReaderStep, vars, channel
  <2>2. rpc' \in {"numerator", "divide"} => TestPasses \/ rpc = "numerator"
    BY <1>4 DEF ReaderStep, ReadDuty, ReadPeriod, TestFails, TestPasses, ReadNumerator,
                Divide, ReadPolarity, ReaderGoto
  <2>3. TestPasses => period_ticks > 0 /\ tick_hz # 0
    BY ReadablePeriod DEF TestPasses, ChannelTypeOK
  <2>. QED
    BY <1>1, <2>1, <2>2, <2>3 DEF PeriodProgrammable, PeriodSeen
<1>5. CASE UNCHANGED channelVars
  BY <1>1, <1>5 DEF channelVars, vars, channel, readerVars, PeriodProgrammable, PeriodSeen
<1>. QED
  BY <1>2, <1>3, <1>4, <1>5 DEF ChannelNext

\* pwm_get_duty_percent() never divides by zero: whatever other threads configure
\* and wherever the system is on its way to sleep, the period it reads to divide
\* by is no more zero than the one it tested.
THEOREM ReaderNeverTraps == ChannelSpec => []DivisorNeverZero
<1>1. ReaderInv => DivisorNeverZero
  BY PeriodReadable
     DEF ReaderInv, PeriodProgrammable, PeriodSeen, DivisorNeverZero, ChannelTypeOK
<1>. QED
  BY <1>1, ReaderInvInit, ReaderInvStep, PTL DEF ChannelSpec

(***************************************************************************)
(* The copy.  While nobody is in the locked half of a call, nobody writes  *)
(* a register but suspend and resume.                                      *)
(***************************************************************************)
Copied ==
  /\ power \in {"save_duty", "save_perval", "saved", "restored"} =>
       saved.pwm_ctrl = pwm_ctrl
  /\ power \in {"save_perval", "saved", "restore_perval", "restore_ctrl", "restored"} =>
       saved.pwm_duty = pwm_duty
  /\ power \in {"saved", "restore_ctrl", "restored"} => saved.pwm_perval = pwm_perval

CopyInv ==
  /\ ChannelTypeOK /\ MutualExclusion
  /\ (power # "awake" /\ undisturbed) => lock = NoThread /\ Copied

LEMMA OutsideKeepsRegisters ==
  ASSUME TypeOK, MutualExclusion, [Next]_vars, lock = NoThread, lock' = NoThread
  PROVE  UNCHANGED registers
<1>1. ASSUME NEW t \in Threads, UnlockedStep(t) PROVE UNCHANGED registers
  BY <1>1, OutsideStep
<1>2. ASSUME NEW t \in Threads, LockedStep(t) PROVE FALSE
  BY <1>2, InsideStep, ConfigAssumption DEF MutualExclusion
<1>3. ASSUME NEW t \in Threads, EnterAndRun(t) PROVE FALSE
  BY <1>3, EnterStep, ConfigAssumption
<1>4. CASE ChannelRequested \/ UNCHANGED vars
  BY <1>4 DEF ChannelRequested, vars
<1>. QED
  BY <1>1, <1>2, <1>3, <1>4 DEF Next

LEMMA CopyInvStep == CopyInv /\ [ChannelNext]_channelVars => CopyInv'
<1>. SUFFICES ASSUME CopyInv, [ChannelNext]_channelVars PROVE CopyInv'
  OBVIOUS
<1>. USE DEF CopyInv
<1>1. ChannelTypeOK'
  BY ChannelTypeStep
<1>2. CASE Next /\ PowerWaits
  <2>1. MutualExclusion'
    BY <1>2, MutualExclusionStep DEF ChannelTypeOK
  <2>2. ASSUME power' # "awake", undisturbed' PROVE lock' = NoThread /\ Copied'
    <3>1. /\ power # "awake" /\ undisturbed /\ lock' = NoThread
          /\ UNCHANGED <<power, saved>>
      BY <1>2, <2>2 DEF PowerWaits
    <3>2. UNCHANGED registers
      BY <1>2, <3>1, OutsideKeepsRegisters DEF ChannelTypeOK
    <3>. QED
      BY <3>1, <3>2 DEF Copied, registers
  <2>. QED
    BY <1>1, <2>1, <2>2
<1>3. CASE PowerStep
  <2>1. MutualExclusion'
    BY <1>3, PowerKeepsChannel DEF MutualExclusion
  <2>2. ASSUME power' # "awake", undisturbed' PROVE lock' = NoThread /\ Copied'
    <3>. USE DEF Power, Copied, vars, registers
    <3>1. CASE Freeze
      BY <2>2, <3>1 DEF Freeze
    <3>2. CASE SaveCtrl \/ SaveDuty \/ SavePerval
      BY <2>2, <3>2
         DEF SaveCtrl, SaveDuty, SavePerval, ChannelTypeOK, PowerTypeOK
    <3>3. CASE Sleep \/ SleepAborted
      BY <2>2, <3>3 DEF Sleep, SleepAborted
    <3>4. CASE RestoreDuty \/ RestorePerval \/ RestoreCtrl
      BY <2>2, <3>4 DEF RestoreDuty, RestorePerval, RestoreCtrl
    <3>5. CASE Thaw
      BY <2>2, <3>5 DEF Thaw
    <3>. QED
      BY <1>3, <3>1, <3>2, <3>3, <3>4, <3>5 DEF PowerStep
  <2>. QED
    BY <1>1, <2>1, <2>2
<1>4. CASE UNCHANGED <<vars, powerVars>>
  BY <1>1, <1>4 DEF vars, registers, powerVars, MutualExclusion, Copied
<1>. QED
  BY <1>2, <1>3, <1>4 DEF ChannelNext, ReaderStep, channelVars

\* The copy of the registers is a snapshot although it is read one register at a
\* time and without the lock, and a resume leaves exactly the copy: unless a call
\* entered its locked half since the processes were frozen.
THEOREM SnapshotIsExact == ChannelSpec => []SnapshotExact
<1>1. ChannelInit => CopyInv
  <2>1. ChannelInit => MutualExclusion /\ power = "awake"
    BY ConfigAssumption DEF ChannelInit, PowerInit, Init, MutualExclusion, InLock
  <2>. QED
    BY <2>1, ChannelTypeInit DEF CopyInv
<1>2. CopyInv => SnapshotExact
  BY DEF CopyInv, Copied, SnapshotExact, ChannelTypeOK, PowerTypeOK
<1>. QED
  BY <1>1, <1>2, CopyInvStep, PTL DEF ChannelSpec

(***************************************************************************)
(* Frozen configurers.  Who changes period and duty is outside the driver  *)
(* while the system is on its way to sleep; the others still start and     *)
(* stop.  Then, stage by stage, what will be in the registers after the    *)
(* resume is in the register or in its copy, and agrees with the channel.  *)
(***************************************************************************)
Frozen == power # "awake" => \A t \in Freezable : pc[t] = "idle"

BystandersOnlyRun ==
  \A t \in Threads \ Configurers : cmd[t].mask \cap {"PERIOD", "DUTY", "PERCENT"} = {}

\* What three registers must be for the channel structure.
Agree(prescale, duty, perval) ==
  /\ period_ticks > 0 => prescale = Prescale(period_ticks)
  /\ perval < PERVAL_RANGE
  /\ (period_ticks > 0 /\ duty_ticks = period_ticks) => duty = PWM_FDCYCLE
  /\ duty \in {DutyField(duty_ticks, prescale), RescaledDutyField(duty_ticks, prescale),
               PWM_FDCYCLE}
  /\ duty_ticks # period_ticks =>
       perval = Perval(period_ticks) \/ duty = DutyField(duty_ticks, prescale)

Running == {"awake", "save_ctrl", "save_duty", "save_perval", "saved", "restored"}

\* The registers that the channel has, or will have once they are restored.
PrescaleToCome ==
  IF power \in Running THEN pwm_ctrl.prescale ELSE saved.pwm_ctrl.prescale
DutyToCome ==
  IF power \in Running \cup {"restore_perval", "restore_ctrl"} THEN pwm_duty
  ELSE saved.pwm_duty
PervalToCome ==
  IF power \in Running \cup {"restore_ctrl"} THEN pwm_perval ELSE saved.pwm_perval

\* What has been copied so far is what the channel is to have.
CopyByStage ==
  /\ power \in PowerStages \ {"awake", "save_ctrl"} =>
       saved.pwm_ctrl.prescale = PrescaleToCome
  /\ power \in PowerStages \ {"awake", "save_ctrl", "save_duty"} =>
       saved.pwm_duty = DutyToCome
  /\ power \in PowerStages \ {"awake", "save_ctrl", "save_duty", "save_perval"} =>
       saved.pwm_perval = PervalToCome

\* The registers a resume has restored so far.
RestoredSoFar ==
  /\ power \in {"restore_perval", "restore_ctrl"} => pwm_duty = saved.pwm_duty
  /\ power = "restore_ctrl" => pwm_perval = saved.pwm_perval

ResumeInv ==
  /\ ChannelTypeOK /\ Frozen /\ BystandersOnlyRun
  /\ ~clobbered => Agree(PrescaleToCome, DutyToCome, PervalToCome) /\ CopyByStage
  /\ RestoredSoFar

LEMMA BystandersStep ==
  TypeOK /\ BystandersOnlyRun /\ [Next]_vars => BystandersOnlyRun'
<1>. SUFFICES ASSUME TypeOK, BystandersOnlyRun, [Next]_vars,
                     NEW t \in Threads \ Configurers
              PROVE  cmd'[t].mask \cap {"PERIOD", "DUTY", "PERCENT"} = {}
  BY DEF BystandersOnlyRun
<1>1. CASE cmd'[t] = cmd[t]
  BY <1>1 DEF BystandersOnlyRun
<1>2. CASE cmd'[t] = NoCommand
  BY <1>2 DEF NoCommand, Request
<1>3. CASE Call(t)
  <2>1. PICK mask \in MasksOf(t), period \in PeriodsNs, duty \in DutiesNs,
             percent \in Percents, polarity \in BOOLEAN :
          cmd' = [cmd EXCEPT ![t] =
                    Request(mask, NsToTicks(tick_hz, period), NsToTicks(tick_hz, duty),
                            percent, polarity)]
    BY <1>3 DEF Call
  <2>2. cmd'[t].mask = mask
    BY <2>1 DEF TypeOK, Request
  <2>3. mask \cap {"PERIOD", "DUTY", "PERCENT"} = {}
    BY DEF MasksOf, SysfsMasks
  <2>. QED
    BY <2>2, <2>3
<1>4. CASE ResolvePercent(t) /\ "PERCENT" \in cmd[t].mask
  BY <1>4 DEF BystandersOnlyRun
<1>. QED
  BY <1>1, <1>2, <1>3, <1>4, CommandChange

\* A thread that takes a step of its call is at another place afterwards.
LEMMA StepMoves ==
  ASSUME TypeOK, NEW t \in Threads, UnlockedStep(t) \/ EnterAndRun(t) \/ LockedStep(t)
  PROVE  pc'[t] # pc[t]
BY DEF UnlockedStep, Call, ResolvePercent, CheckRejects, CheckPasses, EnterAndRun,
       LockedStep, PeriodRefused, PeriodApplied, ConfigDuty, PolarityAndLeave, Goto, TypeOK

LEMMA SleepingStep ==
  ASSUME Configurers \subseteq Freezable, ResumeInv, Next, PowerWaits, power # "awake"
  PROVE  UNCHANGED <<period_ticks, duty_ticks, pwm_duty, pwm_perval, pwm_ctrl.prescale>>
<1>. USE DEF ResumeInv, ChannelTypeOK
<1>1. CASE ChannelRequested
  BY <1>1 DEF ChannelRequested, registers
<1>2. ASSUME NEW t \in Threads, UnlockedStep(t) \/ EnterAndRun(t) \/ LockedStep(t)
      PROVE  UNCHANGED <<period_ticks, duty_ticks, pwm_duty, pwm_perval, pwm_ctrl.prescale>>
  <2>1. t \notin Configurers
    BY <1>2, StepMoves DEF PowerWaits
  <2>2. cmd[t].mask \cap {"PERIOD", "DUTY", "PERCENT"} = {}
    BY <2>1 DEF BystandersOnlyRun
  <2>3. CASE UnlockedStep(t)
    BY <2>3, OutsideStep DEF channel, registers
  <2>4. CASE EnterAndRun(t)
    BY <2>4 DEF EnterAndRun, TypeOK, channel
  <2>5. CASE LockedStep(t)
    BY <2>2, <2>5 DEF LockedStep, PeriodRefused, PeriodApplied, ConfigDuty,
                      PolarityAndLeave, TypeOK, channel, registers
  <2>. QED
    BY <1>2, <2>3, <2>4, <2>5
<1>. QED
  BY <1>1, <1>2 DEF Next

\* Saving and restoring change nothing of the registers to come.
LEMMA ResumePowerStep ==
  ASSUME ResumeInv, PowerStep
  PROVE  /\ Frozen' /\ RestoredSoFar'
         /\ ~clobbered' => /\ ~clobbered /\ CopyByStage'
                           /\ UNCHANGED <<PrescaleToCome, DutyToCome, PervalToCome>>
<1>. USE DEF ResumeInv, Power, Frozen, RestoredSoFar, CopyByStage, Running, PowerStages,
             PrescaleToCome, DutyToCome, PervalToCome, vars, channel, registers
<1>0. saved \in [pwm_ctrl : [prescale : 0 .. PRESCALE_MAX, enabled : BOOLEAN,
                            inverted : BOOLEAN],
                pwm_duty : 0 .. FIELD_RANGE - 1, pwm_perval : 0 .. FIELD_RANGE - 1]
  BY DEF ChannelTypeOK, PowerTypeOK
<1>1. CASE Freeze
  BY <1>1 DEF Freeze
<1>2. CASE SaveCtrl
  BY <1>0, <1>2 DEF SaveCtrl
<1>3. CASE SaveDuty
  BY <1>0, <1>3 DEF SaveDuty
<1>4. CASE SavePerval
  BY <1>0, <1>4 DEF SavePerval
<1>5. CASE Sleep
  BY <1>5 DEF Sleep
<1>6. CASE SleepAborted
  BY <1>6 DEF SleepAborted
<1>7. CASE RestoreDuty
  BY <1>7 DEF RestoreDuty
<1>8. CASE RestorePerval
  BY <1>8 DEF RestorePerval
<1>9. CASE RestoreCtrl
  BY <1>9 DEF RestoreCtrl
<1>10. CASE Thaw
  BY <1>10 DEF Thaw
<1>. QED
  BY <1>1, <1>2, <1>3, <1>4, <1>5, <1>6, <1>7, <1>8, <1>9, <1>10 DEF PowerStep

\* Agree is what AwakeRegistersAgree says of the registers.
LEMMA AwakeAgree ==
  power = "awake" =>
    (Agree(PrescaleToCome, DutyToCome, PervalToCome) <=> RegistersAgree /\ DutyAndPeriodFollow)
BY DEF Agree, PrescaleToCome, DutyToCome, PervalToCome, Running, RegistersAgree,
       PrescaleTracksPeriod, PeriodFieldFits, FullDutyHonoured, DutyAndPeriodFollow,
       DutyRegisterFollows, OneRegisterStale

LEMMA ResumeInvStep ==
  ASSUME Configurers \subseteq Freezable, ResumeInv, [ChannelNext]_channelVars
  PROVE  ResumeInv'
<1>. USE DEF ResumeInv
<1>1. ChannelTypeOK'
  BY ChannelTypeStep
<1>2. CASE Next /\ PowerWaits
  <2>1. BystandersOnlyRun'
    BY <1>2, BystandersStep DEF ChannelTypeOK
  <2>2. UNCHANGED <<power, saved, clobbered>> /\ Frozen'
    BY <1>2 DEF PowerWaits, Frozen
  <2>3. CASE power = "awake"
    <3>1. ASSUME ~clobbered
          PROVE  Agree(PrescaleToCome, DutyToCome, PervalToCome)' /\ CopyByStage'
      <4>1. RegistersAgree /\ DutyAndPeriodFollow
        BY <2>3, <3>1, AwakeAgree
      <4>2. (RegistersAgree /\ DutyAndPeriodFollow)'
        BY <1>2, <4>1, RegistersStep, FollowStep DEF ChannelTypeOK
      <4>3. power' = "awake"
        BY <2>2, <2>3
      <4>4. Agree(PrescaleToCome, DutyToCome, PervalToCome)'
        BY <4>2, <4>3
           DEF Agree, PrescaleToCome, DutyToCome, PervalToCome, Running, RegistersAgree,
               PrescaleTracksPeriod, PeriodFieldFits, FullDutyHonoured, DutyAndPeriodFollow,
               DutyRegisterFollows, OneRegisterStale
      <4>. QED
        BY <4>3, <4>4 DEF CopyByStage
    <3>. QED
      BY <1>1, <2>1, <2>2, <2>3, <3>1 DEF RestoredSoFar
  <2>4. CASE power # "awake"
    <3>1. UNCHANGED <<period_ticks, duty_ticks, pwm_duty, pwm_perval, pwm_ctrl.prescale>>
      BY <1>2, <2>4, SleepingStep
    <3>2. UNCHANGED <<PrescaleToCome, DutyToCome, PervalToCome>>
      BY <2>2, <3>1 DEF PrescaleToCome, DutyToCome, PervalToCome
    <3>. QED
      BY <1>1, <2>1, <2>2, <3>1, <3>2 DEF Agree, CopyByStage, RestoredSoFar
  <2>. QED
    BY <2>3, <2>4
<1>3. CASE PowerStep
  <2>1. UNCHANGED channel /\ BystandersOnlyRun'
    BY <1>3, PowerKeepsChannel DEF BystandersOnlyRun
  <2>2. ~clobbered' => Agree(PrescaleToCome, DutyToCome, PervalToCome)'
    BY <1>3, <2>1, ResumePowerStep DEF Agree, channel
  <2>. QED
    BY <1>1, <1>3, <2>1, <2>2, ResumePowerStep
<1>4. CASE UNCHANGED <<vars, powerVars>>
  BY <1>1, <1>4
     DEF vars, channel, registers, powerVars, Frozen, BystandersOnlyRun, Agree, CopyByStage,
         RestoredSoFar, PrescaleToCome, DutyToCome, PervalToCome
<1>. QED
  BY <1>2, <1>3, <1>4 DEF ChannelNext, ReaderStep, channelVars

LEMMA ResumeInvInit == ChannelInit => ResumeInv
<1>. SUFFICES ASSUME ChannelInit PROVE ResumeInv
  OBVIOUS
<1>1. ChannelTypeOK
  BY ChannelTypeInit
<1>2. power = "awake" /\ RegistersAgree /\ DutyAndPeriodFollow
  BY RegistersInit, FollowInit DEF ChannelInit, PowerInit
<1>3. BystandersOnlyRun
  BY DEF ChannelInit, Init, BystandersOnlyRun, NoCommand, Request
<1>. QED
  BY <1>1, <1>2, <1>3, AwakeAgree DEF ResumeInv, Frozen, CopyByStage, RestoredSoFar

\* If the threads that configure the channel are processes, which are frozen, the
\* registers are those of the reported configuration (all but the one count that a
\* full cycle had left stale) whenever the system is awake again, although the work queue goes on starting and stopping the channel while
\* its registers are copied, lost and restored without the lock.
THEOREM ResumeRestoresConfiguration ==
  ASSUME Configurers \subseteq Freezable
  PROVE  ChannelSpec => []AwakeRegistersAgree
<1>1. ResumeInv => AwakeRegistersAgree
  BY AwakeAgree DEF ResumeInv, AwakeRegistersAgree, RegistersAgree, DutyAndPeriodFollow
<1>2. ResumeInv /\ [ChannelNext]_channelVars => ResumeInv'
  BY ResumeInvStep
<1>. QED
  BY <1>1, <1>2, ResumeInvInit, PTL DEF ChannelSpec

\* And no step of a resume switches the channel on before its duty and period
\* counters are the ones that were saved.
THEOREM ResumeSwitchesOnLast ==
  ASSUME Configurers \subseteq Freezable
  PROVE  ChannelSpec => ResumesCompletely
<1>1. ASSUME ResumeInv, [ChannelNext]_channelVars
      PROVE  [(power # power' /\ ~pwm_ctrl.enabled /\ pwm_ctrl'.enabled) =>
                pwm_duty' = saved.pwm_duty /\ pwm_perval' = saved.pwm_perval]_<<vars, powerVars>>
  <2>. SUFFICES ASSUME power # power', ~pwm_ctrl.enabled, pwm_ctrl'.enabled
                PROVE  pwm_duty' = saved.pwm_duty /\ pwm_perval' = saved.pwm_perval
    OBVIOUS
  <2>1. PowerStep
    BY <1>1 DEF ChannelNext, PowerWaits, channelVars, powerVars
  <2>2. RestoreCtrl
    BY <2>1
       DEF PowerStep, Freeze, SaveCtrl, SaveDuty, SavePerval, Sleep, SleepAborted, ResetCtrl,
           RestoreDuty, RestorePerval, Thaw, vars, registers
  <2>. QED
    BY <1>1, <2>2 DEF RestoreCtrl, Power, ResumeInv, RestoredSoFar
<1>2. ResumeInv /\ [ChannelNext]_channelVars => ResumeInv'
  BY ResumeInvStep
<1>. QED
  BY <1>1, <1>2, ResumeInvInit, PTL DEF ChannelSpec, ResumesCompletely

(***************************************************************************)
(* An undisturbed read, with a sole configurer.                            *)
(***************************************************************************)
LEMMA DutyReadable ==
  ASSUME TypeOK, PeriodProgrammable, tick_hz # 0, duty_ticks <= period_ticks
  PROVE  DutyNs <= PeriodNs
<1>. DEFINE d == duty_ticks * NSEC_PER_SEC
            p == period_ticks * NSEC_PER_SEC
<1>1. /\ duty_ticks \in Nat /\ period_ticks \in Nat /\ tick_hz = TICK_HZ
      /\ NSEC_PER_SEC \in Nat /\ TICK_HZ \in Nat \ {0} /\ WORD \in Nat \ {0}
  BY WordsNotEmpty, NumbersAssumption, ConfigAssumption DEF TypeOK
<1>2. CASE period_ticks = 0
  <2>1. duty_ticks = period_ticks
    BY <1>1, <1>2
  <2>2. DutyNs = PeriodNs
    BY <2>1 DEF DutyNs, PeriodNs
  <2>3. PeriodNs \in Nat
    BY ReadsType, WordsNotEmpty
  <2>. QED
    BY <2>2, <2>3
<1>3. CASE period_ticks > 0
  <2>1. p \div TICK_HZ \in Words
    BY <1>3, PeriodReadable DEF PeriodProgrammable
  <2>2. d \in Nat /\ p \in Nat /\ d <= p
    <3>1. NSEC_PER_SEC * duty_ticks <= NSEC_PER_SEC * period_ticks
      BY <1>1, TimesMonotonic
    <3>. QED
      BY <1>1, <3>1
  <2>. HIDE DEF d, p
  <2>3. d \div TICK_HZ \in Nat /\ d \div TICK_HZ <= p \div TICK_HZ
    BY <1>1, <2>2, DivMonotonic
  <2>. DEFINE m == d \div TICK_HZ
              n == p \div TICK_HZ
  <2>. HIDE DEF m, n
  <2>4. m % WORD = m /\ n % WORD = n
    BY <1>1, <2>1, <2>3 DEF Words, m, n
  <2>. QED
    BY <1>1, <2>3, <2>4 DEF DutyNs, PeriodNs, TicksToNs, m, n, d, p
<1>. QED
  BY <1>1, <1>2, <1>3

\* The quotient that the code computes is the percentage.
LEMMA PercentIsExact ==
  ASSUME NEW duty_ns \in Words, NEW period_ns \in Words \ {0}, duty_ns <= period_ns,
         duty_ns * 100 < WORD
  PROVE  PercentOf(duty_ns, period_ns) =
           CHOOSE n \in 0 .. 100 :
             n * period_ns <= 100 * duty_ns /\ 100 * duty_ns < (n + 1) * period_ns
<1>. DEFINE p == period_ns
            h == 100 * duty_ns
            k == h \div p
            Fits(n) == n * p <= h /\ h < (n + 1) * p
<1>1. p \in Nat \ {0} /\ h \in Nat /\ h <= 100 * p /\ duty_ns * 100 = h
  BY WordsNotEmpty
<1>2. (duty_ns * 100) % WORD = h
  BY <1>1, WordsNotEmpty
<1>. HIDE DEF h, p
<1>3. k \in Nat /\ h = p * k + (h % p) /\ h % p \in 0 .. p - 1
  BY <1>1
<1>. HIDE DEF k
<1>4. Fits(k)
  <2>1. k * p = p * k /\ (k + 1) * p = p * k + p /\ p * k \in Nat
    BY <1>1, <1>3
  <2>. QED
    BY <1>1, <1>3, <2>1
<1>5. ASSUME NEW m \in Nat, NEW n \in Nat, Fits(m), Fits(n) PROVE m <= n
  <2>1. ASSUME n + 1 <= m PROVE FALSE
    <3>1. p * (n + 1) <= p * m
      BY <1>1, <2>1, TimesMonotonic
    <3>2. p * (n + 1) = (n + 1) * p /\ p * m = m * p /\ (n + 1) * p \in Nat /\ m * p \in Nat
      BY <1>1
    <3>. QED
      BY <1>1, <1>5, <3>1, <3>2
  <2>. QED
    BY <2>1
<1>6. k <= 100
  <2>1. ASSUME 101 <= k PROVE FALSE
    <3>1. p * 101 <= p * k
      BY <1>1, <1>3, <2>1, TimesMonotonic
    <3>2. p * k \in Nat
      BY <1>1, <1>3
    <3>. QED
      BY <1>1, <1>3, <3>1, <3>2
  <2>. QED
    BY <1>3, <2>1
<1>7. \A n \in 0 .. 100 : Fits(n) <=> n = k
  <2>1. ASSUME NEW n \in 0 .. 100, Fits(n) PROVE n = k
    <3>1. n <= k /\ k <= n
      BY <1>3, <1>4, <1>5, <2>1
    <3>. QED
      BY <1>3, <3>1
  <2>. QED
    BY <1>4, <2>1
<1>8. k \in 0 .. 100
  BY <1>3, <1>6
<1>. HIDE DEF Fits
<1>9. k = CHOOSE n \in 0 .. 100 : Fits(n)
  BY <1>7, <1>8
<1>. QED
  BY <1>2, <1>9 DEF PercentOf, Fits, k, h, p

\* What an undisturbed reader has read is what the channel still holds.
ReadSoFar ==
  /\ tick_hz # 0 /\ duty_ticks <= period_ticks
  /\ conf.duty_ns = DutyNs
  /\ rpc # "period" => conf.period_ns = PeriodNs
  /\ rpc \in {"numerator", "divide"} => PeriodNs # 0
  /\ rpc = "divide" => conf.duty_percent = DutyNs
  /\ rpc = "polarity" =>
       conf.duty_percent = IF PeriodNs = 0 THEN NoPercentage ELSE PercentOf(DutyNs, PeriodNs)

QuietInv == (rpc # "idle" /\ quiet) => ReadSoFar

LEMMA SoleChannelStep ==
  ASSUME SoleConfigurer, SoleInv, ChannelTypeOK, [ChannelNext]_channelVars
  PROVE  SoleInv'
<1>1. CASE Next
  BY <1>1, SoleStep
<1>2. CASE UNCHANGED <<channel, lock, pc, cmd>>
  <2>1. TypeOK'
    BY ChannelTypeStep DEF ChannelTypeOK
  <2>. QED
    BY <1>2, <2>1 DEF SoleInv, channel, MutualExclusion, CommandOK, StillValid, DutySettled,
                      Valid, NewDuty, NewPeriod
<1>. QED
  BY <1>1, <1>2, PowerKeepsChannel DEF ChannelNext, ReaderStep, channelVars, vars

LEMMA QuietInvStep ==
  ASSUME SoleConfigurer, SoleInv, ReaderInv, QuietInv, [ChannelNext]_channelVars
  PROVE  QuietInv'
<1>. USE DEF QuietInv
<1>. SUFFICES ASSUME rpc' # "idle", quiet' PROVE ReadSoFar'
  OBVIOUS
<1>1. ASSUME UNCHANGED <<tick_hz, period_ticks, duty_ticks>>, UNCHANGED <<rpc, conf, quiet>>
      PROVE  ReadSoFar'
  BY <1>1 DEF ReadSoFar, DutyNs, PeriodNs
<1>2. CASE Next /\ ReaderWaits
  <2>1. rpc # "idle" /\ quiet /\ ReadSoFar
    BY <1>2 DEF ReaderWaits
  <2>2. UNCHANGED <<rpc, conf, period_ticks, duty_ticks>>
    BY <1>2, <2>1 DEF ReaderWaits
  <2>3. tick_hz' = tick_hz
    BY <1>2, <2>1, PeriodStaysPositive DEF ReadSoFar, SoleInv
  <2>. QED
    BY <2>1, <2>2, <2>3 DEF ReadSoFar, DutyNs, PeriodNs
<1>3. CASE PowerStep /\ UNCHANGED readerVars
  BY <1>1, <1>3, PowerKeepsChannel DEF readerVars, channel
<1>4. CASE ReaderStep
  <2>1. UNCHANGED <<tick_hz, period_ticks, duty_ticks>>
    BY <1>4 DEF ReaderStep, vars, channel
  <2>2. DutyNs' = DutyNs /\ PeriodNs' = PeriodNs
    BY <2>1 DEF DutyNs, PeriodNs
  <2>3. conf \in [duty_ns : Words, period_ns : Words, duty_percent : Words]
    BY DEF ReaderInv, ChannelTypeOK, ReaderTypeOK
  <2>4. CASE ReadDuty
    <3>1. duty_ticks <= period_ticks
      BY <2>4, SoleKeepsDuty DEF ReadDuty, DutyWithinPeriod
    <3>. QED
      BY <2>1, <2>2, <2>4, <3>1 DEF ReadDuty, ReaderGoto, NoConf, ReadSoFar
  <2>5. CASE ReadPeriod
    BY <2>1, <2>2, <2>3, <2>5 DEF ReadPeriod, ReaderGoto, ReadSoFar
  <2>6. CASE TestFails \/ TestPasses
    BY <2>1, <2>2, <2>3, <2>6 DEF TestFails, TestPasses, ReaderGoto, ReadSoFar
  <2>7. CASE ReadNumerator
    BY <2>1, <2>2, <2>3, <2>7 DEF ReadNumerator, ReaderGoto, ReadSoFar
  <2>8. CASE Divide
    BY <2>1, <2>2, <2>3, <2>8 DEF Divide, ReaderGoto, ReadSoFar
  <2>. QED
    BY <1>4, <2>4, <2>5, <2>6, <2>7, <2>8 DEF ReaderStep, ReadPolarity, ReaderGoto
<1>5. CASE UNCHANGED channelVars
  BY <1>1, <1>5 DEF channelVars, vars, channel, readerVars
<1>. QED
  BY <1>2, <1>3, <1>4, <1>5 DEF ChannelNext

\* With one configuring thread, PWM_IOC_GET_CONF and pwm_get_config() return a
\* duty within the period and the percentage of exactly this pair, if no call
\* changed the channel during their unlocked reads.
THEOREM QuietReadsAgree ==
  ASSUME SoleConfigurer
  PROVE  ChannelSpec => []QuietReadIsConsistent
<1>. DEFINE Inv == SoleInv /\ ReaderInv /\ QuietInv
<1>1. ChannelInit => Inv
  BY SoleInit, ReaderInvInit DEF ChannelInit, ReaderInit, QuietInv
<1>2. Inv /\ [ChannelNext]_channelVars => Inv'
  BY SoleChannelStep, ReaderInvStep, QuietInvStep DEF ReaderInv
<1>3. Inv => QuietReadIsConsistent
  <2>. SUFFICES ASSUME Inv, rpc = "polarity", quiet
                PROVE  /\ conf.duty_ns <= conf.period_ns
                       /\ conf.duty_ns * 100 < WORD => conf.duty_percent = Percentage(conf)
    BY DEF QuietReadIsConsistent
  <2>1. ReadSoFar /\ conf.duty_ns = DutyNs /\ conf.period_ns = PeriodNs
    BY DEF QuietInv, ReadSoFar
  <2>2. DutyNs <= PeriodNs
    BY <2>1, DutyReadable DEF ReadSoFar, ReaderInv, ChannelTypeOK
  <2>3. DutyNs \in Words /\ PeriodNs \in Words
    BY ReadsType DEF SoleInv
  <2>4. CASE PeriodNs = 0
    BY <2>1, <2>2, <2>4 DEF ReadSoFar, Percentage
  <2>5. CASE PeriodNs # 0
    BY <2>1, <2>2, <2>3, <2>5, PercentIsExact DEF ReadSoFar, Percentage
  <2>. QED
    BY <2>4, <2>5
<1>. QED
  BY <1>1, <1>2, <1>3, PTL DEF ChannelSpec
=============================================================================
