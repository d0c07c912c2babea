----------------------------- MODULE PwmConfig ------------------------------
(***************************************************************************)
(* Configuration of one PWM channel: pwm_config() of pwm_core.c, called    *)
(* concurrently by the threads that can reach a channel (ioctl, kernel     *)
(* API, sysfs attributes, the handler work), down to the register writes   *)
(* of __pwm_config_nosleep() in _pwm.c.                                    *)
(*                                                                         *)
(* A call converts its request to ticks and validates it against the       *)
(* channel WITHOUT a lock, and only then takes the channel's spinlock and  *)
(* programs one attribute after the other.  Each action below is one       *)
(* access to state that another thread can change or observe.              *)
(***************************************************************************)
EXTENDS PwmTicks

CONSTANTS
  Threads,      (* everything that calls pwm_config on the channel          *)
  Configurers,  (* the threads that change period and duty; the others only *)
                (* start and stop: the run attribute, pwm_handler()         *)
  ApiCallers,   (* the configurers that call pwm_set_config() of the kernel *)
                (* API; the others use the ioctl SET_CONF                   *)
  TICK_HZ,      (* clk[chan]: 27000000                                      *)
  FlagSets,     (* the combinations of attributes a configurer may ask for  *)
  PeriodsNs, DutiesNs, Percents,  (* the values it may ask for              *)
  NoThread

Attributes == {"PERIOD", "DUTY", "PERCENT", "POLARITY", "START", "STOP"}

ASSUME ConfigAssumption ==
  /\ ApiCallers \subseteq Configurers /\ Configurers \subseteq Threads
  /\ NoThread \notin Threads
  /\ TICK_HZ \in 1 .. NSEC_PER_SEC
  /\ PERVAL_RANGE * (PRESCALE_MAX + 1) * NSEC_PER_SEC < WORD * TICK_HZ
  /\ FlagSets \subseteq SUBSET Attributes
  /\ PeriodsNs \subseteq Nat /\ DutiesNs \subseteq Nat /\ Percents \subseteq Nat

VARIABLES
  tick_hz,       (* channel clock: zero until the channel is first requested *)
  period_ticks, duty_ticks, active_high,  (* struct pwm_channel              *)
  pwm_ctrl, pwm_duty, pwm_perval,         (* the channel's registers         *)
  lock,          (* holder of p->lock                                        *)
  pc,            (* where each thread is in its call of pwm_config           *)
  cmd            (* its struct pwm_channel_config, in ticks                  *)

channel   == <<tick_hz, period_ticks, duty_ticks, active_high>>
registers == <<pwm_ctrl, pwm_duty, pwm_perval>>
vars      == <<channel, registers, lock, pc, cmd>>

(***************************************************************************)
(* Requests.                                                               *)
(***************************************************************************)
Command == [mask : SUBSET Attributes, period : Words, duty : Words,
            percent : Nat, polarity : BOOLEAN]

\* Fields whose attribute is not in the mask are never read.
Request(mask, period, duty, percent, polarity) ==
  [mask     |-> mask,
   period   |-> IF "PERIOD"  \in mask THEN period  ELSE 0,
   duty     |-> IF "DUTY"    \in mask THEN duty    ELSE 0,
   percent  |-> IF "PERCENT" \in mask THEN percent ELSE 0,
   polarity |-> "POLARITY" \in mask /\ polarity]

NoCommand == Request({}, 0, 0, 0, FALSE)

\* pwm_set_config: the polarity flag replaces what the flags before it have put
\* into the mask.
ApiMask(flags) == IF "POLARITY" \in flags THEN {"POLARITY"} ELSE flags

\* The mask for the flags of a pwm_chan_config: SET_CONF adds them up.
MaskOf(t, flags) == IF t \in ApiCallers THEN ApiMask(flags) ELSE flags

\* Before the channel is first requested only the sysfs attributes reach it,
\* and each of them sets a single attribute.
SysfsMasks == {{"PERIOD"}, {"DUTY"}, {"POLARITY"}, {"START"}, {"STOP"}}

MasksOf(t) ==
  LET configs == IF t \in Configurers THEN {MaskOf(t, flags) : flags \in FlagSets} ELSE {}
      all     == configs \cup {{"START"}, {"STOP"}}
  IN  IF tick_hz = 0 THEN all \cap SysfsMasks ELSE all

(***************************************************************************)
(* Initial state: the channel structure is zeroed, the registers at reset. *)
(***************************************************************************)
Init ==
  /\ tick_hz = 0 /\ period_ticks = 0 /\ duty_ticks = 0 /\ active_high = FALSE
  /\ pwm_ctrl = [prescale |-> 0, enabled |-> FALSE, inverted |-> FALSE]
  /\ pwm_duty = 0 /\ pwm_perval = 0
  /\ lock = NoThread
  /\ pc  = [t \in Threads |-> "idle"]
  /\ cmd = [t \in Threads |-> NoCommand]

Goto(t, from, to) == pc[t] = from /\ pc' = [pc EXCEPT ![t] = to]

Return(t) == cmd' = [cmd EXCEPT ![t] = NoCommand]

\* A request of the channel hands it its clock (again, on later requests).
ChannelRequested ==
  /\ tick_hz' = TICK_HZ
  /\ UNCHANGED <<period_ticks, duty_ticks, active_high, registers, lock, pc, cmd>>

(***************************************************************************)
(* The unlocked half of a call.                                            *)
(***************************************************************************)
Call(t) ==
  /\ Goto(t, "idle", "percent")
  /\ \E mask \in MasksOf(t), period \in PeriodsNs, duty \in DutiesNs,
        percent \in Percents, polarity \in BOOLEAN :
       cmd' = [cmd EXCEPT ![t] =
                 Request(mask, NsToTicks(tick_hz, period), NsToTicks(tick_hz, duty),
                         percent, polarity)]
  /\ UNCHANGED <<channel, registers, lock>>

\* A percentage replaces a duty given in nanoseconds.
ResolvePercent(t) ==
  LET c      == cmd[t]
      period == IF "PERIOD" \in c.mask THEN c.period ELSE period_ticks
  IN  /\ Goto(t, "percent", "check")
      /\ cmd' = IF "PERCENT" \notin c.mask THEN cmd
                ELSE [cmd EXCEPT ![t].mask = (@ \ {"PERCENT"}) \cup {"DUTY"},
                                 ![t].duty = PercentToTicks(period, c.percent),
                                 ![t].percent = 0]
      /\ UNCHANGED <<channel, registers, lock>>

\* The period and the duty the channel would have after command c.
NewPeriod(c) == IF "PERIOD" \in c.mask THEN c.period ELSE period_ticks
NewDuty(c)   == IF "DUTY"   \in c.mask THEN c.duty   ELSE duty_ticks

\* Variant for the checks: a new period is not compared with the old duty.
ValidDutyOnly(c) ==
  /\ c.mask # {}
  /\ "DUTY" \in c.mask => NewDuty(c) <= NewPeriod(c)

Valid(c) ==
  /\ c.mask # {}
  /\ c.mask \cap {"PERIOD", "DUTY"} # {} => NewDuty(c) <= NewPeriod(c)

CheckRejects(t) ==   \* -EINVAL, nothing done
  /\ ~Valid(cmd[t])
  /\ Goto(t, "check", "idle")
  /\ Return(t)
  /\ UNCHANGED <<channel, registers, lock>>

CheckPasses(t) ==
  /\ Valid(cmd[t])
  /\ Goto(t, "check", "lock")
  /\ UNCHANGED <<channel, registers, lock, cmd>>

(***************************************************************************)
(* The half under p->lock.  Start, then stop, then period, duty, polarity. *)
(***************************************************************************)
\* Variant for the checks: the registers are programmed without the lock.
Unprotected(t) == UNCHANGED lock

Lock(t) == lock = NoThread /\ lock' = t

\* Variant for the checks: the lock is kept on the way out.
KeepLock == UNCHANGED lock

Unlock == lock' = NoThread

EnterAndRun(t) ==
  LET mask == cmd[t].mask
  IN  /\ Goto(t, "lock", "period")
      /\ Lock(t)
      /\ pwm_ctrl' = [pwm_ctrl EXCEPT !.enabled =
                        "STOP" \notin mask /\ ("START" \in mask \/ @)]
      /\ UNCHANGED <<channel, pwm_duty, pwm_perval, cmd>>

\* A period beyond the prescaler is refused with -EINVAL, which
\* __pwm_config_nosleep() ignores.
PeriodRefused(t) ==
  /\ ~("PERIOD" \in cmd[t].mask /\ Programmable(cmd[t].period))
  /\ Goto(t, "period", "duty")
  /\ UNCHANGED <<channel, registers, lock, cmd>>

\* Variant for the checks: only a larger prescale is written.
RescalesUp(period) == pwm_ctrl.prescale < Prescale(period)

Rescales(period) == pwm_ctrl.prescale # Prescale(period)

\* Variants for the checks: the full cycle is left to __config_duty_ticks(); the
\* duty register is not brought up to date.
DutyNotRescaled(period) == IF duty_ticks = period THEN PWM_FDCYCLE ELSE pwm_duty
DutyRescaledOnly(period) ==
  IF Rescales(period) THEN RescaledDutyField(duty_ticks, Prescale(period)) ELSE pwm_duty

\* The duty register after a change of period.
DutyForPeriod(period) ==
  IF duty_ticks = period THEN PWM_FDCYCLE
  ELSE IF Rescales(period) THEN RescaledDutyField(duty_ticks, Prescale(period))
  ELSE pwm_duty

\* Variant for the checks: the period register follows the prescale only.
PervalWithPrescale(period) ==
  IF Rescales(period) THEN Perval(period) % FIELD_RANGE ELSE pwm_perval

\* The period register: left alone when the duty is a full cycle.
PervalForPeriod(period) ==
  IF duty_ticks = period THEN pwm_perval ELSE Perval(period) % FIELD_RANGE

PeriodApplied(t) ==
  LET period == cmd[t].period
  IN  /\ "PERIOD" \in cmd[t].mask /\ Programmable(period)
      /\ Goto(t, "period", "duty")
      /\ period_ticks' = period
      /\ pwm_ctrl'   = [pwm_ctrl EXCEPT !.prescale =
                          IF Rescales(period) THEN Prescale(period) ELSE @]
      /\ pwm_duty'   = DutyForPeriod(period)
      /\ pwm_perval' = PervalForPeriod(period)
      /\ UNCHANGED <<tick_hz, duty_ticks, active_high, lock, cmd>>

ConfigDuty(t) ==
  LET duty == cmd[t].duty
  IN  /\ Goto(t, "duty", "polarity")
      /\ IF "DUTY" \in cmd[t].mask
         THEN /\ duty_ticks' = duty
              /\ pwm_duty'   = IF duty = period_ticks THEN PWM_FDCYCLE
                               ELSE DutyField(duty, pwm_ctrl.prescale)
         ELSE UNCHANGED <<duty_ticks, pwm_duty>>
      /\ UNCHANGED <<tick_hz, period_ticks, active_high, pwm_ctrl, pwm_perval, lock, cmd>>

\* The last attribute; the lock is dropped and the call returns 0.
PolarityAndLeave(t) ==
  LET c == cmd[t]
  IN  /\ Goto(t, "polarity", "idle")
      /\ IF "POLARITY" \in c.mask
         THEN /\ active_high' = c.polarity
              /\ pwm_ctrl' = [pwm_ctrl EXCEPT !.inverted = ~c.polarity]
         ELSE UNCHANGED <<active_high, pwm_ctrl>>
      /\ Unlock
      /\ Return(t)
      /\ UNCHANGED <<tick_hz, period_ticks, duty_ticks, pwm_duty, pwm_perval>>

UnlockedStep(t) ==
  \/ Call(t) \/ ResolvePercent(t) \/ CheckRejects(t) \/ CheckPasses(t)

LockedStep(t) ==
  \/ PeriodRefused(t) \/ PeriodApplied(t) \/ ConfigDuty(t) \/ PolarityAndLeave(t)

Next ==
  \/ ChannelRequested
  \/ \E t \in Threads : UnlockedStep(t) \/ EnterAndRun(t) \/ LockedStep(t)

Spec == Init /\ [][Next]_vars

(***************************************************************************)
(* Scheduling.  A thread inside the driver keeps running; spinlock_t is a  *)
(* ticket lock, so a waiting thread is eventually served.  Nobody is       *)
(* obliged to make a call.                                                 *)
(***************************************************************************)
Fairness ==
  \A t \in Threads :
    /\ WF_vars(ResolvePercent(t) \/ CheckRejects(t) \/ CheckPasses(t) \/ LockedStep(t))
    /\ SF_vars(EnterAndRun(t))

FairSpec == Spec /\ Fairness

-----------------------------------------------------------------------------
(***************************************************************************)
(* Type invariant.                                                         *)
(***************************************************************************)
Stages == {"idle", "percent", "check", "lock", "period", "duty", "polarity"}

\* The channel, its registers and every request hold words of their width.
TypeOK ==
  /\ tick_hz \in {0, TICK_HZ}
  /\ period_ticks \in Words /\ duty_ticks \in Words /\ active_high \in BOOLEAN
  /\ pwm_ctrl \in [prescale : 0 .. PRESCALE_MAX, enabled : BOOLEAN, inverted : BOOLEAN]
  /\ pwm_duty \in 0 .. FIELD_RANGE - 1 /\ pwm_perval \in 0 .. FIELD_RANGE - 1
  /\ lock \in Threads \cup {NoThread}
  /\ pc \in [Threads -> Stages]
  /\ cmd \in [Threads -> Command]

(***************************************************************************)
(* What the driver guarantees to concurrent callers.                       *)
(***************************************************************************)
InLock == {"period", "duty", "polarity"}

\* Once a period has been programmed, the prescale field is the one that the
\* period the channel reports needs: the two are written at different places
\* of __config_period_ticks, and duty settings read the field back from the
\* register to scale by it.
PrescaleTracksPeriod ==
  period_ticks > 0 => pwm_ctrl.prescale = Prescale(period_ticks)

\* The period counter is 17 bits wide although PWM_PERVAL_MSK keeps 18: no
\* accepted period, whatever its rounding by the prescaler, spills into the
\* eighteenth bit or below zero (period_ticks / (prescale + 1) - 1).
PeriodFieldFits == pwm_perval < PERVAL_RANGE

\* A channel whose duty equals its period is driven with a full duty cycle,
\* whichever of the two was set last and by whom.
FullDutyHonoured ==
  (period_ticks > 0 /\ duty_ticks = period_ticks) => pwm_duty = PWM_FDCYCLE

\* The duty register always is that of the duty the channel reports, at the
\* prescale it has: exactly, one tick short after a change of prescale, or a
\* full cycle.  No caller leaves a count of an earlier duty or prescale in it.
DutyRegisterFollows ==
  pwm_duty \in {DutyField(duty_ticks, pwm_ctrl.prescale),
                RescaledDutyField(duty_ticks, pwm_ctrl.prescale), PWM_FDCYCLE}

\* A full cycle leaves the period register stale, and ending it by a new period
\* leaves the duty register stale, but never both: unless duty and period are
\* equal, one of the two registers is what the channel reports.
OneRegisterStale ==
  duty_ticks # period_ticks =>
    \/ pwm_perval = Perval(period_ticks)
    \/ pwm_duty = DutyField(duty_ticks, pwm_ctrl.prescale)

\* The channel is never left with a duty longer than its period.  Both are
\* validated before the lock is taken, against values that may be stale when
\* the registers are written: the property needs SoleConfigurer.
DutyWithinPeriod == lock = NoThread => duty_ticks <= period_ticks

\* What is true of the channel when a call of thread t returns 0.
AppliedOnReturn(t) ==
  LET c == cmd[t]
  IN  (pc[t] = "polarity" /\ pc'[t] = "idle") =>
        /\ ("PERIOD" \in c.mask /\ Programmable(c.period)) => period_ticks' = c.period
        /\ "DUTY" \in c.mask =>
             /\ duty_ticks' = c.duty
             /\ pwm_duty' = IF c.duty = period_ticks' THEN PWM_FDCYCLE
                            ELSE DutyField(c.duty, pwm_ctrl'.prescale)

\* A successful call is atomic: at the moment it returns 0 the channel still
\* has the duty and the (programmable) period the call asked for, and the
\* duty register is the one for exactly this pair, whatever other calls were
\* in flight.
CallIsAtomic == [][\A t \in Threads : AppliedOnReturn(t)]_vars

\* Once the period reads as more than zero nanoseconds it never reads as zero
\* again: pwm_get_duty_percent divides by the period it reads a second time,
\* after a test of an earlier, unlocked read.
PeriodNs == TicksToNs(tick_hz, period_ticks)

PeriodNeverReset == [][PeriodNs > 0 => PeriodNs' > 0]_vars

\* Every call of pwm_config returns, although calls queue on the spinlock.
CallsReturn == \A t \in Threads : []<>(pc[t] = "idle")

(***************************************************************************)
(* Refinement.  A call takes effect when it takes the lock: from then on   *)
(* the channel has, for its callers, what the holder still has to write.   *)
(***************************************************************************)
\* The holder of the lock is to write an attribute, and has not yet.
Pending(attribute, stages) ==
  lock # NoThread /\ pc[lock] \in stages /\ attribute \in cmd[lock].mask

Setting ==
  [period      |-> IF Pending("PERIOD", {"period"}) /\ Programmable(cmd[lock].period)
                   THEN cmd[lock].period ELSE period_ticks,
   duty        |-> IF Pending("DUTY", {"period", "duty"})
                   THEN cmd[lock].duty ELSE duty_ticks,
   active_high |-> IF Pending("POLARITY", InLock)
                   THEN cmd[lock].polarity ELSE active_high,
   enabled     |-> pwm_ctrl.enabled]

Phase == [t \in Threads |-> IF pc[t] = "idle" THEN "idle"
                            ELSE IF pc[t] \in InLock THEN "applied" ELSE "called"]

Settings == INSTANCE ChannelSettings
  WITH Requests <- Command, NoRequest <- NoCommand,
       Periods <- {period \in Words : Programmable(period)},
       setting <- Setting, request <- cmd, phase <- Phase

\* Every call of pwm_config is atomic: to whoever takes the lock, period, duty,
\* polarity and the output change all at once and only on behalf of a call.
ImplementsSettings == Settings!Spec

\* One thread changes period and duty, and asks for no period that is too long
\* for the prescaler (a period out of its range is dropped, the duty of the same
\* call is not: with a period of no ticks that duty is zero).
SoleConfigurer ==
  /\ \E t \in Threads : Configurers = {t}
  /\ \A period \in PeriodsNs :
       LET ticks == NsToTicks(TICK_HZ, period) IN ticks = 0 \/ Programmable(ticks)

\* Whoever sets a period sets the duty with it, and the other way round, and asks
\* for no period that is too long for the prescaler: nothing a call is validated
\* against is another's.
PairedCalls ==
  /\ \A t \in Configurers, flags \in FlagSets :
       LET mask == MaskOf(t, flags)
       IN  "PERIOD" \in mask <=> mask \cap {"DUTY", "PERCENT"} # {}
  /\ \A period \in PeriodsNs :
       LET ticks == NsToTicks(TICK_HZ, period) IN ticks = 0 \/ Programmable(ticks)

\* Such calls, with the duties and percentages pwm.h asks for.
DocumentedCalls ==
  /\ PairedCalls /\ {} \notin FlagSets
  /\ PeriodsNs \subseteq Words /\ DutiesNs \subseteq Words
  /\ \A period \in PeriodsNs, duty \in DutiesNs : duty <= period
  /\ Percents \subseteq 0 .. 100 /\ 100 * PERVAL_RANGE * (PRESCALE_MAX + 1) < WORD

\* No call that reaches the validation is refused by it.
NothingRefused == \A t \in Threads : pc[t] = "check" => Valid(cmd[t])

(***************************************************************************)
(* What the documentation promises and the code does not keep.             *)
(***************************************************************************)
Quiescent == \A t \in Threads : pc[t] = "idle"

\* pwm.h: PWM_OK is returned when the call succeeds, PWM_INVALID_PARAM for an
\* invalid parameter.  A call that returns 0 has set the period it was given.
OkMeansApplied ==
  [][\A t \in Threads :
       (pc[t] = "polarity" /\ pc'[t] = "idle" /\ "PERIOD" \in cmd[t].mask)
         => period_ticks' = cmd[t].period]_vars

\* pwm.h: the function configures the channel, and PWM_OK is its success.  When
\* the output is on for part of the period, the period register counts the
\* period that the channel reports.
PeriodRegisterCurrent ==
  (Quiescent /\ 0 < duty_ticks /\ duty_ticks < period_ticks /\ pwm_duty < PWM_FDCYCLE)
    => pwm_perval = Perval(period_ticks)

\* _pwm.c, __config_duty_ticks: nothing is deducted from the duty register,
\* "it is different from period register".
DutyRegisterExact ==
  (Quiescent /\ duty_ticks # period_ticks /\ pwm_duty # PWM_FDCYCLE)
    => pwm_duty = DutyField(duty_ticks, pwm_ctrl.prescale)
=============================================================================
