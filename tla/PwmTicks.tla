------------------------------ MODULE PwmTicks ------------------------------
(***************************************************************************)
(* The arithmetic of the PWM driver: the conversions between nanoseconds,  *)
(* timer ticks and percentages (pwm_core.c) and the split of a period into *)
(* the prescale and period fields of a channel's registers (_pwm.c).       *)
(*                                                                         *)
(* unsigned long and u32 are WORD values wide; the 64-bit intermediates of *)
(* the conversions cannot overflow (the product of two words fits), so     *)
(* they are plain integers.                                                *)
(***************************************************************************)
EXTENDS Integers

CONSTANTS
  WORD,          (* 2^32: values of an unsigned long on the 32-bit SoCs     *)
  NSEC_PER_SEC,  (* 1000000000                                              *)
  PERVAL_RANGE,  (* 1 << PWM_PERVAL_BITS: ticks one prescale step can count *)
  PRESCALE_MAX   (* PWM_PRESCALE_MAX: largest prescale the code programs    *)

ASSUME NumbersAssumption ==
  /\ WORD \in Nat /\ NSEC_PER_SEC \in Nat \ {0}
  /\ PERVAL_RANGE \in Nat \ {0} /\ PRESCALE_MAX \in Nat
  /\ 2 * PERVAL_RANGE * (PRESCALE_MAX + 1) <= WORD

Words == 0 .. WORD - 1

\* PWM_DUTY_MSK and PWM_PERVAL_MSK keep one bit more than PWM_DUTY_BITS and
\* PWM_PERVAL_BITS say: "& MSK" is "% FIELD_RANGE".
FIELD_RANGE == 2 * PERVAL_RANGE

\* The bit of the duty register that asks for a full duty cycle.
PWM_FDCYCLE == PERVAL_RANGE

(***************************************************************************)
(* Units.                                                                  *)
(***************************************************************************)
NsToTicks(tick_hz, ns) == ((ns * tick_hz) \div NSEC_PER_SEC) % WORD

TicksToNs(tick_hz, ticks) ==
  IF tick_hz = 0 THEN 0 ELSE ((ticks * NSEC_PER_SEC) \div tick_hz) % WORD

\* The product is an unsigned long, too.
PercentToTicks(period_ticks, percent) == ((period_ticks * percent) % WORD) \div 100

(***************************************************************************)
(* Registers.  period_ticks - 1 wraps for a period of zero ticks, which    *)
(* then exceeds PRESCALE_MAX and is refused.                               *)
(***************************************************************************)
Prescale(period_ticks) == ((period_ticks - 1) % WORD) \div PERVAL_RANGE

\* Variants for the checks: a period of no ticks is let through; the period
\* counter is not counted from zero; the rewritten duty is not masked.
ProgrammableOrZero(period_ticks) ==
  period_ticks = 0 \/ Prescale(period_ticks) <= PRESCALE_MAX
PervalFromOne(period_ticks) == period_ticks \div (Prescale(period_ticks) + 1)
RescaledUnmasked(duty_ticks, prescale) == duty_ticks \div (prescale + 1) - 1

Programmable(period_ticks) == Prescale(period_ticks) <= PRESCALE_MAX

Perval(period_ticks) == period_ticks \div (Prescale(period_ticks) + 1) - 1

DutyField(duty_ticks, prescale) == (duty_ticks \div (prescale + 1)) % FIELD_RANGE

\* The rewrite of the duty register after a change of prescale takes one off
\* in unsigned arithmetic, where zero wraps to the all-ones field.
RescaledDutyField(duty_ticks, prescale) ==
  (duty_ticks \div (prescale + 1) - 1) % FIELD_RANGE
=============================================================================
