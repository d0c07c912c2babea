------------------------------ MODULE PwmReader -----------------------------
(***************************************************************************)
(* Reading a channel's configuration back: PWM_IOC_GET_CONF of pwm_drv.c   *)
(* and pwm_get_config() of pwm_wrapper.c, beside the calls of PwmConfig.   *)
(* A reader takes no lock: it reads duty and period one after the other,   *)
(* and pwm_get_duty_percent() reads both of them again.  Each action is    *)
(* one of these reads.                                                     *)
(***************************************************************************)
EXTENDS PwmConfig

VARIABLES
  rpc,     (* what the reader reads next, or "idle"                         *)
  conf,    (* the struct pwm_chan_config it fills                           *)
  quiet    (* history: nothing was, or is, half written during this read    *)

readerVars == <<rpc, conf, quiet>>

NoConf == [duty_ns |-> 0, period_ns |-> 0, duty_percent |-> 0]

ReaderInit == rpc = "idle" /\ conf = NoConf /\ quiet = TRUE

DutyNs == TicksToNs(tick_hz, duty_ticks)   \* pwm_get_duty_ns

\* Variant for the checks: the -1 of the source, without the width of its type.
NoPercentageSigned == -1

NoPercentage == WORD - 1   \* -1, in a uint32_t

\* Variant for the checks: the quotient is taken before the product.
PercentDivideFirst(duty_ns, period_ns) == ((duty_ns \div period_ns) * 100) % WORD

\* The product is an unsigned long: it wraps for a duty of more than 42.9 ms.
PercentOf(duty_ns, period_ns) == ((duty_ns * 100) % WORD) \div period_ns

ReaderGoto(from, to) == rpc = from /\ rpc' = to

\* Only who has requested the channel reads its configuration.
ReadDuty ==
  /\ tick_hz # 0
  /\ ReaderGoto("idle", "period")
  /\ conf' = [NoConf EXCEPT !.duty_ns = DutyNs]
  /\ quiet' = (lock = NoThread)

ReadPeriod ==
  /\ ReaderGoto("period", "test")
  /\ conf' = [conf EXCEPT !.period_ns = PeriodNs]
  /\ UNCHANGED quiet

\* pwm_get_duty_percent of a channel without a period.
TestFails ==
  /\ PeriodNs = 0
  /\ ReaderGoto("test", "polarity")
  /\ conf' = [conf EXCEPT !.duty_percent = NoPercentage]
  /\ UNCHANGED quiet

TestPasses ==
  /\ PeriodNs # 0
  /\ ReaderGoto("test", "numerator")
  /\ UNCHANGED <<conf, quiet>>

ReadNumerator ==
  /\ ReaderGoto("numerator", "divide")
  /\ conf' = [conf EXCEPT !.duty_percent = DutyNs]
  /\ UNCHANGED quiet

Divide ==
  /\ ReaderGoto("divide", "polarity")
  /\ PeriodNs # 0     \* or the division traps, see DivisorNeverZero
  /\ conf' = [conf EXCEPT !.duty_percent = PercentOf(@, PeriodNs)]
  /\ UNCHANGED quiet

\* The polarity is one word on its own; the caller has its answer.
ReadPolarity ==
  /\ ReaderGoto("polarity", "idle")
  /\ conf' = NoConf
  /\ quiet' = TRUE

ReaderStep ==
  /\ ReadDuty \/ ReadPeriod \/ TestFails \/ TestPasses \/ ReadNumerator \/ Divide
       \/ ReadPolarity
  /\ UNCHANGED vars

\* A step of somebody else disturbs the read if it changes what is read.
ReaderWaits ==
  /\ UNCHANGED <<rpc, conf>>
  /\ quiet' = (quiet /\ (rpc = "idle" \/ UNCHANGED <<period_ticks, duty_ticks>>))

-----------------------------------------------------------------------------
\* What a reader holds is what the conversions return.
ReaderTypeOK ==
  /\ rpc \in {"idle", "period", "test", "numerator", "divide", "polarity"}
  /\ conf \in [duty_ns : Words, period_ns : Words, duty_percent : Words]
  /\ quiet \in BOOLEAN

\* pwm_get_duty_percent divides by a second, unlocked read of the period: it is
\* not zero, whatever was configured after the test of the first read.
DivisorNeverZero == rpc = "divide" => PeriodNs # 0

\* A read during which no call changed the channel returns a duty within the
\* period and the percentage of exactly this pair: a hundred only for a full
\* duty, and -1 only for a channel without a period (as long as a hundred times
\* the duty is a word).
Percentage(c) ==
  IF c.period_ns = 0 THEN NoPercentage
  ELSE CHOOSE n \in 0 .. 100 :
         n * c.period_ns <= 100 * c.duty_ns /\ 100 * c.duty_ns < (n + 1) * c.period_ns

QuietReadIsConsistent ==
  (rpc = "polarity" /\ quiet) =>
    /\ conf.duty_ns <= conf.period_ns
    /\ conf.duty_ns * 100 < WORD => conf.duty_percent = Percentage(conf)
=============================================================================
