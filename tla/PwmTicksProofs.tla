--------------------------- MODULE PwmTicksProofs ---------------------------
(***************************************************************************)
(* Facts about the arithmetic of PwmTicks, for every width of the words    *)
(* and fields that satisfies NumbersAssumption.                            *)
(***************************************************************************)
EXTENDS PwmTicks, TLAPS

\* Multiplication by a natural number is monotonic.
LEMMA TimesMonotonic ==
  ASSUME NEW a \in Nat, NEW b \in Int, NEW c \in Int, b <= c
  PROVE  a * b <= a * c
<1>1. PICK d \in Nat : c = b + d
  <2>1. c - b \in Nat
    OBVIOUS
  <2>. QED
    BY <2>1
<1>2. a * c = a * b + a * d
  BY <1>1
<1>3. a * d \in Nat /\ a * b \in Int
  BY <1>1
<1>. QED
  BY <1>2, <1>3

\* So is division by a positive one.
LEMMA DivMonotonic ==
  ASSUME NEW a \in Nat, NEW b \in Nat, a <= b, NEW d \in Nat \ {0}
  PROVE  a \div d \in Nat /\ b \div d \in Nat /\ a \div d <= b \div d
<1>. DEFINE k == a \div d
            m == b \div d
<1>1. k \in Nat /\ a = d * k + (a % d) /\ a % d \in 0 .. d - 1
  OBVIOUS
<1>2. m \in Nat /\ b = d * m + (b % d) /\ b % d \in 0 .. d - 1
  OBVIOUS
<1>. HIDE DEF k, m
<1>3. ASSUME m + 1 <= k PROVE FALSE
  <2>1. d * (m + 1) <= d * k
    BY <1>1, <1>2, <1>3, TimesMonotonic
  <2>2. d * (m + 1) = d * m + d /\ d * m \in Nat /\ d * k \in Nat
    BY <1>1, <1>2
  <2>. QED
    BY <1>1, <1>2, <2>1, <2>2
<1>4. k <= m
  BY <1>1, <1>2, <1>3
<1>. QED
  BY <1>1, <1>2, <1>4 DEF k, m

\* A word is wide enough for something.
LEMMA WordsNotEmpty ==
  WORD \in Nat \ {0} /\ 0 \in Words /\ Words \subseteq Nat
<1>1. 2 * PERVAL_RANGE * (PRESCALE_MAX + 1) > 0
  <2>1. PRESCALE_MAX + 1 \in Nat \ {0} /\ 2 * PERVAL_RANGE \in Nat \ {0}
    BY NumbersAssumption
  <2>. QED
    BY <2>1
<1>. QED
  BY <1>1, NumbersAssumption DEF Words

(***************************************************************************)
(* The prescaler.                                                          *)
(***************************************************************************)
\* The prescale of a period is the number of whole prescale steps below it:
\* one step fewer could not count to the period.
LEMMA PrescaleBracket ==
  ASSUME NEW p \in Words, p > 0
  PROVE  /\ Prescale(p) \in Nat
         /\ PERVAL_RANGE * Prescale(p) < p
         /\ p <= PERVAL_RANGE * (Prescale(p) + 1)
<1>. DEFINE q == Prescale(p)
<1>1. WORD \in Nat \ {0} /\ PERVAL_RANGE \in Nat \ {0} /\ p \in Nat
  BY NumbersAssumption DEF Words
<1>2. (p - 1) % WORD = p - 1
  BY <1>1 DEF Words
<1>3. q = (p - 1) \div PERVAL_RANGE
  BY <1>2 DEF Prescale
<1>4. /\ q \in Nat
      /\ (p - 1) % PERVAL_RANGE \in 0 .. PERVAL_RANGE - 1
      /\ p - 1 = PERVAL_RANGE * q + ((p - 1) % PERVAL_RANGE)
  <2>. HIDE DEF q
  <2>1. p - 1 \in Nat
    BY <1>1
  <2>. QED
    BY <1>1, <1>3, <2>1
<1>5. PERVAL_RANGE * (q + 1) = PERVAL_RANGE * q + PERVAL_RANGE
  <2>. HIDE DEF q
  <2>. QED
    BY <1>1, <1>4
<1>6. PERVAL_RANGE * q \in Int
  <2>. HIDE DEF q
  <2>. QED
    BY <1>1, <1>4
<1>. HIDE DEF q
<1>7. q \in Nat /\ PERVAL_RANGE * q < p /\ p <= PERVAL_RANGE * (q + 1)
  BY <1>1, <1>4, <1>5, <1>6
<1>. QED
  BY <1>7 DEF q

\* period_ticks - 1 wraps for a period of no ticks, and the wrapped value is
\* beyond the prescaler: such a period is refused.
LEMMA ZeroNotProgrammable == ~Programmable(0)
<1>. DEFINE q == (WORD - 1) \div PERVAL_RANGE
<1>1. /\ WORD \in Nat /\ PERVAL_RANGE \in Nat \ {0} /\ PRESCALE_MAX \in Nat
      /\ WORD > 0
  BY WordsNotEmpty, NumbersAssumption
<1>2. Prescale(0) = q
  <2>1. (0 - 1) % WORD = WORD - 1
    BY <1>1
  <2>. QED
    BY <2>1 DEF Prescale
<1>3. /\ q \in Nat /\ (WORD - 1) % PERVAL_RANGE < PERVAL_RANGE
      /\ (WORD - 1) % PERVAL_RANGE \in Int
      /\ WORD - 1 = PERVAL_RANGE * q + ((WORD - 1) % PERVAL_RANGE)
  <2>1. WORD - 1 \in Nat
    BY <1>1
  <2>. QED
    BY <1>1, <2>1
<1>. HIDE DEF q
<1>4. ASSUME q <= PRESCALE_MAX PROVE FALSE
  <2>1. PERVAL_RANGE * q <= PERVAL_RANGE * PRESCALE_MAX
    BY <1>1, <1>3, <1>4, TimesMonotonic
  <2>2. 2 * PERVAL_RANGE * (PRESCALE_MAX + 1)
          = 2 * (PERVAL_RANGE * PRESCALE_MAX) + 2 * PERVAL_RANGE
    BY <1>1
  <2>3. PERVAL_RANGE * q \in Int /\ PERVAL_RANGE * PRESCALE_MAX \in Nat
    BY <1>1, <1>3
  <2>. QED
    BY <1>1, <1>3, <2>1, <2>2, <2>3, NumbersAssumption
<1>. QED
  BY <1>1, <1>2, <1>3, <1>4 DEF Programmable

\* A period that is programmed has at least one tick.
LEMMA ProgrammablePositive ==
  ASSUME NEW p \in Words, Programmable(p)
  PROVE  p > 0
BY ZeroNotProgrammable, NumbersAssumption DEF Words

\* The value of the period counter: rounding down by the prescaler neither
\* makes it negative nor needs the bit PWM_PERVAL_MSK keeps in excess.
LEMMA PervalBound ==
  ASSUME NEW p \in Words, Programmable(p)
  PROVE  Perval(p) \in 0 .. PERVAL_RANGE - 1
<1>. DEFINE d == Prescale(p) + 1
            k == p \div d
            m == p % d
<1>1. p > 0 /\ p \in Nat
  BY ProgrammablePositive, NumbersAssumption DEF Words
<1>2. /\ d \in Nat \ {0}
      /\ PERVAL_RANGE * (d - 1) < p /\ p <= PERVAL_RANGE * d
  BY <1>1, PrescaleBracket
<1>. HIDE DEF d
<1>3. k \in Nat /\ m \in 0 .. d - 1 /\ p = d * k + m
  BY <1>1, <1>2
<1>. HIDE DEF k, m
<1>4. PERVAL_RANGE \in Nat \ {0}
  BY NumbersAssumption
<1>5. ASSUME k = 0 PROVE FALSE
  <2>1. p = m
    BY <1>2, <1>3, <1>5
  <2>2. (d - 1) * 1 <= (d - 1) * PERVAL_RANGE
    BY <1>2, <1>4, TimesMonotonic
  <2>3. (d - 1) * PERVAL_RANGE = PERVAL_RANGE * (d - 1)
    BY <1>2, <1>4
  <2>4. PERVAL_RANGE * (d - 1) \in Int
    BY <1>2, <1>4
  <2>. QED
    BY <1>1, <1>2, <1>3, <2>1, <2>2, <2>3, <2>4
<1>6. ASSUME k >= PERVAL_RANGE + 1 PROVE FALSE
  <2>1. d * (PERVAL_RANGE + 1) <= d * k
    BY <1>2, <1>3, <1>4, <1>6, TimesMonotonic
  <2>2. d * (PERVAL_RANGE + 1) = PERVAL_RANGE * d + d
    BY <1>2, <1>4
  <2>3. PERVAL_RANGE * d \in Int /\ d * k \in Int
    BY <1>2, <1>3, <1>4
  <2>. QED
    BY <1>1, <1>2, <1>3, <2>1, <2>2, <2>3
<1>7. k - 1 \in 0 .. PERVAL_RANGE - 1
  BY <1>3, <1>4, <1>5, <1>6
<1>. QED
  BY <1>7 DEF Perval, k, d

(***************************************************************************)
(* Types of the conversions.                                               *)
(***************************************************************************)
\* Masked fields fit their mask.
LEMMA FieldTypes ==
  /\ FIELD_RANGE \in Nat \ {0} /\ PWM_FDCYCLE \in 0 .. FIELD_RANGE - 1
  /\ \A n \in Int : n % FIELD_RANGE \in 0 .. FIELD_RANGE - 1
BY NumbersAssumption DEF FIELD_RANGE, PWM_FDCYCLE

\* A duty below a programmed period fits the duty counter without being cut
\* by its mask, and leaves the full-cycle bit clear.
LEMMA DutyFieldExact ==
  ASSUME NEW p \in Words, Programmable(p), NEW duty \in Nat, duty < p
  PROVE  /\ DutyField(duty, Prescale(p)) = duty \div (Prescale(p) + 1)
         /\ DutyField(duty, Prescale(p)) < PWM_FDCYCLE
<1>. DEFINE d == Prescale(p) + 1
            k == duty \div d
<1>1. p > 0
  BY ProgrammablePositive
<1>2. d \in Nat \ {0} /\ p <= PERVAL_RANGE * d
  BY <1>1, PrescaleBracket
<1>. HIDE DEF d
<1>3. /\ k \in Nat /\ duty % d \in 0 .. d - 1
      /\ duty = d * k + (duty % d)
  BY <1>2
<1>4. PERVAL_RANGE \in Nat \ {0} /\ p \in Nat
  BY NumbersAssumption DEF Words
<1>. HIDE DEF k
<1>5. ASSUME k >= PERVAL_RANGE PROVE FALSE
  <2>1. d * PERVAL_RANGE <= d * k
    BY <1>2, <1>3, <1>4, <1>5, TimesMonotonic
  <2>2. d * PERVAL_RANGE = PERVAL_RANGE * d /\ PERVAL_RANGE * d \in Int /\ d * k \in Int
    BY <1>2, <1>3, <1>4
  <2>. QED
    BY <1>2, <1>3, <1>4, <2>1, <2>2
<1>6. k < PERVAL_RANGE
  BY <1>3, <1>4, <1>5
<1>7. k % FIELD_RANGE = k
  BY <1>3, <1>4, <1>6 DEF FIELD_RANGE
<1>. QED
  BY <1>6, <1>7 DEF DutyField, PWM_FDCYCLE, k, d

\* The conversions return words.
LEMMA ConversionTypes ==
  /\ \A hz \in Nat, ns \in Nat : NsToTicks(hz, ns) \in Words
  /\ \A period \in Words, percent \in Nat : PercentToTicks(period, percent) \in Words
<1>1. \A n \in Int : n % WORD \in Words
  BY WordsNotEmpty DEF Words
<1>2. ASSUME NEW hz \in Nat, NEW ns \in Nat
      PROVE  NsToTicks(hz, ns) \in Words
  <2>1. ns * hz \in Nat
    OBVIOUS
  <2>2. (ns * hz) \div NSEC_PER_SEC \in Int
    BY <2>1, NumbersAssumption
  <2>. QED
    BY <1>1, <2>2 DEF NsToTicks
<1>3. ASSUME NEW period \in Words, NEW percent \in Nat
      PROVE  PercentToTicks(period, percent) \in Words
  <2>1. period * percent \in Nat
    BY WordsNotEmpty
  <2>2. (period * percent) % WORD \in Words
    BY <1>1, <2>1
  <2>3. \A w \in Words : w \div 100 \in Words
    BY WordsNotEmpty DEF Words
  <2>. QED
    BY <2>2, <2>3 DEF PercentToTicks
<1>. QED
  BY <1>2, <1>3

(***************************************************************************)
(* What the conversions do to a caller's numbers.                          *)
(***************************************************************************)
\* Division and its remainder, for naturals.
LEMMA Division ==
  ASSUME NEW a \in Nat, NEW d \in Nat \ {0}
  PROVE  /\ a \div d \in Nat /\ a = d * (a \div d) + (a % d)
         /\ d * (a \div d) \in Nat
         /\ d * (a \div d) <= a /\ a < d * (a \div d) + d
<1>. DEFINE k == a \div d
            m == a % d
<1>1. k \in Nat /\ m \in 0 .. d - 1 /\ a = d * k + m
  OBVIOUS
<1>. HIDE DEF k, m
<1>2. d * k \in Nat
  BY <1>1
<1>3. k \in Nat /\ a = d * k + m /\ d * k \in Nat /\ d * k <= a /\ a < d * k + d
  BY <1>1, <1>2
<1>. QED
  BY <1>3 DEF k, m

\* A quotient is the largest factor that fits.
LEMMA QuotientLeast ==
  ASSUME NEW a \in Nat, NEW d \in Nat \ {0}, NEW n \in Nat, a <= d * n
  PROVE  a \div d <= n
<1>. DEFINE k == a \div d
<1>1. k \in Nat /\ d * k <= a /\ d * k \in Nat
  BY Division
<1>. HIDE DEF k
<1>2. ASSUME n + 1 <= k PROVE FALSE
  <2>1. d * (n + 1) <= d * k
    BY <1>1, <1>2, TimesMonotonic
  <2>2. d * (n + 1) = d * n + d /\ d * n \in Nat
    OBVIOUS
  <2>. QED
    BY <1>1, <2>1, <2>2
<1>3. k <= n
  BY <1>1, <1>2
<1>. QED
  BY <1>3 DEF k

\* The clock has at most a tick a nanosecond, so a word of nanoseconds is a word
\* of ticks and does not wrap.
LEMMA TicksDoNotWrap ==
  ASSUME NEW hz \in 1 .. NSEC_PER_SEC, NEW ns \in Words
  PROVE  /\ ns * hz \in Nat
         /\ NsToTicks(hz, ns) = (ns * hz) \div NSEC_PER_SEC
         /\ NsToTicks(hz, ns) \in Nat /\ NsToTicks(hz, ns) <= ns
<1>. DEFINE k == (ns * hz) \div NSEC_PER_SEC
<1>1. /\ NSEC_PER_SEC \in Nat \ {0} /\ hz \in Nat /\ hz <= NSEC_PER_SEC
      /\ ns \in Nat /\ ns < WORD /\ WORD \in Nat
  BY NumbersAssumption, WordsNotEmpty DEF Words
<1>2. ns * hz \in Nat /\ ns * hz <= NSEC_PER_SEC * ns
  <2>1. ns * hz <= ns * NSEC_PER_SEC
    BY <1>1, TimesMonotonic
  <2>. QED
    BY <1>1, <2>1
<1>3. k \in Nat /\ k <= ns
  BY <1>1, <1>2, QuotientLeast, Division
<1>. HIDE DEF k
<1>4. k % WORD = k
  BY <1>1, <1>3
<1>. QED
  BY <1>2, <1>3, <1>4 DEF NsToTicks, k

\* A caller who keeps to duty_ns <= period_ns, as pwm.h:98 asks, never has the
\* duty rejected for its rounding: the conversion keeps the order.
THEOREM ConversionKeepsOrder ==
  ASSUME NEW hz \in 1 .. NSEC_PER_SEC, NEW period \in Words, NEW duty \in Words,
         duty <= period
  PROVE  NsToTicks(hz, duty) <= NsToTicks(hz, period)
<1>1. NSEC_PER_SEC \in Nat \ {0} /\ hz \in Nat /\ duty \in Nat /\ period \in Nat
  BY NumbersAssumption, WordsNotEmpty
<1>2. duty * hz <= period * hz
  <2>1. hz * duty <= hz * period
    BY <1>1, TimesMonotonic
  <2>. QED
    BY <1>1, <2>1
<1>3. duty * hz \in Nat /\ period * hz \in Nat
  BY TicksDoNotWrap
<1>4. (duty * hz) \div NSEC_PER_SEC <= (period * hz) \div NSEC_PER_SEC
  BY <1>1, <1>2, <1>3, DivMonotonic
<1>. QED
  BY <1>4, TicksDoNotWrap

\* Nanoseconds that were converted to ticks read back as no more than they were,
\* and as less than a tick and a nanosecond short of it (times the clock: a tick
\* is NSEC_PER_SEC / hz nanoseconds).  Nothing wraps on the way.
THEOREM ReadBackWithinOneTick ==
  ASSUME NEW hz \in 1 .. NSEC_PER_SEC, NEW ns \in Words
  PROVE  LET back == TicksToNs(hz, NsToTicks(hz, ns))
         IN  back \in Nat /\ back <= ns /\ (ns - back) * hz < NSEC_PER_SEC + hz
<1>. DEFINE n == ns * hz
            t == n \div NSEC_PER_SEC
            m == t * NSEC_PER_SEC
            b == m \div hz
<1>1. /\ NSEC_PER_SEC \in Nat \ {0} /\ hz \in Nat \ {0}
      /\ ns \in Nat /\ ns < WORD /\ WORD \in Nat
  BY NumbersAssumption, WordsNotEmpty DEF Words
<1>2. n \in Nat /\ NsToTicks(hz, ns) = t
  BY TicksDoNotWrap
<1>. HIDE DEF n
<1>3. t \in Nat /\ m \in Nat /\ m <= n /\ n < m + NSEC_PER_SEC
  <2>1. /\ t \in Nat /\ NSEC_PER_SEC * t \in Nat
        /\ NSEC_PER_SEC * t <= n /\ n < NSEC_PER_SEC * t + NSEC_PER_SEC
    BY <1>1, <1>2, Division
  <2>. HIDE DEF t
  <2>2. m = NSEC_PER_SEC * t
    BY <1>1, <2>1
  <2>. QED
    BY <2>1, <2>2
<1>. HIDE DEF t
<1>. HIDE DEF m
<1>4. b \in Nat /\ hz * b \in Nat /\ hz * b <= m /\ m < hz * b + hz
  BY <1>1, <1>3, Division
<1>5. b <= ns
  <2>1. m <= hz * ns
    BY <1>1, <1>3 DEF n
  <2>. QED
    BY <1>1, <1>3, <2>1, QuotientLeast
<1>. HIDE DEF b
<1>6. b % WORD = b
  BY <1>1, <1>4, <1>5
<1>7. (ns - b) * hz = n - hz * b
  BY <1>1, <1>4 DEF n
<1>8. (ns - b) * hz < NSEC_PER_SEC + hz
  BY <1>1, <1>2, <1>3, <1>4, <1>7
<1>9. TicksToNs(hz, NsToTicks(hz, ns)) = b
  BY <1>1, <1>2, <1>6 DEF TicksToNs, b, m
<1>. QED
  BY <1>4, <1>5, <1>8, <1>9

\* A documented percentage is never rejected, and a hundred percent is exactly the
\* period, which is what asks for a full cycle.  Periods are those the prescaler
\* can make: a hundred times as many ticks is still a word.
THEOREM PercentWithinPeriod ==
  ASSUME 100 * PERVAL_RANGE * (PRESCALE_MAX + 1) < WORD,
         NEW p \in Words, Programmable(p) \/ p = 0, NEW percent \in 0 .. 100
  PROVE  /\ PercentToTicks(p, percent) <= p
         /\ PercentToTicks(p, 100) = p
<1>1. /\ PERVAL_RANGE \in Nat \ {0} /\ PRESCALE_MAX \in Nat /\ WORD \in Nat
      /\ p \in Nat /\ percent \in Nat /\ percent <= 100
  BY NumbersAssumption, WordsNotEmpty
<1>2. p <= PERVAL_RANGE * (PRESCALE_MAX + 1)
  <2>. DEFINE q == Prescale(p)
  <2>1. CASE p = 0
    BY <1>1, <2>1
  <2>2. CASE Programmable(p)
    <3>1. q \in Nat /\ q <= PRESCALE_MAX /\ p <= PERVAL_RANGE * (q + 1)
      BY <2>2, ProgrammablePositive, PrescaleBracket DEF Programmable
    <3>. HIDE DEF q
    <3>2. PERVAL_RANGE * (q + 1) <= PERVAL_RANGE * (PRESCALE_MAX + 1)
      BY <1>1, <3>1, TimesMonotonic
    <3>3. PERVAL_RANGE * (q + 1) \in Nat /\ PERVAL_RANGE * (PRESCALE_MAX + 1) \in Nat
      BY <1>1, <3>1
    <3>. QED
      BY <1>1, <3>1, <3>2, <3>3
  <2>. QED
    BY <2>1, <2>2
<1>3. 100 * p < WORD
  <2>. DEFINE m == PERVAL_RANGE * (PRESCALE_MAX + 1)
  <2>1. m \in Nat /\ 100 * PERVAL_RANGE * (PRESCALE_MAX + 1) = 100 * m
    BY <1>1
  <2>. HIDE DEF m
  <2>. QED
    BY <1>1, <1>2, <2>1 DEF m
<1>4. ASSUME NEW n \in Nat, n <= 100
      PROVE  p * n \in Nat /\ p * n <= 100 * p /\ PercentToTicks(p, n) = (p * n) \div 100
  <2>1. p * n <= p * 100 /\ p * n \in Nat
    BY <1>1, <1>4, TimesMonotonic
  <2>2. (p * n) % WORD = p * n
    BY <1>1, <1>3, <2>1
  <2>. QED
    BY <1>1, <2>1, <2>2 DEF PercentToTicks
<1>5. PercentToTicks(p, percent) <= p
  BY <1>1, <1>4, QuotientLeast
<1>6. PercentToTicks(p, 100) = p
  BY <1>1, <1>4
<1>. QED
  BY <1>5, <1>6

(***************************************************************************)
(* What the registers make of a period and a duty.                         *)
(***************************************************************************)
\* The counter runs Perval(p) + 1 steps of Prescale(p) + 1 ticks each: never more
\* than the period asked for, and short of it by less than one step.
THEOREM PeriodAccuracy ==
  ASSUME NEW p \in Words, Programmable(p)
  PROVE  LET made == (Perval(p) + 1) * (Prescale(p) + 1)
         IN  made <= p /\ p - made <= Prescale(p)
<1>. DEFINE d == Prescale(p) + 1
            k == p \div d
<1>1. p \in Nat /\ d \in Nat \ {0} /\ Prescale(p) = d - 1
  <2>1. p > 0
    BY ProgrammablePositive
  <2>2. Prescale(p) \in Nat
    BY <2>1, PrescaleBracket
  <2>. QED
    BY <2>2, WordsNotEmpty
<1>. HIDE DEF d
<1>2. k \in Nat /\ d * k \in Nat /\ d * k <= p /\ p < d * k + d
  BY <1>1, Division
<1>. HIDE DEF k
<1>3. Perval(p) + 1 = k
  BY <1>2 DEF Perval, k, d
<1>4. k * d = d * k
  BY <1>1, <1>2
<1>. QED
  BY <1>1, <1>2, <1>3, <1>4 DEF d

\* A duty below its period is on for no more steps than the period has.
THEOREM DutyFitsPeriod ==
  ASSUME NEW p \in Words, Programmable(p), NEW duty \in Nat, duty < p
  PROVE  DutyField(duty, Prescale(p)) <= Perval(p) + 1
<1>1. p > 0 /\ p \in Nat
  BY ProgrammablePositive, WordsNotEmpty
<1>2. Prescale(p) + 1 \in Nat \ {0}
  BY <1>1, PrescaleBracket
<1>3. /\ duty \div (Prescale(p) + 1) <= p \div (Prescale(p) + 1)
      /\ p \div (Prescale(p) + 1) \in Nat
  BY <1>1, <1>2, DivMonotonic
<1>4. DutyField(duty, Prescale(p)) = duty \div (Prescale(p) + 1)
  BY DutyFieldExact
<1>. QED
  BY <1>3, <1>4 DEF Perval
=============================================================================
