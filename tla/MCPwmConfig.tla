---------------------------- MODULE MCPwmConfig -----------------------------
(***************************************************************************)
(* Instances of PwmConfig for TLC.  Widths are scaled down: a prescale     *)
(* step counts 4 ticks instead of 2^17, there are 3 steps instead of 128.  *)
(* A tick is 2 ns.                                                         *)
(***************************************************************************)
EXTENDS PwmConfig

\* What two callers disturb each other with: a period, a duty that depends on
\* the period the channel has, or both together with the polarity (of which the
\* kernel API keeps the polarity).
MixedFlags == {{"PERIOD"}, {"PERCENT"}, {"PERIOD", "DUTY", "POLARITY"}}

\* What can disturb a concurrent validation: period, duty, or both.
PairFlags == {{"PERIOD"}, {"DUTY"}, {"PERIOD", "DUTY"}}

\* Ticks 4 and 11: the longest period without a prescale, and one that the largest
\* prescale does not divide; and a period of no ticks.
MixedPeriods == {1, 8, 22}

\* Ticks 3, 5 and 12: one period for each prescale.
ProgrammablePeriods == {6, 10, 25}
\* ... and a period of zero ticks and one beyond the prescaler.
AllPeriods == {1, 6, 25, 30}
=============================================================================
