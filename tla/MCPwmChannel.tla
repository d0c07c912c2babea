---------------------------- MODULE MCPwmChannel ----------------------------
(***************************************************************************)
(* An instance of PwmChannel for TLC: one owner, who freezes, and the work *)
(* queue, which starts and stops the channel and does not.  Scaled as in   *)
(* MCPwmConfig: a hundred times the longest duty does not fit a word.      *)
(***************************************************************************)
EXTENDS PwmChannel

\* A period; a duty for the period the channel has, with a polarity; and all that
\* can be asked for at once, as in the example of summary.h.
OwnerFlags == {{"PERIOD"}, {"DUTY", "POLARITY"},
               {"PERIOD", "DUTY", "PERCENT", "POLARITY"}}

\* One period for each of two prescales, and one of no ticks.
Periods == {1, 6, 25}
=============================================================================
