------------------------------ MODULE PwmPower ------------------------------
(***************************************************************************)
(* Suspend and resume of _pwm.c: pwm_save_state() and pwm_restore_state()  *)
(* copy a channel's registers to memory and back, one by one, and take     *)
(* neither the channel's lock nor notice of calls in flight.  What keeps   *)
(* the calls away is the kernel, which freezes user processes first; the   *)
(* work queue of the driver and other kernel threads are not frozen.       *)
(***************************************************************************)
EXTENDS PwmConfig

CONSTANT Freezable   \* the threads that are processes

ASSUME PowerAssumption == Freezable \subseteq Threads

VARIABLES
  power,     (* where the system is on its way to sleep and back            *)
  saved,     (* pwm_regs.chan[i], the copy of the channel's registers       *)
  undisturbed,  (* history: nobody was in the locked half of a call since   *)
             (* the processes were frozen                                   *)
  clobbered  (* history: a call overwrote the control register with what it *)
             (* had read before the resume restored it                      *)

powerVars == <<power, saved, undisturbed, clobbered>>

ResetCtrl == [prescale |-> 0, enabled |-> FALSE, inverted |-> FALSE]

NotSaved == [pwm_ctrl |-> ResetCtrl, pwm_duty |-> 0, pwm_perval |-> 0]

PowerInit ==
  /\ power = "awake"
  /\ saved = NotSaved /\ undisturbed = TRUE
  /\ clobbered = FALSE

Power(from, to) == power = from /\ power' = to

\* A process is frozen on its way back to user mode, outside the driver.
Freeze ==
  /\ \A t \in Freezable : pc[t] = "idle"
  /\ Power("awake", "save_ctrl")
  /\ undisturbed' = (lock = NoThread)
  /\ UNCHANGED <<vars, saved, clobbered>>

(***************************************************************************)
(* pwm_save_state.                                                         *)
(***************************************************************************)
SaveCtrl ==
  /\ Power("save_ctrl", "save_duty")
  /\ saved' = [saved EXCEPT !.pwm_ctrl = pwm_ctrl]
  /\ UNCHANGED <<vars, undisturbed, clobbered>>

SaveDuty ==
  /\ Power("save_duty", "save_perval")
  /\ saved' = [saved EXCEPT !.pwm_duty = pwm_duty]
  /\ UNCHANGED <<vars, undisturbed, clobbered>>

SavePerval ==
  /\ Power("save_perval", "saved")
  /\ saved' = [saved EXCEPT !.pwm_perval = pwm_perval]
  /\ UNCHANGED <<vars, undisturbed, clobbered>>

(***************************************************************************)
(* The machine goes to sleep, when the processors that are still running   *)
(* have left their spinlocks, and wakes with the registers at reset; or    *)
(* another device refuses to sleep, and the driver is resumed at once.     *)
(***************************************************************************)
Sleep ==
  /\ lock = NoThread
  /\ Power("saved", "restore_duty")
  /\ pwm_ctrl' = ResetCtrl /\ pwm_duty' = 0 /\ pwm_perval' = 0
  /\ UNCHANGED <<channel, lock, pc, cmd, saved, undisturbed, clobbered>>

SleepAborted ==
  /\ Power("saved", "restore_duty")
  /\ UNCHANGED <<vars, saved, undisturbed, clobbered>>

(***************************************************************************)
(* pwm_restore_state.                                                      *)
(***************************************************************************)
\* Variants for the checks: the duty register is forgotten; the control register
\* is restored with the first one instead of last.
RestoreNoDuty ==
  /\ Power("restore_duty", "restore_perval")
  /\ UNCHANGED <<vars, saved, undisturbed, clobbered>>
RestoreCtrlFirst ==
  /\ Power("restore_duty", "restore_perval")
  /\ pwm_duty' = saved.pwm_duty /\ pwm_ctrl' = saved.pwm_ctrl
  /\ UNCHANGED <<channel, pwm_perval, lock, pc, cmd, saved, undisturbed, clobbered>>

RestoreDuty ==
  /\ Power("restore_duty", "restore_perval")
  /\ pwm_duty' = saved.pwm_duty
  /\ UNCHANGED <<channel, pwm_ctrl, pwm_perval, lock, pc, cmd, saved, undisturbed, clobbered>>

\* Variant for the checks: the period register is forgotten.
RestoreNoPerval ==
  /\ Power("restore_perval", "restore_ctrl")
  /\ UNCHANGED <<vars, saved, undisturbed, clobbered>>

RestorePerval ==
  /\ Power("restore_perval", "restore_ctrl")
  /\ pwm_perval' = saved.pwm_perval
  /\ UNCHANGED <<channel, pwm_ctrl, pwm_duty, lock, pc, cmd, saved, undisturbed, clobbered>>

\* Last, because it enables the counter.  A call in its locked half may have
\* read the register already and write it after us.
RestoreCtrl ==
  /\ Power("restore_ctrl", "restored")
  /\ \/ pwm_ctrl' = saved.pwm_ctrl /\ UNCHANGED clobbered
     \/ lock # NoThread /\ clobbered' = TRUE /\ UNCHANGED pwm_ctrl
  /\ UNCHANGED <<channel, pwm_duty, pwm_perval, lock, pc, cmd, saved, undisturbed>>

\* The copy is dead now: it is read again only after the next save.
Thaw ==
  /\ Power("restored", "awake")
  /\ saved' = NotSaved /\ undisturbed' = TRUE
  /\ UNCHANGED <<vars, clobbered>>

PowerStep ==
  \/ Freeze \/ SaveCtrl \/ SaveDuty \/ SavePerval \/ Sleep \/ SleepAborted
  \/ RestoreDuty \/ RestorePerval \/ RestoreCtrl \/ Thaw

\* Frozen threads do nothing until they are thawed.
PowerWaits ==
  /\ power # "awake" => \A t \in Freezable : pc'[t] = pc[t]
  /\ undisturbed' = (undisturbed /\ (power = "awake" \/ lock' = NoThread))
  /\ UNCHANGED <<power, saved, clobbered>>

-----------------------------------------------------------------------------
PowerStages == {"awake", "save_ctrl", "save_duty", "save_perval", "saved",
                "restore_duty", "restore_perval", "restore_ctrl", "restored"}

\* What is saved has the types of the registers.
PowerTypeOK ==
  /\ power \in PowerStages
  /\ saved \in [pwm_ctrl : [prescale : 0 .. PRESCALE_MAX, enabled : BOOLEAN,
                            inverted : BOOLEAN],
                pwm_duty : 0 .. FIELD_RANGE - 1, pwm_perval : 0 .. FIELD_RANGE - 1]
  /\ undisturbed \in BOOLEAN /\ clobbered \in BOOLEAN

\* After a resume the registers are again those of the configuration the
\* channel reports, prescale, period and duty (as far as they were before: one
\* of the two counts may be stale), although they were copied without a lock and
\* the work queue went on starting and stopping the channel: unless a start or a
\* stop was between its read and its write of the control register when the
\* resume wrote it.  Needs configuring threads that freeze.
AwakeRegistersAgree ==
  (power = "awake" /\ ~clobbered) =>
    /\ PrescaleTracksPeriod /\ PeriodFieldFits /\ FullDutyHonoured
    /\ DutyRegisterFollows /\ OneRegisterStale

\* The copy is a snapshot although it is read one register at a time, and what
\* the resume leaves is the copy, unless a call entered the driver meanwhile.
SnapshotExact ==
  (power \in {"saved", "restored"} /\ undisturbed) =>
    saved = [pwm_ctrl |-> pwm_ctrl, pwm_duty |-> pwm_duty, pwm_perval |-> pwm_perval]

\* The resume switches a channel on only when its duty and period counters are
\* the ones that were saved: the output shows no pulse of another shape.
ResumesCompletely ==
  [][(power # power' /\ ~pwm_ctrl.enabled /\ pwm_ctrl'.enabled) =>
       pwm_duty' = saved.pwm_duty /\ pwm_perval' = saved.pwm_perval]_<<vars, powerVars>>
=============================================================================
