------------------------- MODULE PwmSettingsProofs --------------------------
(***************************************************************************)
(* pwm_config() implements ChannelSettings: for any number of callers, a   *)
(* call takes effect at once, when it takes the lock.  Every step of the   *)
(* model is a step of the abstract specification or a stutter:             *)
(*                                                                         *)
(*   Call -> Begin            ResolvePercent -> Resolve, or a stutter      *)
(*   CheckRejects -> Refuse   EnterAndRun -> Apply                         *)
(*   PolarityAndLeave -> Return                 all the rest -> a stutter  *)
(*                                                                         *)
(* The argument needs the lock (MutualExclusion): the writes still to come *)
(* are those of one thread, and nobody else writes meanwhile.              *)
(***************************************************************************)
EXTENDS PwmConfigProofs

Locked == TypeOK /\ MutualExclusion

LEMMA LockedInvariant == Spec => []Locked
<1>1. AtomicInv => Locked
  BY DEF AtomicInv, Locked
<1>. QED
  BY <1>1, AtomicInvariant, PTL

(***************************************************************************)
(* The setting as a function of who holds the lock.                        *)
(***************************************************************************)
\* Nobody holds it: what the channel structure says.
LEMMA FreeSetting ==
  ASSUME lock = NoThread
  PROVE  Setting = [period |-> period_ticks, duty |-> duty_ticks,
                    active_high |-> active_high, enabled |-> pwm_ctrl.enabled]
BY DEF Setting, Pending

\* Thread t holds it: what t has not written yet takes precedence.
LEMMA HeldSetting ==
  ASSUME lock # NoThread, NEW t, lock = t
  PROVE  Setting =
    [period      |-> IF pc[t] = "period" /\ "PERIOD" \in cmd[t].mask
                          /\ Programmable(cmd[t].period)
                     THEN cmd[t].period ELSE period_ticks,
     duty        |-> IF pc[t] \in {"period", "duty"} /\ "DUTY" \in cmd[t].mask
                     THEN cmd[t].duty ELSE duty_ticks,
     active_high |-> IF pc[t] \in InLock /\ "POLARITY" \in cmd[t].mask
                     THEN cmd[t].polarity ELSE active_high,
     enabled     |-> pwm_ctrl.enabled]
BY DEF Setting, Pending

\* A step outside the lock changes nothing that the setting depends on.
LEMMA OutsideSetting ==
  ASSUME Locked, NEW t \in Threads, UnlockedStep(t)
  PROVE  Setting' = Setting
<1>1. /\ lock' = lock /\ lock # t
      /\ UNCHANGED <<period_ticks, duty_ticks, active_high, pwm_ctrl>>
  BY OutsideStep DEF Locked, MutualExclusion, channel, registers
<1>2. CASE lock = NoThread
  BY <1>1, <1>2 DEF Setting, Pending
<1>3. CASE lock # NoThread
  <2>1. lock \in Threads \ {t}
    BY <1>1, <1>3 DEF Locked, TypeOK
  <2>2. pc'[lock] = pc[lock] /\ cmd'[lock] = cmd[lock]
    BY <2>1, OutsideStep DEF Locked
  <2>. QED
    BY <1>1, <2>2 DEF Setting, Pending
<1>. QED
  BY <1>2, <1>3

\* How a step of one thread moves the phases.
LEMMA PhaseMove ==
  ASSUME Locked, NEW t \in Threads, NEW from, NEW to, Goto(t, from, to)
  PROVE  /\ from \notin InLock /\ from # "idle" /\ to \in InLock
              => Settings!Moves(t, "called", "applied")
         /\ from = "idle" /\ to = "percent" => Settings!Moves(t, "idle", "called")
         /\ from = "check" /\ to = "idle" => Settings!Moves(t, "called", "idle")
         /\ from = "polarity" /\ to = "idle" => Settings!Moves(t, "applied", "idle")
         /\ (from \in {"percent", "check"} /\ to \in {"check", "lock"}) => Phase' = Phase
         /\ from \in InLock /\ to \in InLock => Phase' = Phase
<1>1. pc' = [pc EXCEPT ![t] = to] /\ pc[t] = from /\ pc \in [Threads -> Stages]
  BY DEF Goto, Locked, TypeOK
<1>2. /\ from \notin InLock /\ from # "idle" /\ to \in InLock
           => Settings!Moves(t, "called", "applied")
      /\ from = "idle" /\ to = "percent" => Settings!Moves(t, "idle", "called")
  BY <1>1 DEF Settings!Moves, Phase, InLock
<1>3. /\ from = "check" /\ to = "idle" => Settings!Moves(t, "called", "idle")
      /\ from = "polarity" /\ to = "idle" => Settings!Moves(t, "applied", "idle")
  BY <1>1 DEF Settings!Moves, Phase, InLock
<1>4. /\ (from \in {"percent", "check"} /\ to \in {"check", "lock"}) => Phase' = Phase
      /\ from \in InLock /\ to \in InLock => Phase' = Phase
  BY <1>1 DEF Phase, InLock
<1>. QED
  BY <1>2, <1>3, <1>4

(***************************************************************************)
(* The steps.                                                              *)
(***************************************************************************)
AbstractVars == <<Setting, cmd, Phase>>

LEMMA SettingInit == Init => Settings!Init
<1>. SUFFICES ASSUME Init PROVE Settings!Init
  OBVIOUS
<1>1. Setting = [period |-> 0, duty |-> 0, active_high |-> FALSE, enabled |-> FALSE]
  BY FreeSetting DEF Init
<1>. QED
  BY <1>1 DEF Init, Phase, Settings!Init

LEMMA UnlockedImplements ==
  ASSUME Locked, NEW t \in Threads, UnlockedStep(t)
  PROVE  Settings!Next \/ UNCHANGED AbstractVars
<1>1. Setting' = Setting
  BY OutsideSetting
<1>2. cmd'[t] \in Command
  BY TypeUnlocked DEF Locked, TypeOK
<1>3. CASE Call(t)
  <2>1. cmd' = [cmd EXCEPT ![t] = cmd'[t]]
    <3>1. PICK c : cmd' = [cmd EXCEPT ![t] = c]
      BY <1>3 DEF Call
    <3>2. cmd'[t] = c
      BY <3>1 DEF Locked, TypeOK
    <3>. QED
      BY <3>1, <3>2
  <2>2. Settings!Moves(t, "idle", "called")
    BY <1>3, PhaseMove DEF Call
  <2>3. Settings!Begin(t)
    BY <1>1, <1>2, <2>1, <2>2 DEF Settings!Begin
  <2>. QED
    BY <2>3 DEF Settings!Next
<1>4. CASE ResolvePercent(t)
  <2>1. Phase' = Phase
    BY <1>4, PhaseMove DEF ResolvePercent
  <2>2. CASE "PERCENT" \notin cmd[t].mask
    BY <1>1, <1>4, <2>1, <2>2 DEF ResolvePercent, AbstractVars
  <2>3. CASE "PERCENT" \in cmd[t].mask
    <3>. DEFINE period == IF "PERIOD" \in cmd[t].mask THEN cmd[t].period ELSE period_ticks
                duty   == PercentToTicks(period, cmd[t].percent)
                c      == [cmd[t] EXCEPT !.mask = (@ \ {"PERCENT"}) \cup {"DUTY"},
                                         !.duty = duty, !.percent = 0]
    <3>1. cmd[t] \in Command
      BY DEF Locked, TypeOK
    <3>. HIDE DEF duty
    <3>2. cmd' = [cmd EXCEPT ![t] = c]
      BY <1>4, <2>3, <3>1 DEF ResolvePercent, duty, Command, Locked, TypeOK
    <3>3. cmd'[t].duty = duty
      BY <3>1, <3>2 DEF Command, Locked, TypeOK
    <3>4. Phase[t] = "called"
      BY <1>4 DEF ResolvePercent, Goto, Phase, InLock
    <3>5. Settings!Resolve(t)
      BY <1>1, <1>2, <2>1, <2>3, <3>2, <3>3, <3>4 DEF Settings!Resolve
    <3>. QED
      BY <3>5 DEF Settings!Next
  <2>. QED
    BY <2>2, <2>3
<1>5. CASE CheckRejects(t)
  <2>1. Settings!Moves(t, "called", "idle")
    BY <1>5, PhaseMove DEF CheckRejects
  <2>2. Settings!Refuse(t)
    BY <1>1, <1>5, <2>1 DEF CheckRejects, Return, Settings!Refuse, Settings!Leave
  <2>. QED
    BY <2>2 DEF Settings!Next
<1>6. CASE CheckPasses(t)
  <2>1. Phase' = Phase
    BY <1>6, PhaseMove DEF CheckPasses
  <2>. QED
    BY <1>1, <1>6, <2>1 DEF CheckPasses, AbstractVars
<1>. QED
  BY <1>3, <1>4, <1>5, <1>6 DEF UnlockedStep

\* Taking the lock is the moment at which the call takes effect.
LEMMA EnterImplements ==
  ASSUME Locked, NEW t \in Threads, EnterAndRun(t), cmd[t].mask # {}
  PROVE  Settings!Apply(t)
<1>1. /\ lock = NoThread /\ lock' = t /\ t # NoThread /\ pc'[t] = "period" /\ cmd' = cmd
      /\ UNCHANGED <<period_ticks, duty_ticks, active_high>>
  BY EnterStep, ConfigAssumption DEF EnterAndRun, channel, Locked
<1>2. pwm_ctrl'.enabled =
        ("STOP" \notin cmd[t].mask /\ ("START" \in cmd[t].mask \/ pwm_ctrl.enabled))
  BY DEF EnterAndRun, Locked, TypeOK
<1>3. Settings!Moves(t, "called", "applied")
  <2>1. "lock" \notin InLock /\ "period" \in InLock
    BY DEF InLock
  <2>. QED
    BY <2>1, PhaseMove DEF EnterAndRun
<1>4. Setting' = Settings!After(Setting, cmd[t])
  <2>1. Setting = [period |-> period_ticks, duty |-> duty_ticks,
                   active_high |-> active_high, enabled |-> pwm_ctrl.enabled]
    BY <1>1, FreeSetting
  <2>2. cmd[t].period \in Words
    BY DEF Locked, TypeOK, Command
  <2>3. Setting' =
          [period      |-> IF "PERIOD" \in cmd[t].mask /\ Programmable(cmd[t].period)
                           THEN cmd[t].period ELSE period_ticks,
           duty        |-> IF "DUTY" \in cmd[t].mask THEN cmd[t].duty ELSE duty_ticks,
           active_high |-> IF "POLARITY" \in cmd[t].mask THEN cmd[t].polarity
                           ELSE active_high,
           enabled     |-> pwm_ctrl'.enabled]
    BY <1>1 DEF Setting, Pending, InLock
  <2>. QED
    BY <1>2, <2>1, <2>2, <2>3 DEF Settings!After
<1>. QED
  BY <1>1, <1>3, <1>4 DEF Settings!Apply

\* The writes that follow are a stutter: the setting has anticipated them.
LEMMA LockedImplements ==
  ASSUME Locked, NEW t \in Threads, LockedStep(t)
  PROVE  Settings!Return(t) \/ UNCHANGED AbstractVars
<1>1. pc[t] \in InLock /\ lock = t /\ t # NoThread
  BY InsideStep, ConfigAssumption DEF Locked, MutualExclusion
<1>. DEFINE c == cmd[t]
            period(at)   == IF at = "period" /\ "PERIOD" \in c.mask /\ Programmable(c.period)
                            THEN c.period ELSE period_ticks
            duty(at)     == IF at \in {"period", "duty"} /\ "DUTY" \in c.mask
                            THEN c.duty ELSE duty_ticks
            polarity(at) == IF at \in InLock /\ "POLARITY" \in c.mask
                            THEN c.polarity ELSE active_high
<1>2. Setting = [period |-> period(pc[t]), duty |-> duty(pc[t]),
                 active_high |-> polarity(pc[t]), enabled |-> pwm_ctrl.enabled]
  BY <1>1, HeldSetting
<1>3. ASSUME PeriodRefused(t) \/ PeriodApplied(t) \/ ConfigDuty(t)
      PROVE  UNCHANGED AbstractVars
  <2>1. /\ lock' = t /\ cmd' = cmd /\ pwm_ctrl'.enabled = pwm_ctrl.enabled
        /\ active_high' = active_high /\ pc'[t] \in InLock
    BY <1>1, <1>3 DEF PeriodRefused, PeriodApplied, ConfigDuty, Goto, Locked, TypeOK, InLock,
                      channel, registers
  <2>2. Phase' = Phase
    BY <1>3, PhaseMove DEF PeriodRefused, PeriodApplied, ConfigDuty, InLock
  <2>3. Setting' =
          [period      |-> IF pc'[t] = "period" /\ "PERIOD" \in c.mask
                                /\ Programmable(c.period)
                           THEN c.period ELSE period_ticks',
           duty        |-> IF pc'[t] \in {"period", "duty"} /\ "DUTY" \in c.mask
                           THEN c.duty ELSE duty_ticks',
           active_high |-> polarity(pc'[t]),
           enabled     |-> pwm_ctrl.enabled]
    BY <1>1, <2>1 DEF Setting, Pending
  <2>4. CASE PeriodRefused(t)
    BY <1>2, <2>1, <2>2, <2>3, <2>4
       DEF PeriodRefused, Goto, Locked, TypeOK, channel, AbstractVars, InLock
  <2>5. CASE PeriodApplied(t)
    BY <1>2, <2>1, <2>2, <2>3, <2>5
       DEF PeriodApplied, Goto, Locked, TypeOK, AbstractVars, InLock
  <2>6. CASE ConfigDuty(t)
    BY <1>2, <2>1, <2>2, <2>3, <2>6
       DEF ConfigDuty, Goto, Locked, TypeOK, AbstractVars, InLock
  <2>. QED
    BY <1>3, <2>4, <2>5, <2>6
<1>4. CASE PolarityAndLeave(t)
  <2>1. /\ lock' = NoThread /\ period_ticks' = period_ticks /\ duty_ticks' = duty_ticks
        /\ pwm_ctrl'.enabled = pwm_ctrl.enabled
        /\ active_high' = IF "POLARITY" \in c.mask THEN c.polarity ELSE active_high
    BY <1>4 DEF PolarityAndLeave, Unlock, Locked, TypeOK
  <2>2. Setting' = [period |-> period_ticks, duty |-> duty_ticks,
                    active_high |-> active_high', enabled |-> pwm_ctrl.enabled]
    BY <2>1 DEF Setting, Pending
  <2>3. pc[t] = "polarity"
    BY <1>4 DEF PolarityAndLeave, Goto
  <2>4. Setting' = Setting
    BY <1>2, <2>1, <2>2, <2>3 DEF InLock
  <2>5. Settings!Moves(t, "applied", "idle")
    BY <1>4, PhaseMove DEF PolarityAndLeave
  <2>. QED
    BY <1>4, <2>4, <2>5 DEF PolarityAndLeave, Return, Settings!Return, Settings!Leave
<1>. QED
  BY <1>3, <1>4 DEF LockedStep

(***************************************************************************)
(* The refinement.                                                         *)
(***************************************************************************)
\* A thread that waits for the lock has passed the check.
Checked == \A t \in Threads : pc[t] = "lock" => cmd[t].mask # {}

LEMMA CheckedStep == Locked /\ Checked /\ [Next]_vars => Checked'
<1>. SUFFICES ASSUME Locked, Checked, [Next]_vars, NEW u \in Threads, pc'[u] = "lock"
              PROVE  cmd'[u].mask # {}
  BY DEF Checked
<1>1. CASE ChannelRequested \/ UNCHANGED vars
  BY <1>1 DEF ChannelRequested, vars, Checked
<1>2. ASSUME NEW t \in Threads \ {u}, UnlockedStep(t) \/ EnterAndRun(t) \/ LockedStep(t)
      PROVE  cmd'[u].mask # {}
  BY <1>2, OutsideStep, InsideStep, EnterStep DEF Checked, Locked
<1>3. CASE UnlockedStep(u)
  BY <1>3 DEF UnlockedStep, Call, ResolvePercent, CheckRejects, CheckPasses, Valid, Goto,
              Locked, TypeOK
<1>4. ~EnterAndRun(u) /\ ~LockedStep(u)
  BY DEF EnterAndRun, LockedStep, PeriodRefused, PeriodApplied, ConfigDuty,
         PolarityAndLeave, Goto, Locked, TypeOK
<1>. QED
  BY <1>1, <1>2, <1>3, <1>4 DEF Next

\* With any number of callers, every call of pwm_config that succeeds changes
\* period, duty, polarity and output in one indivisible moment, when it takes the
\* lock; a refused call changes nothing, and nothing else ever does.
THEOREM CallsAreIndivisible == Spec => ImplementsSettings
<1>1. Init => Locked /\ Checked
  BY TypeInit, ConfigAssumption DEF Init, Locked, MutualExclusion, InLock, Checked
<1>2. Locked /\ Checked /\ [Next]_vars => (Locked /\ Checked)'
  BY TypeStep, MutualExclusionStep, CheckedStep DEF Locked
<1>3. Locked /\ Checked /\ [Next]_vars => [Settings!Next]_AbstractVars
  <2>. SUFFICES ASSUME Locked, Checked, [Next]_vars
                PROVE  Settings!Next \/ UNCHANGED AbstractVars
    OBVIOUS
  <2>1. CASE ChannelRequested \/ UNCHANGED vars
    BY <2>1 DEF ChannelRequested, vars, channel, registers, AbstractVars, Setting, Pending,
                Phase
  <2>2. ASSUME NEW t \in Threads, EnterAndRun(t) PROVE Settings!Next
    <3>1. cmd[t].mask # {}
      BY <2>2 DEF EnterAndRun, Goto, Checked
    <3>. QED
      BY <2>2, <3>1, EnterImplements DEF Settings!Next
  <2>3. ASSUME NEW t \in Threads, LockedStep(t)
        PROVE  Settings!Next \/ UNCHANGED AbstractVars
    BY <2>3, LockedImplements DEF Settings!Next
  <2>. QED
    BY <2>1, <2>2, <2>3, UnlockedImplements DEF Next
<1>. QED
  BY <1>1, <1>2, <1>3, SettingInit, PTL
     DEF Spec, ImplementsSettings, Settings!Spec, AbstractVars
=============================================================================
