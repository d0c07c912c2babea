-------------------------- MODULE PwmDeviceProofs ---------------------------
(***************************************************************************)
(* Theorems about the device and a channel: for every set of handlers and  *)
(* every number of workers.                                                *)
(*                                                                         *)
(*   Resources by stage of probe and remove -> ProbeGivesBack              *)
(*   Registrations by stage of the module   -> ExitGivesBack               *)
(*   Users while the channels exist         -> UsersAreSafe                *)
(*   The interrupt outside their life       -> InterruptMissesOnlyInGaps   *)
(***************************************************************************)
EXTENDS PwmDevice, TLAPS

(***************************************************************************)
(* Resources.  Every resource is held in certain stages of pwm_probe and   *)
(* pwm_remove and in no others, as long as pwm_remove has not gone on      *)
(* after -EBUSY.                                                           *)
(***************************************************************************)
DeviceStages  == {"regions", "alloc", "ioremap", "irq", "channels", "list", "bound",
                  "unregister", "drain", "remove_irq", "remove_regs", "remove_pwm",
                  "free_channels", "free_irqn", "unmap_iomem", "free_mem",
                  "free_mem_region"}
RegionStages  == DeviceStages \ {"regions"}
PwmStages     == RegionStages \ {"alloc", "free_mem_region"}
RegsStages    == PwmStages \ {"ioremap", "free_mem", "remove_pwm"}
IrqStages     == RegsStages \ {"irq", "unmap_iomem", "remove_regs"}
ChannelStages == IrqStages \ {"channels", "free_irqn", "remove_irq"}
ListedStages  == ChannelStages \ {"list", "free_channels"}

Resources == {"device", "regions", "pwm", "regs", "irq", "channels", "listed"}

HeldByStage ==
  /\ res \subseteq Resources
  /\ "device"   \in res <=> dev \in DeviceStages
  /\ "regions"  \in res <=> dev \in RegionStages
  /\ "pwm"      \in res <=> dev \in PwmStages
  /\ "regs"     \in res <=> dev \in RegsStages
  /\ "irq"      \in res <=> dev \in IrqStages
  /\ "channels" \in res <=> dev \in ChannelStages

ListedByStage == "listed" \in res <=> dev \in ListedStages

ProbeInv ==
  /\ ~busy_ignored => HeldByStage
  /\ (~busy_ignored /\ ~half_listed) => ListedByStage

\* The stages of the module.  Only a loaded module has a device.
ModuleInv ==
  /\ module \notin {"live", "exit"} => dev = "unbound"
  /\ globals \subseteq {"class", "workqueue", "chrdev", "driver"}
  /\ "driver" \in globals => module \in {"live", "exit"}
  /\ "chrdev" \in globals => module \in {"register_driver", "live", "exit", "drv_exit", "failed"}
  /\ module = "unloaded" => globals = {}
  /\ res \subseteq Resources

\* What changes the state of the module or the device.
LEMMA ProbeCases ==
  ASSUME [DeviceNext]_deviceVars
  PROVE  \/ UNCHANGED probeVars
         \/ InitOrExit \/ Exit(modref) \/ CoreExit
         \/ ProbeStep \/ FreeChannels \/ AllocChannels
         \/ Bind \/ Unbind \/ Unregister(owner # NULL) \/ Drained \/ RemoveStep
BY DEF DeviceNext, deviceVars, ClientTakes, ClientSteps, RunStore, AttributeRequest,
       AttributeWaits, UserCrashes, HardwareSteps, InterruptSteps, InterruptCrashes,
       WorkerSteps, WorkCrashes, ChannelsAllocated, DeviceSteps, Removes, DeviceCrashes

LEMMA ModuleStep ==
  ModuleInv /\ [DeviceNext]_deviceVars => ModuleInv'
<1>. SUFFICES ASSUME ModuleInv, [DeviceNext]_deviceVars PROVE ModuleInv'
  OBVIOUS
<1>. USE DEF ModuleInv, Resources
<1>1. CASE UNCHANGED probeVars
  BY <1>1 DEF probeVars
<1>2. CASE InitOrExit
  BY <1>2 DEF InitOrExit, Load, CoreInit, DrvInit, RegisterDriver, RegisterDriverFails,
              UnregisterDriver, DrvExit, InitStep, ExitStep
<1>3. CASE Exit(modref) \/ CoreExit
  BY <1>3 DEF Exit, CoreExit, ExitStep
<1>4. CASE ProbeStep \/ FreeChannels \/ AllocChannels
  BY <1>4 DEF ProbeStep, FreeChannels, AllocChannels, EnableDevice, RequestRegions, AllocPwm,
              MapRegisters, RequestIrq, Register, RegisterFails, FreeIrqn, UnmapIomem,
              FreeMem, FreeMemRegion, Acquire, Fails, Undo, DeviceGoto
<1>5. CASE Bind \/ Unbind \/ Unregister(owner # NULL) \/ Drained \/ RemoveStep
  BY <1>5 DEF Bind, Unbind, Unregister, Drained, RemoveStep, RemoveIrq, RemoveRegs, RemovePwm,
              Fails, Undo, DeviceGoto
<1>. QED
  BY <1>1, <1>2, <1>3, <1>4, <1>5, ProbeCases

\* Each step of the probe acquires or undoes what its stage stands for.
LEMMA ProbeInvStep ==
  ModuleInv /\ ProbeInv /\ [DeviceNext]_deviceVars => ProbeInv'
<1>. SUFFICES ASSUME ModuleInv, ProbeInv, [DeviceNext]_deviceVars PROVE ProbeInv'
  OBVIOUS
<1>. USE DEF ProbeInv, HeldByStage, ListedByStage, DeviceStages, RegionStages, PwmStages,
             RegsStages, IrqStages, ChannelStages, ListedStages, Resources
<1>1. CASE UNCHANGED probeVars
  BY <1>1 DEF probeVars
<1>2. CASE InitOrExit
  BY <1>2 DEF InitOrExit, Load, CoreInit, DrvInit, RegisterDriver, RegisterDriverFails,
              UnregisterDriver, DrvExit, InitStep, ExitStep, ModuleInv
<1>3. CASE Exit(modref) \/ CoreExit
  BY <1>3 DEF Exit, CoreExit, ExitStep
<1>4. CASE EnableDevice \/ RequestRegions \/ AllocPwm
  BY <1>4 DEF EnableDevice, RequestRegions, AllocPwm, Acquire, Fails, DeviceGoto
<1>5. CASE MapRegisters \/ RequestIrq \/ AllocChannels
  BY <1>5 DEF MapRegisters, RequestIrq, AllocChannels, Acquire, Fails, DeviceGoto
<1>6. CASE Register \/ RegisterFails
  BY <1>6 DEF Register, RegisterFails, Acquire, DeviceGoto
<1>7. CASE FreeChannels \/ FreeIrqn \/ UnmapIomem
  BY <1>7 DEF FreeChannels, FreeIrqn, UnmapIomem, Undo, DeviceGoto
<1>8. CASE FreeMem \/ FreeMemRegion
  BY <1>8 DEF FreeMem, FreeMemRegion, Undo, DeviceGoto
<1>9. CASE Bind \/ Unbind \/ Unregister(owner # NULL)
  BY <1>9 DEF Bind, Unbind, Unregister, Undo, Fails, DeviceGoto
<1>10. CASE Drained \/ RemoveIrq \/ RemoveRegs \/ RemovePwm
  BY <1>10 DEF Drained, RemoveIrq, RemoveRegs, RemovePwm, Undo, DeviceGoto
<1>. QED
  BY <1>1, <1>2, <1>3, <1>4, <1>5, <1>6, <1>7, <1>8, <1>9, <1>10, ProbeCases
     DEF ProbeStep, RemoveStep

LEMMA ProbeInvariant == DeviceSpec => [](ModuleInv /\ ProbeInv)
<1>1. DeviceInit => ModuleInv /\ ProbeInv
  BY DEF DeviceInit, ProbeInit, ModuleInv, ProbeInv, HeldByStage, ListedByStage, DeviceStages,
         RegionStages, PwmStages, RegsStages, IrqStages, ChannelStages, ListedStages
<1>. QED
  BY <1>1, ModuleStep, ProbeInvStep, PTL DEF DeviceSpec

\* Wherever pwm_probe() fails, and after every pwm_remove() of a device that is
\* not in use, nothing that was acquired for the device is left, but for the
\* list entry of a failed registration.
THEOREM ProbeGivesBack == DeviceSpec => []FailedProbeHoldsNothing
<1>1. ProbeInv => FailedProbeHoldsNothing
  BY DEF ProbeInv, HeldByStage, ListedByStage, DeviceStages, RegionStages, PwmStages,
         RegsStages, IrqStages, ChannelStages, ListedStages, Resources,
         FailedProbeHoldsNothing
<1>. QED
  BY <1>1, ProbeInvariant, PTL

\* Once the module is unloaded, all that it has registered is unregistered, also if
\* pwm_init() ignored that it got no device number; and no device is left bound,
\* unless one was removed while it was in use or its registration failed half way.
THEOREM ExitGivesBack == DeviceSpec => []ExitReturnsEverything
<1>1. ModuleInv /\ ProbeInv => ExitReturnsEverything
  BY DEF ModuleInv, ProbeInv, HeldByStage, ListedByStage, DeviceStages, RegionStages,
         PwmStages, RegsStages, IrqStages, ChannelStages, ListedStages, Resources,
         ExitReturnsEverything
<1>. QED
  BY <1>1, ProbeInvariant, PTL

(***************************************************************************)
(* Users.  Whoever has the channel, or is releasing it, keeps the device   *)
(* bound; nothing else stands between a user and the end of the channel.   *)
(***************************************************************************)
InUse == owner # NULL \/ setter # "idle"

UsedStages == ListedStages \ {"drain"}

UseInv ==
  (~busy_ignored /\ ~half_listed) => (InUse => dev \in UsedStages) /\ crashed # "user"

\* What the owner, the interrupt and the workers do to who has the channel.
LEMMA OwnerCases ==
  /\ OwnerStep => (InUse' => InUse)
  /\ \A w \in Workers : WorkerStep(w) => UNCHANGED <<owner, setter>>
  /\ CounterEnds \/ Interrupt => UNCHANGED <<owner, setter>>
<1>1. ASSUME OwnerStep, InUse' PROVE InUse
  <2>1. CASE StartOrStop \/ Release
    BY <1>1, <2>1 DEF StartOrStop, Release, InUse
  <2>2. ASSUME NEW s \in Settings \cup {NULL}, SetHandler(s) PROVE InUse
    BY <2>2, HandlerAssumption DEF SetHandler, InUse
  <2>3. CASE SetterStep
    BY <2>3 DEF SetterStep, ReleaseStop, WriteData, WriteHandler, InitWork, SetCallback, SetterGoto, InUse
  <2>. QED
    BY <1>1, <2>1, <2>2, <2>3 DEF OwnerStep
<1>2. ASSUME NEW w \in Workers, WorkerStep(w) PROVE UNCHANGED <<owner, setter>>
  BY <1>2 DEF WorkerStep, WorkTake, WorkTest, WorkLoad, HandlerReturns, WorkStop, chanVars
<1>3. CounterEnds \/ Interrupt => UNCHANGED <<owner, setter>>
  BY DEF CounterEnds, Interrupt, chanVars
<1>. QED
  BY <1>1, <1>2, <1>3

LEMMA ListedIsAlive ==
  ASSUME HeldByStage, dev \in ListedStages
  PROVE  Alive
BY DEF HeldByStage, ListedStages, ChannelStages, IrqStages, RegsStages, PwmStages,
       RegionStages, DeviceStages, Alive

LEMMA UseInvStep ==
  ModuleInv /\ ProbeInv /\ UseInv /\ [DeviceNext]_deviceVars => UseInv'
<1>. SUFFICES ASSUME ModuleInv, ProbeInv, UseInv, [DeviceNext]_deviceVars,
                     ~busy_ignored', ~half_listed'
              PROVE  (InUse' => dev' \in UsedStages) /\ crashed' # "user"
  BY DEF UseInv
<1>1. CASE UNCHANGED deviceVars
  BY <1>1 DEF deviceVars, handlerVars, chanVars, probeVars, UseInv, InUse
<1>2. CASE ClientTakes \/ AttributeRequest
  <2>1. UNCHANGED probeVars /\ "listed" \in res /\ dev # "drain" /\ UNCHANGED crashed
    BY <1>2 DEF ClientTakes, AttributeRequest, HasSysfs, MutexFree
  <2>. QED
    BY <2>1 DEF probeVars, ProbeInv, ListedByStage, UseInv, UsedStages
<1>3. CASE ClientSteps \/ RunStore \/ AttributeWaits
  <2>1. (InUse' => InUse) /\ UNCHANGED probeVars /\ UNCHANGED crashed
    BY <1>3, OwnerCases DEF ClientSteps, RunStore, AttributeWaits, OwnerStep, handlerVars,
                            chanVars, InUse
  <2>. QED
    BY <2>1 DEF probeVars, UseInv
<1>4. CASE UserCrashes
  <2>1. UNCHANGED probeVars
    BY <1>4 DEF UserCrashes
  <2>2. dev \in ListedStages
    BY <1>4, <2>1, HandlerAssumption DEF UserCrashes, FindsFreed, HasSysfs, ProbeInv,
                                         ListedByStage, UseInv, InUse, UsedStages, probeVars
  <2>. QED
    BY <1>4, <2>1, <2>2, ListedIsAlive DEF UserCrashes, FindsFreed, ProbeInv, probeVars
<1>5. CASE HardwareSteps \/ InterruptSteps \/ \E w \in Workers : WorkerSteps(w)
  <2>1. UNCHANGED <<owner, setter, crashed>> /\ UNCHANGED probeVars
    BY <1>5, OwnerCases DEF HardwareSteps, InterruptSteps, WorkerSteps
  <2>. QED
    BY <2>1 DEF probeVars, UseInv, InUse
<1>6. CASE InterruptCrashes \/ WorkCrashes \/ DeviceCrashes
  BY <1>6 DEF InterruptCrashes, WorkCrashes, DeviceCrashes, handlerVars, chanVars, probeVars,
              UseInv, InUse
<1>7. CASE ChannelsAllocated
  <2>1. UNCHANGED <<owner, setter, crashed, busy_ignored, half_listed>> /\ dev = "channels"
    BY <1>7 DEF ChannelsAllocated, AllocChannels, Acquire, Fails, DeviceGoto, handlerVars,
                chanVars
  <2>. QED
    BY <2>1 DEF UseInv, InUse, UsedStages, ListedStages, ChannelStages
<1>8. CASE Removes
  <2>1. UNCHANGED <<owner, setter, crashed>>
    BY <1>8 DEF Removes, handlerVars, chanVars
  <2>2. CASE MutexFree /\ Unregister(owner # NULL)
    BY <2>1, <2>2 DEF Unregister, Fails, DeviceGoto, MutexFree, Releasing, UseInv, InUse
  <2>3. CASE Drained \/ RemoveStep
    BY <2>1, <2>3 DEF Drained, RemoveStep, RemoveIrq, RemoveRegs, RemovePwm, Undo, DeviceGoto,
                      UseInv, InUse, UsedStages, ListedStages, ChannelStages, IrqStages,
                      RegsStages, PwmStages
  <2>. QED
    BY <1>8, <2>2, <2>3 DEF Removes
<1>9. CASE DeviceSteps
  <2>1. UNCHANGED <<owner, setter, crashed>>
    BY <1>9 DEF DeviceSteps, handlerVars, chanVars
  <2>. USE <2>1 DEF UseInv, InUse, UsedStages, ListedStages, ChannelStages, IrqStages,
                    RegsStages, PwmStages, RegionStages, DeviceStages
  <2>2. CASE InitOrExit \/ Exit(modref) \/ CoreExit
    BY <2>2 DEF InitOrExit, Load, CoreInit, DrvInit, RegisterDriver, RegisterDriverFails,
                UnregisterDriver, DrvExit, InitStep, ExitStep, Exit, CoreExit, ModuleInv
  <2>3. CASE ProbeStep
    BY <2>3 DEF ProbeStep, EnableDevice, RequestRegions, AllocPwm, MapRegisters, RequestIrq,
                Register, RegisterFails, FreeIrqn, UnmapIomem, FreeMem, FreeMemRegion,
                Acquire, Fails, Undo, DeviceGoto
  <2>4. CASE Bind \/ Unbind \/ FreeChannels
    BY <2>4 DEF Bind, Unbind, FreeChannels, Fails, Undo, DeviceGoto
  <2>. QED
    BY <1>9, <2>2, <2>3, <2>4 DEF DeviceSteps
<1>. QED
  BY <1>1, <1>2, <1>3, <1>4, <1>5, <1>6, <1>7, <1>8, <1>9 DEF DeviceNext

LEMMA UseInvariant == DeviceSpec => [](ModuleInv /\ ProbeInv /\ UseInv)
<1>1. DeviceInit => UseInv
  BY DeviceAssumption DEF DeviceInit, HandlerInit, UseInv, InUse
<1>. QED
  BY <1>1, ProbeInvariant, UseInvStep, PTL DEF DeviceSpec

\* While the module is loaded and unloaded and the driver bound and unbound around
\* its users, none of them ever steps on a channel that is gone: unless pwm_remove()
\* has ignored that a channel is requested, or a registration failed half way.
THEOREM UsersAreSafe == DeviceSpec => []UsersFindLiveChannels
<1>1. UseInv => UsersFindLiveChannels
  BY DEF UseInv, UsersFindLiveChannels
<1>. QED
  BY <1>1, UseInvariant, PTL

(***************************************************************************)
(* The interrupt.  It is requested exactly while the device is in one of   *)
(* IrqStages, which has three stages more than ChannelStages; and once     *)
(* -EBUSY was ignored the channels stay for good.                          *)
(***************************************************************************)
BusyInv ==
  busy_ignored =>
    /\ module \in {"live", "exit", "drv_exit", "core_exit", "unloaded"}
    /\ dev \in {"remove_irq", "remove_regs", "remove_pwm", "unbound"}
    /\ "channels" \in res

LEMMA BusyInvStep ==
  ModuleInv /\ ProbeInv /\ BusyInv /\ [DeviceNext]_deviceVars => BusyInv'
<1>. SUFFICES ASSUME ModuleInv, ProbeInv, BusyInv, [DeviceNext]_deviceVars PROVE BusyInv'
  OBVIOUS
<1>. USE DEF BusyInv, InitStep, ExitStep, Acquire, Fails, Undo, DeviceGoto
<1>1. CASE UNCHANGED probeVars
  BY <1>1 DEF probeVars
<1>2. CASE InitOrExit \/ Exit(modref) \/ CoreExit
  BY <1>2 DEF InitOrExit, Load, CoreInit, DrvInit, RegisterDriver, RegisterDriverFails,
              UnregisterDriver, DrvExit, Exit, CoreExit
<1>3. CASE ProbeStep \/ FreeChannels \/ AllocChannels
  BY <1>3 DEF ProbeStep, FreeChannels, AllocChannels, EnableDevice, RequestRegions, AllocPwm,
              MapRegisters, RequestIrq, Register, RegisterFails, FreeIrqn, UnmapIomem,
              FreeMem, FreeMemRegion
<1>4. CASE Bind \/ Unbind \/ Drained \/ RemoveStep
  BY <1>4 DEF Bind, Unbind, Drained, RemoveStep, RemoveIrq, RemoveRegs, RemovePwm
<1>5. CASE Unregister(owner # NULL)
  <2>1. CASE busy_ignored
    BY <1>5, <2>1 DEF Unregister
  <2>2. CASE ~busy_ignored
    <3>1. dev = "unregister" /\ module \in {"live", "exit"}
      BY <1>5 DEF Unregister, ModuleInv
    <3>2. "channels" \in res
      BY <2>2, <3>1 DEF ProbeInv, HeldByStage, ChannelStages, IrqStages, RegsStages,
                        PwmStages, RegionStages, DeviceStages
    <3>. QED
      BY <1>5, <2>2, <3>1, <3>2 DEF Unregister
  <2>. QED
    BY <2>1, <2>2
<1>. QED
  BY <1>1, <1>2, <1>3, <1>4, <1>5, ProbeCases

LEMMA InterruptStep ==
  ModuleInv /\ ProbeInv /\ BusyInv /\ InterruptFindsChannels /\ [DeviceNext]_deviceVars
    => InterruptFindsChannels'
<1>. SUFFICES ASSUME ProbeInv, BusyInv, InterruptFindsChannels, [DeviceNext]_deviceVars
              PROVE  InterruptFindsChannels'
  OBVIOUS
<1>. USE DEF InterruptFindsChannels
<1>1. CASE UNCHANGED deviceVars
  BY <1>1 DEF deviceVars, probeVars
<1>2. CASE crashed = NULL /\ InterruptCrashes
  <2>1. "irq" \in res /\ ("channels" \notin res \/ "workqueue" \notin globals)
        /\ UNCHANGED probeVars
    BY <1>2 DEF InterruptCrashes, InterruptFinds
  <2>2. "channels" \notin res => dev \in IrqStages \ ChannelStages
    BY <2>1 DEF ProbeInv, HeldByStage, BusyInv
  <2>. QED
    BY <2>1, <2>2 DEF ChannelStages, probeVars
<1>3. CASE crashed = NULL /\ ~InterruptCrashes
  <2>1. crashed' # "interrupt"
    BY <1>3, DeviceAssumption
       DEF DeviceNext, deviceVars, ClientTakes, ClientSteps, RunStore, AttributeRequest,
           AttributeWaits, UserCrashes, HardwareSteps, InterruptSteps, WorkerSteps,
           WorkCrashes, DeviceSteps, Removes, DeviceCrashes, ChannelsAllocated
  <2>. QED
    BY <2>1
<1>. QED
  BY <1>1, <1>2, <1>3 DEF DeviceNext

\* The interrupt that is requested before the channels are made and freed after they
\* are misses them only in the gap before and the two gaps after, or when it has work
\* to queue and pwm_init() has ignored that there is no work queue: also after
\* pwm_remove() has ignored that the channel was requested.
THEOREM InterruptMissesOnlyInGaps == DeviceSpec => []InterruptFindsChannels
<1>1. DeviceInit => BusyInv /\ InterruptFindsChannels
  BY DeviceAssumption DEF DeviceInit, ProbeInit, BusyInv, InterruptFindsChannels
<1>. QED
  BY <1>1, ProbeInvariant, BusyInvStep, InterruptStep, PTL DEF DeviceSpec
=============================================================================
