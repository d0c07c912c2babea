------------------------------ MODULE PwmProbe ------------------------------
(***************************************************************************)
(* The life of the device: loading and unloading the module (pwm_init,     *)
(* pwm_exit), pwm_probe() with the chain of acquisitions it undoes when    *)
(* one fails, pwm_register() and pwm_unregister() of pwm_core.c, and       *)
(* pwm_remove().  Every acquisition may fail.                              *)
(***************************************************************************)
EXTENDS Integers

VARIABLES
  module,      (* where pwm_init and pwm_exit are                           *)
  globals,     (* what the module has registered with the kernel            *)
  dev,         (* where pwm_probe and pwm_remove are                        *)
  res,         (* what the device holds                                     *)
  half_listed, (* history: a registration failed after list_add_tail        *)
  busy_ignored (* history: pwm_remove went on after -EBUSY                  *)

probeVars == <<module, globals, dev, res, half_listed, busy_ignored>>

ProbeInit ==
  /\ module = "unloaded" /\ globals = {}
  /\ dev = "unbound" /\ res = {}
  /\ half_listed = FALSE /\ busy_ignored = FALSE

(***************************************************************************)
(* pwm_init: the errors of pwm_core_init and pwm_drv_init are ignored.     *)
(***************************************************************************)
InitStep(from, to, got) ==
  /\ module = from /\ module' = to
  /\ globals' = globals \cup got
  /\ UNCHANGED <<dev, res, half_listed, busy_ignored>>

\* Bound: a module that has left something behind is not loaded again.
Load == res = {} /\ ~half_listed /\ InitStep("unloaded", "core_init", {})

CoreInit ==
  \E got \in {{}, {"class"}, {"class", "workqueue"}} : InitStep("core_init", "drv_init", got)

DrvInit == \E got \in {{}, {"chrdev"}} : InitStep("drv_init", "register_driver", got)

\* The device is there: it is probed at once.
RegisterDriver ==
  /\ module = "register_driver" /\ module' = "live"
  /\ globals' = globals \cup {"driver"}
  /\ dev' = "enable"
  /\ UNCHANGED <<res, half_listed, busy_ignored>>

\* The module is not loaded, and nothing is undone.
RegisterDriverFails ==
  InitStep("register_driver", "failed", {})

(***************************************************************************)
(* pwm_probe.                                                              *)
(***************************************************************************)
DeviceGoto(from, to) ==
  /\ dev = from /\ dev' = to
  /\ UNCHANGED <<module, globals, busy_ignored>>

Acquire(from, to, r) ==
  DeviceGoto(from, to) /\ res' = res \cup {r} /\ UNCHANGED half_listed

\* goto the label that undoes what was acquired before.
Fails(from, label) == DeviceGoto(from, label) /\ UNCHANGED <<res, half_listed>>

Undo(from, to, rs) ==
  DeviceGoto(from, to) /\ res' = res \ rs /\ UNCHANGED half_listed

EnableDevice == Acquire("enable", "regions", "device") \/ Fails("enable", "unbound")

\* The result is ignored, and the regions are released in the end.
RequestRegions == Acquire("regions", "alloc", "regions")

AllocPwm == Acquire("alloc", "ioremap", "pwm") \/ Fails("alloc", "free_mem_region")

MapRegisters == Acquire("ioremap", "irq", "regs") \/ Fails("ioremap", "free_mem")

\* Variant for the checks: the registers stay mapped.
RequestIrqKeepsMap == Acquire("irq", "channels", "irq") \/ Fails("irq", "free_mem")

RequestIrq == Acquire("irq", "channels", "irq") \/ Fails("irq", "unmap_iomem")

(***************************************************************************)
(* pwm_register.                                                           *)
(***************************************************************************)
AllocChannels == Acquire("channels", "list", "channels") \/ Fails("channels", "free_irqn")

\* list_add_tail and __pwm_create_sysfs, under device_list_mutex.
Register == "class" \in globals /\ Acquire("list", "bound", "listed")

\* sysfs_create_group fails: the devices are unregistered, the list entry stays.
RegisterFails ==
  /\ "class" \in globals
  /\ DeviceGoto("list", "free_channels")
  /\ res' = res \cup {"listed"}
  /\ half_listed' = TRUE

\* device_create fails and returns an error, which is no NULL pointer.
RegisterCrashes == dev = "list"

FreeChannels == Undo("free_channels", "free_irqn", {"channels"})

FreeIrqn      == Undo("free_irqn", "unmap_iomem", {"irq"})
UnmapIomem    == Undo("unmap_iomem", "free_mem", {"regs"})
FreeMem       == Undo("free_mem", "free_mem_region", {"pwm"})
FreeMemRegion == Undo("free_mem_region", "unbound", {"regions", "device"})

ProbeStep ==
  \/ EnableDevice \/ RequestRegions \/ AllocPwm \/ MapRegisters \/ RequestIrq
  \/ Register \/ RegisterFails
  \/ FreeIrqn \/ UnmapIomem \/ FreeMem \/ FreeMemRegion

(***************************************************************************)
(* pwm_remove, when the driver is unbound or the module unloaded.          *)
(***************************************************************************)
\* Bound: a driver that was unbound in spite of -EBUSY is not bound again, nor one whose
\* registration failed half way, which left an entry in freed memory in the list.
Bind   == module = "live" /\ ~busy_ignored /\ ~half_listed /\ Fails("unbound", "enable")
Unbind == module \in {"live", "exit"} /\ Fails("bound", "unregister")

\* Variants for the checks: the channels are not asked whether they are in use; a
\* channel in use is waited for.
UnregisterUnasked(requested) == Fails("unregister", "drain")
UnregisterWaits(requested) == ~requested /\ Fails("unregister", "drain")

\* pwm_unregister: -EBUSY if a channel is requested, and pwm_remove goes on.
Unregister(requested) ==
  IF requested
  THEN /\ dev = "unregister" /\ dev' = "remove_irq"
       /\ busy_ignored' = TRUE
       /\ UNCHANGED <<module, globals, res, half_listed>>
  ELSE Fails("unregister", "drain")

\* Or the sysfs devices are unregistered, which waits for whoever is in one of
\* their attributes; the channels are freed, and the list entry is removed.
Drained == Undo("drain", "remove_irq", {"listed", "channels"})

\* Variant for the checks: the interrupt is freed last.
RemoveIrqLast == Undo("remove_irq", "remove_regs", {})

RemoveIrq == Undo("remove_irq", "remove_regs", {"irq"})

RemoveRegs == Undo("remove_regs", "remove_pwm", {"regs"})
RemovePwm  == Undo("remove_pwm", "unbound", {"regions", "device", "pwm"})

RemoveStep == RemoveIrq \/ RemoveRegs \/ RemovePwm

(***************************************************************************)
(* pwm_exit.                                                               *)
(***************************************************************************)
ExitStep(from, to, given) ==
  /\ module = from /\ module' = to
  /\ globals' = globals \ given
  /\ UNCHANGED <<dev, res, half_listed, busy_ignored>>

\* The kernel unloads a module whose count of references is zero.
Exit(references) ==
  /\ references = 0 /\ dev \in {"bound", "unbound"}
  /\ ExitStep("live", "exit", {})

UnregisterDriver == dev = "unbound" /\ ExitStep("exit", "drv_exit", {"driver"})

\* To unregister a device number that was not registered does nothing.
DrvExit == ExitStep("drv_exit", "core_exit", {"chrdev"})

\* Variant for the checks: the work queue is left behind.
CoreExitClassOnly == ExitStep("core_exit", "unloaded", {"class"})

\* Destroying the work queue waits for its work.
CoreExit == ExitStep("core_exit", "unloaded", {"class", "workqueue"})

InitOrExit ==
  \/ Load \/ CoreInit \/ DrvInit \/ RegisterDriver \/ RegisterDriverFails
  \/ UnregisterDriver \/ DrvExit

-----------------------------------------------------------------------------
\* A probe that fails gives back everything it took, in whatever step it fails:
\* only the entry in the list of devices is not.
FailedProbeHoldsNothing ==
  (dev = "unbound" /\ ~busy_ignored) =>
    res \subseteq {r \in {"listed"} : half_listed}

\* A module that was unloaded has nothing registered with the kernel, and no
\* device: also one that pwm_init() left without a device number.  (Without a class
\* or a work queue an exit does not get that far.)  Unless a channel was still
\* requested, or a probe had failed half way.
ExitReturnsEverything ==
  module = "unloaded" => globals = {} /\ (res = {} \/ busy_ignored \/ half_listed)
=============================================================================
