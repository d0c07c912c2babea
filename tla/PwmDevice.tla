----------------------------- MODULE PwmDevice ------------------------------
(***************************************************************************)
(* The device and one of its channels together: who uses the channel, its  *)
(* handler, the interrupt and the work queue, while the module is loaded   *)
(* and unloaded and the device bound and unbound.  Only the references to  *)
(* the module, device_list_mutex and the flag of a requested channel stand *)
(* between the users of a channel and its removal.  A step on memory that  *)
(* is gone, or on a pointer that is no pointer, is the last one.           *)
(***************************************************************************)
EXTENDS PwmHandler, PwmProbe

CONSTANT MaxDrift   \* bound: how far the count of references may fall below zero

ASSUME DeviceAssumption ==
  /\ NULL \notin {"user", "interrupt", "worker", "device"}
  /\ MaxDrift \in Nat \ {0}

VARIABLES
  waiting,  (* somebody is in the attribute request, and waits for the      *)
            (* mutex that pwm_unregister() has                              *)
  modref,   (* the references to the module that pwm_core.c has taken and   *)
            (* put; those of the kernel for open files come on top of it,   *)
            (* and only delay the unloading                                 *)
  crashed   (* who took a step that is the last one, or NULL                *)

deviceVars == <<handlerVars, probeVars, waiting, modref, crashed>>

DeviceInit ==
  HandlerInit /\ ProbeInit /\ waiting = FALSE /\ modref = 0 /\ crashed = NULL

\* What a step on a channel needs: p, p->pwm and the mapped registers.
Alive == {"channels", "pwm", "regs"} \subseteq res

Releasing == owner = NULL /\ setter # "idle"

\* A release keeps device_list_mutex to its end, pwm_unregister() while it waits for
\* the users of the attributes.
MutexFree == ~Releasing /\ dev # "drain"

\* The files of the channel, from __pwm_create_sysfs to the end of their drain.
HasSysfs == "listed" \in res /\ (dev \in {"bound", "unregister", "drain"} \/ busy_ignored)

(***************************************************************************)
(* Users.                                                                  *)
(***************************************************************************)
\* The first entry of the list that matches is the one a failed registration
\* left behind.
FindsFreed == half_listed /\ dev # "free_channels"

ClientTakes ==
  /\ MutexFree /\ "listed" \in res /\ ~FindsFreed /\ Alive
  /\ module # "exit"             \* try_module_get
  /\ Take("client")
  /\ modref' = modref + 1
  /\ UNCHANGED <<probeVars, waiting, crashed>>

\* The end of a release puts a reference, whoever had taken the channel.
ClientSteps ==
  /\ Alive /\ OwnerStep
  /\ owner = "client" \/ setter # "idle"
  /\ modref' = IF Releasing /\ setter' = "idle" THEN modref - 1 ELSE modref
  /\ UNCHANGED <<probeVars, waiting, crashed>>

\* The attribute run, of whoever's channel.
RunStore ==
  /\ HasSysfs /\ Alive
  /\ StartOrStop
  /\ UNCHANGED <<probeVars, waiting, modref, crashed>>

\* Reading request takes a channel that is free, without a reference; writing it
\* releases one that is not.  Who waits for the end of a release counts as coming
\* after it.
AttributeRequest ==
  /\ HasSysfs /\ MutexFree /\ Alive
  /\ (modref > -MaxDrift /\ Take("sysfs")) \/ Release
  /\ UNCHANGED <<probeVars, waiting, modref, crashed>>

\* Who waits for pwm_unregister(), and has entered before the attribute is closed,
\* does not leave it, which is what pwm_unregister() waits for.
AttributeWaits ==
  /\ dev = "drain" /\ waiting' = TRUE
  /\ UNCHANGED <<handlerVars, probeVars, modref, crashed>>

UserCrashes ==
  /\ crashed' = "user"
  /\ \/ ~Alive /\ (owner = "client" \/ setter # "idle" \/ HasSysfs)
     \/ FindsFreed /\ module # "unloaded"
  /\ UNCHANGED <<handlerVars, probeVars, waiting, modref>>

(***************************************************************************)
(* The interrupt and the work queue.                                       *)
(***************************************************************************)
HardwareSteps == CounterEnds /\ UNCHANGED <<probeVars, waiting, modref, crashed>>

InterruptFinds == "channels" \in res /\ (callback => "workqueue" \in globals)

InterruptSteps ==
  /\ "irq" \in res /\ InterruptFinds
  /\ Interrupt
  /\ UNCHANGED <<probeVars, waiting, modref, crashed>>

\* The interrupt is requested before the channels are made and freed after
\* them: the pointer is null or stale.
InterruptCrashes ==
  /\ "irq" \in res /\ trg_int /\ ~InterruptFinds
  /\ crashed' = "interrupt"
  /\ UNCHANGED <<handlerVars, probeVars, waiting, modref>>

WorkerSteps(w) ==
  /\ Alive /\ ~WorkerCrashes
  /\ WorkerStep(w)
  /\ UNCHANGED <<probeVars, waiting, modref, crashed>>

WorkCrashes ==
  /\ WorkerCrashes \/ (~Alive /\ ~WorkIsIdle)
  /\ crashed' = "worker"
  /\ UNCHANGED <<handlerVars, probeVars, waiting, modref>>

(***************************************************************************)
(* The module and the device.                                              *)
(***************************************************************************)
\* New channels are zeroed.  Bound: work that was queued for old ones has run.
ChannelsAllocated ==
  /\ AllocChannels
  /\ IF "channels" \in res'
     THEN /\ WorkIsIdle
          /\ handler' = NULL /\ handler_data' = NULL /\ callback' = FALSE
          /\ UNCHANGED <<owner, handler_work, running, trg_int, setter, setting, worker,
                         own>>
     ELSE UNCHANGED handlerVars
  /\ UNCHANGED <<waiting, modref, crashed>>

\* pwm_remove after the driver core has called it.
Removes ==
  /\ \/ MutexFree /\ Unregister(owner # NULL)
     \/ ~waiting /\ Drained
     \/ RemoveStep
  /\ UNCHANGED <<handlerVars, waiting, modref, crashed>>

\* What else changes nothing of the channels.  A module that is loaded is a new one.
DeviceSteps ==
  /\ \/ InitOrExit \/ ProbeStep \/ Bind \/ Unbind \/ FreeChannels
     \/ Exit(modref)
     \/ WorkIsIdle /\ {"class", "workqueue"} \subseteq globals /\ CoreExit
  /\ modref' = IF module = "unloaded" THEN 0 ELSE modref
  /\ UNCHANGED <<handlerVars, waiting, crashed>>

\* device_create returned an error, or there is no class or no work queue.
DeviceCrashes ==
  /\ crashed' = "device"
  /\ \/ RegisterCrashes
     \/ module = "core_exit" /\ ~({"class", "workqueue"} \subseteq globals)
  /\ UNCHANGED <<handlerVars, probeVars, waiting, modref>>

DeviceNext ==
  /\ crashed = NULL
  /\ \/ ClientTakes \/ ClientSteps \/ UserCrashes
     \/ RunStore \/ AttributeRequest \/ AttributeWaits
     \/ HardwareSteps \/ InterruptSteps \/ InterruptCrashes
     \/ (\E w \in Workers : WorkerSteps(w)) \/ WorkCrashes
     \/ ChannelsAllocated \/ DeviceSteps \/ Removes \/ DeviceCrashes

\* The interrupt controller delivers, the work queue runs, handlers return; who is
\* setting a handler or releasing the channel goes on, and so does pwm_remove(),
\* which gets the mutex in its turn.
DeviceFairness ==
  /\ WF_deviceVars(crashed = NULL /\ (InterruptSteps \/ InterruptCrashes))
  /\ WF_deviceVars(crashed = NULL /\ \E w \in Workers : WorkTake(w) /\ WorkerSteps(w))
  /\ \A w \in Workers : WF_deviceVars(crashed = NULL /\ WorkerSteps(w) /\ ~WorkTake(w))
  /\ WF_deviceVars(crashed = NULL /\ SetterStep /\ ClientSteps)
  /\ SF_deviceVars(crashed = NULL /\ Removes)

DeviceSpec == DeviceInit /\ [][DeviceNext]_deviceVars /\ DeviceFairness

-----------------------------------------------------------------------------
WorkerStages == {"idle", "test", "load", "load_handler", "load_data", "call", "stop"}

\* The places each part can be in; and when no handler is being set, the callback
\* is installed if there is a handler, and a handler has its own data (unless
\* pwm_set_handler was overtaken by the removal of the channel).
DeviceTypeOK ==
  /\ owner \in {NULL, "client", "sysfs"}
  /\ handler \in Settings \cup {NULL} /\ handler_data \in Settings \cup {NULL}
  /\ callback \in BOOLEAN /\ running \in BOOLEAN /\ trg_int \in BOOLEAN
  /\ handler_work \in {"idle", "pending", "corrupt"}
  /\ setter \in {"idle", "stop", "data", "handler", "init", "callback"}
  /\ (setter = "idle" /\ ~busy_ignored /\ ~half_listed) =>
       handler = handler_data /\ callback = (handler # NULL)
  /\ setting \in Settings \cup {NULL} /\ own \in Settings \cup {NULL, Mixed}
  /\ worker \in [Workers -> [stage : WorkerStages, fn : Settings \cup {NULL},
                             data : Settings \cup {NULL}]]
  /\ res \subseteq {"device", "regions", "pwm", "regs", "irq", "channels", "listed"}
  /\ globals \subseteq {"class", "workqueue", "chrdev", "driver"}
  /\ half_listed \in BOOLEAN /\ busy_ignored \in BOOLEAN
  /\ waiting \in BOOLEAN /\ modref \in -MaxDrift .. 1
  /\ crashed \in {NULL, "user", "interrupt", "worker", "device"}

\* Whoever requested a channel, and whatever goes on with the module and the
\* device, never touches a channel that is gone: except after pwm_remove has
\* ignored that channels are requested, or a failed registration has left its
\* device in the list.
UsersFindLiveChannels == crashed = "user" => busy_ignored \/ half_listed

\* The shared interrupt meets a channel that is gone, or one with a callback but
\* no work queue, only in the three gaps of its registration: requested but the
\* channels not made yet, not freed yet after they are, and in a module whose
\* work queue was never made.
InterruptFindsChannels ==
  crashed = "interrupt" =>
    dev \in {"channels", "free_irqn", "remove_irq"} \/ "workqueue" \notin globals

\* Until an owner replaces its handler, whatever the work queue does with the
\* channel is to call this handler with its own data, and perhaps to stop the
\* channel for it; the work queue itself stays sound.  So an owner that gets
\* the channel without left-over work gets no stop, call or data of another.
HandlerGetsOwnData ==
  (own # Mixed /\ ~busy_ignored /\ ~half_listed) =>
    /\ crashed # "worker"
    /\ \A w \in Workers : worker[w].stage \in {"call", "stop"} =>
         own # NULL /\ worker[w].fn = own /\ worker[w].data = own

\* Work is queued only while somebody has the channel or is releasing it: the
\* next owner of a channel does not inherit the handler of the last.
QueuedForAnOwner ==
  [][(handler_work # "pending" /\ handler_work' = "pending") =>
       owner = "client" \/ Releasing]_deviceVars

\* Every interrupt of a channel with a handler leads to a call of the handler that
\* has not begun when the interrupt comes, also if it comes while the handler is
\* still running for the last: unless the handler is replaced, or the channel is
\* released or gone.
AboutToCall(w) == worker[w].stage \in {"load", "load_handler", "load_data"}

InterruptReachesHandler ==
  \A s \in Settings :
    (trg_int /\ callback /\ own = s) ~>
      \/ \E w \in Workers : AboutToCall(w) /\ worker[w].fn = s
      \/ own = Mixed \/ crashed # NULL \/ busy_ignored \/ half_listed

\* pwm_remove() comes to an end whatever the users of the channel do, unless one of
\* them, in the attribute request, waits for the mutex that pwm_unregister() keeps
\* while it waits for the attributes to be left.
RemovalReturns ==
  (dev = "unregister") ~> (dev = "unbound" \/ crashed # NULL \/ (dev = "drain" /\ waiting))
=============================================================================
