-------------------------- MODULE PwmHandlerProofs --------------------------
(***************************************************************************)
(* Theorems about the handler of a channel while the device comes and      *)
(* goes: for every set of handlers and every number of workers.            *)
(*                                                                         *)
(*   Who can be called back               -> OwnersAreCalledBack           *)
(*   pwm_set_handler word by word         -> DeviceTypeCorrect             *)
(*   The first handler of an owner        -> OwnersGetTheirData            *)
(***************************************************************************)
EXTENDS PwmDeviceProofs

FieldsTyped ==
  /\ owner \in {NULL, "client", "sysfs"}
  /\ handler \in Settings \cup {NULL} /\ handler_data \in Settings \cup {NULL}
  /\ callback \in BOOLEAN /\ running \in BOOLEAN /\ trg_int \in BOOLEAN
  /\ handler_work \in {"idle", "pending", "corrupt"}
  /\ setter \in {"idle", "stop", "data", "handler", "init", "callback"}
  /\ setting \in Settings \cup {NULL} /\ own \in Settings \cup {NULL, Mixed}
  /\ worker \in [Workers -> [stage : WorkerStages, fn : Settings \cup {NULL},
                             data : Settings \cup {NULL}]]
  /\ waiting \in BOOLEAN
  /\ half_listed \in BOOLEAN /\ busy_ignored \in BOOLEAN
  /\ crashed \in {NULL, "user", "interrupt", "worker", "device"}

\* What can happen to the handler.
LEMMA HandlerCases ==
  ASSUME [DeviceNext]_deviceVars
  PROVE  \/ UNCHANGED handlerVars
         \/ Take("client") \/ Take("sysfs") \/ OwnerStep
         \/ CounterEnds \/ Interrupt
         \/ (\E w \in Workers : WorkerStep(w))
         \/ ChannelsAllocated
BY DEF DeviceNext, deviceVars, ClientTakes, ClientSteps, RunStore, AttributeRequest,
       AttributeWaits, UserCrashes, HardwareSteps, InterruptSteps, InterruptCrashes,
       WorkerSteps, WorkCrashes, DeviceSteps, Removes, DeviceCrashes, OwnerStep

\* Once an error that frees the device under its users was ignored, it stays so.
LEMMA HistoryCases ==
  ASSUME [DeviceNext]_deviceVars, half_listed \in BOOLEAN, busy_ignored \in BOOLEAN
  PROVE  /\ half_listed' \in BOOLEAN /\ busy_ignored' \in BOOLEAN
         /\ (~half_listed' => ~half_listed) /\ (~busy_ignored' => ~busy_ignored)
<1>1. CASE UNCHANGED probeVars
  BY <1>1 DEF probeVars
<1>2. CASE InitOrExit \/ Exit(modref) \/ CoreExit
  BY <1>2 DEF InitOrExit, Load, CoreInit, DrvInit, RegisterDriver, RegisterDriverFails,
              UnregisterDriver, DrvExit, InitStep, Exit, CoreExit, ExitStep
<1>3. CASE ProbeStep
  BY <1>3 DEF ProbeStep, EnableDevice, RequestRegions, AllocPwm, MapRegisters, RequestIrq,
              Register, RegisterFails, FreeIrqn, UnmapIomem, FreeMem, FreeMemRegion, Acquire,
              Fails, Undo, DeviceGoto
<1>4. CASE FreeChannels \/ AllocChannels \/ Bind \/ Unbind
  BY <1>4 DEF FreeChannels, AllocChannels, Bind, Unbind, Acquire, Fails, Undo, DeviceGoto
<1>5. CASE Unregister(owner # NULL) \/ Drained \/ RemoveStep
  BY <1>5 DEF Unregister, Drained, RemoveStep, RemoveIrq, RemoveRegs, RemovePwm, Fails, Undo,
              DeviceGoto
<1>. QED
  BY <1>1, <1>2, <1>3, <1>4, <1>5, ProbeCases

LEMMA CrashCases ==
  ASSUME [DeviceNext]_deviceVars, crashed \in {NULL, "user", "interrupt", "worker", "device"},
         waiting \in BOOLEAN
  PROVE  crashed' \in {NULL, "user", "interrupt", "worker", "device"} /\ waiting' \in BOOLEAN
BY DEF DeviceNext, deviceVars, ClientTakes, ClientSteps, RunStore, AttributeRequest,
       AttributeWaits, UserCrashes, HardwareSteps, InterruptSteps, InterruptCrashes,
       WorkerSteps, WorkCrashes, DeviceSteps, Removes, DeviceCrashes, ChannelsAllocated

LEMMA OwnerStepTyped ==
  ASSUME FieldsTyped, Take("client") \/ Take("sysfs") \/ OwnerStep
  PROVE  /\ owner' \in {NULL, "client", "sysfs"}
         /\ handler' \in Settings \cup {NULL} /\ handler_data' \in Settings \cup {NULL}
         /\ callback' \in BOOLEAN /\ running' \in BOOLEAN
         /\ handler_work' \in {"idle", "pending", "corrupt"}
         /\ setter' \in {"idle", "stop", "data", "handler", "init", "callback"}
         /\ setting' \in Settings \cup {NULL} /\ own' \in Settings \cup {NULL, Mixed}
         /\ trg_int' = trg_int /\ worker' = worker
<1>. USE DEF FieldsTyped
<1>1. CASE Take("client") \/ Take("sysfs")
  BY <1>1 DEF Take
<1>2. CASE StartOrStop \/ Release \/ ReleaseStop
  BY <1>2 DEF StartOrStop, Release, ReleaseStop, SetterGoto
<1>3. ASSUME NEW s \in Settings \cup {NULL}, SetHandler(s)
      PROVE  /\ owner' = owner /\ handler' = handler /\ handler_data' = handler_data
             /\ callback' = callback /\ running' = running /\ handler_work' = handler_work
             /\ setter' = "data" /\ setting' = s /\ own' \in Settings \cup {NULL, Mixed}
             /\ trg_int' = trg_int /\ worker' = worker
  BY <1>3 DEF SetHandler
<1>4. CASE WriteData \/ WriteHandler \/ InitWork \/ SetCallback
  BY <1>4 DEF WriteData, WriteHandler, InitWork, SetCallback, SetterGoto
<1>. QED
  BY <1>1, <1>2, <1>3, <1>4 DEF OwnerStep, SetterStep

\* What a worker has after it has read the handler or the data once more.
LEMMA LoadCases ==
  ASSUME FieldsTyped, NEW w \in Workers, WorkLoad(w)
  PROVE  /\ UNCHANGED <<chanVars, handler_work, trg_int>>
         /\ AboutToCall(w)
         /\ worker' = [worker EXCEPT ![w] = worker'[w]]
         /\ worker'[w] \in [stage : {"load_handler", "load_data", "call"},
                           fn : Settings \cup {NULL}, data : Settings \cup {NULL}]
         /\ worker'[w].fn \in {worker[w].fn, handler}
         /\ \/ worker'[w].data = handler_data
            \/ worker[w].stage = "load_handler" /\ worker'[w].data = worker[w].data
            \/ worker'[w].stage = "load_data"
<1>. DEFINE Records == [stage : WorkerStages, fn : Settings \cup {NULL},
                        data : Settings \cup {NULL}]
<1>1. worker \in [Workers -> Records] /\ worker[w] \in Records
  BY DEF FieldsTyped
<1>2. /\ handler \in Settings \cup {NULL} /\ handler_data \in Settings \cup {NULL}
      /\ worker[w].fn \in Settings \cup {NULL} /\ worker[w].data \in Settings \cup {NULL}
  BY <1>1 DEF FieldsTyped
<1>3. UNCHANGED <<chanVars, handler_work, trg_int>>
  BY DEF WorkLoad
<1>4. ASSUME NEW fn \in {worker[w].fn, handler}, NEW stage \in {"load_data", "call"},
             worker' = [worker EXCEPT ![w] = [worker[w] EXCEPT !.stage = stage, !.fn = fn]]
      PROVE  /\ worker' = [worker EXCEPT ![w] = worker'[w]]
             /\ worker'[w] \in [stage : {"load_handler", "load_data", "call"},
                               fn : Settings \cup {NULL}, data : Settings \cup {NULL}]
             /\ worker'[w].stage = stage /\ worker'[w].fn = fn
             /\ worker'[w].data = worker[w].data
  <2>1. worker'[w] = [worker[w] EXCEPT !.stage = stage, !.fn = fn]
    BY <1>1, <1>4
  <2>. QED
    BY <1>1, <1>2, <1>4, <2>1
<1>5. ASSUME NEW stage \in {"load_handler", "call"},
             worker' = [worker EXCEPT ![w] =
                          [worker[w] EXCEPT !.stage = stage, !.data = handler_data]]
      PROVE  /\ worker' = [worker EXCEPT ![w] = worker'[w]]
             /\ worker'[w] \in [stage : {"load_handler", "load_data", "call"},
                               fn : Settings \cup {NULL}, data : Settings \cup {NULL}]
             /\ worker'[w].fn = worker[w].fn /\ worker'[w].data = handler_data
  <2>1. worker'[w] = [worker[w] EXCEPT !.stage = stage, !.data = handler_data]
    BY <1>1, <1>5
  <2>. QED
    BY <1>1, <1>2, <1>5, <2>1
<1>6. CASE LoadHandler(w, "load", "load_data")
  BY <1>3, <1>4, <1>6 DEF LoadHandler, WorkerAt, AboutToCall
<1>7. CASE LoadHandler(w, "load_handler", "call")
  BY <1>3, <1>4, <1>7 DEF LoadHandler, WorkerAt, AboutToCall
<1>8. CASE LoadData(w, "load", "load_handler")
  BY <1>3, <1>5, <1>8 DEF LoadData, WorkerAt, AboutToCall
<1>9. CASE LoadData(w, "load_data", "call")
  BY <1>3, <1>5, <1>9 DEF LoadData, WorkerAt, AboutToCall
<1>. QED
  BY <1>6, <1>7, <1>8, <1>9 DEF WorkLoad

LEMMA WorkerStepTyped ==
  ASSUME FieldsTyped, NEW w \in Workers, WorkerStep(w)
  PROVE  /\ worker' \in [Workers -> [stage : WorkerStages, fn : Settings \cup {NULL},
                                     data : Settings \cup {NULL}]]
         /\ UNCHANGED <<owner, handler, handler_data, callback, setter, setting, own, trg_int>>
         /\ handler_work' \in {handler_work, "idle"}
         /\ running' \in BOOLEAN
<1>. USE DEF FieldsTyped, WorkerAt, Done, chanVars, WorkerStages
<1>1. CASE WorkTake(w)
  BY <1>1 DEF WorkTake
<1>2. CASE WorkTest(w)
  BY <1>2 DEF WorkTest
<1>3. CASE WorkLoad(w)
  <2>1. worker[w].fn \in Settings \cup {NULL} /\ worker[w].data \in Settings \cup {NULL}
    OBVIOUS
  <2>. QED
    BY <1>3, <2>1, LoadCases
<1>4. CASE HandlerReturns(w)
  BY <1>4 DEF HandlerReturns
<1>5. CASE WorkStop(w)
  BY <1>5 DEF WorkStop
<1>. QED
  BY <1>1, <1>2, <1>3, <1>4, <1>5 DEF WorkerStep

LEMMA FieldsStep == FieldsTyped /\ [DeviceNext]_deviceVars => FieldsTyped'
<1>. SUFFICES ASSUME FieldsTyped, [DeviceNext]_deviceVars PROVE FieldsTyped'
  OBVIOUS
<1>0. /\ half_listed' \in BOOLEAN /\ busy_ignored' \in BOOLEAN
      /\ crashed' \in {NULL, "user", "interrupt", "worker", "device"} /\ waiting' \in BOOLEAN
  BY HistoryCases, CrashCases DEF FieldsTyped
<1>1. CASE UNCHANGED handlerVars
  BY <1>0, <1>1 DEF FieldsTyped, handlerVars, chanVars
<1>2. CASE Take("client") \/ Take("sysfs") \/ OwnerStep
  BY <1>0, <1>2, OwnerStepTyped DEF FieldsTyped
<1>3. CASE CounterEnds \/ Interrupt
  BY <1>0, <1>3 DEF FieldsTyped, CounterEnds, Interrupt, Queue, chanVars
<1>4. ASSUME NEW w \in Workers, WorkerStep(w) PROVE FieldsTyped'
  BY <1>0, <1>4, WorkerStepTyped DEF FieldsTyped
<1>5. CASE ChannelsAllocated
  BY <1>0, <1>5 DEF FieldsTyped, ChannelsAllocated, handlerVars, chanVars
<1>. QED
  BY <1>1, <1>2, <1>3, <1>4, <1>5, HandlerCases

(***************************************************************************)
(* References.  One user at a time has the channel: the count is above its *)
(* lower bound while somebody has it, and not above zero while nobody has. *)
(***************************************************************************)
DriftInv ==
  /\ modref \in Int
  /\ InUse => 1 - MaxDrift <= modref /\ modref <= 1
  /\ ~InUse => -MaxDrift <= modref /\ modref <= 0

LEMMA DriftStep == DriftInv /\ [DeviceNext]_deviceVars => DriftInv'
<1>. SUFFICES ASSUME DriftInv, [DeviceNext]_deviceVars PROVE DriftInv'
  OBVIOUS
<1>. USE DeviceAssumption, HandlerAssumption DEF DriftInv, InUse
<1>1. CASE UNCHANGED <<owner, setter, modref>>
  BY <1>1
<1>2. CASE ClientTakes \/ AttributeRequest
  BY <1>2 DEF ClientTakes, AttributeRequest, Take, Release
<1>3. CASE ClientSteps
  <2>1. CASE StartOrStop \/ Release
    BY <1>3, <2>1 DEF ClientSteps, StartOrStop, Release, Releasing
  <2>2. ASSUME NEW s \in Settings \cup {NULL}, SetHandler(s) PROVE DriftInv'
    BY <1>3, <2>2 DEF ClientSteps, SetHandler, Releasing
  <2>3. CASE SetterStep
    BY <1>3, <2>3 DEF ClientSteps, SetterStep, ReleaseStop, WriteData, WriteHandler, InitWork,
                      SetCallback, SetterGoto, Releasing
  <2>. QED
    BY <1>3, <2>1, <2>2, <2>3 DEF ClientSteps, OwnerStep
<1>4. CASE DeviceSteps
  BY <1>4 DEF DeviceSteps, handlerVars, chanVars
<1>5. CASE \/ RunStore \/ AttributeWaits \/ UserCrashes \/ HardwareSteps \/ InterruptSteps
           \/ InterruptCrashes \/ WorkCrashes \/ ChannelsAllocated \/ Removes \/ DeviceCrashes
           \/ \E w \in Workers : WorkerSteps(w)
  <2>1. UNCHANGED <<owner, setter, modref>>
    BY <1>5, OwnerCases DEF RunStore, StartOrStop, AttributeWaits, UserCrashes, HardwareSteps,
         InterruptSteps, InterruptCrashes, WorkerSteps, WorkCrashes, ChannelsAllocated,
         Removes, DeviceCrashes, handlerVars, chanVars
  <2>. QED
    BY <2>1, <1>1
<1>. QED
  BY <1>1, <1>2, <1>3, <1>4, <1>5 DEF DeviceNext, deviceVars, handlerVars, chanVars

(***************************************************************************)
(* Callbacks.  The interrupt queues work only for a channel that somebody  *)
(* has by the kernel interface, or that is being released.                 *)
(***************************************************************************)
CallbackInv ==
  /\ setter = "idle" => setting = NULL
  /\ owner # "client" => setting = NULL
  /\ owner = "sysfs" => setter = "idle"
  /\ callback => owner = "client" \/ Releasing

LEMMA CallbackInvStep ==
  FieldsTyped /\ CallbackInv /\ [DeviceNext]_deviceVars => CallbackInv'
<1>. SUFFICES ASSUME FieldsTyped, CallbackInv, [DeviceNext]_deviceVars PROVE CallbackInv'
  OBVIOUS
<1>. USE HandlerAssumption DEF CallbackInv, Releasing, FieldsTyped
<1>1. CASE UNCHANGED handlerVars
  BY <1>1 DEF handlerVars, chanVars
<1>2. CASE Take("client") \/ Take("sysfs")
  BY <1>2 DEF Take
<1>3. CASE OwnerStep
  <2>1. CASE StartOrStop
    BY <2>1 DEF StartOrStop
  <2>2. CASE Release
    BY <2>2 DEF Release
  <2>3. CASE ReleaseStop
    BY <2>3 DEF ReleaseStop, SetterGoto
  <2>4. ASSUME NEW s \in Settings \cup {NULL}, SetHandler(s) PROVE CallbackInv'
    BY <2>4 DEF SetHandler
  <2>5. CASE WriteData \/ WriteHandler \/ InitWork
    BY <2>5 DEF WriteData, WriteHandler, InitWork, SetterGoto
  <2>6. CASE SetCallback
    BY <2>6 DEF SetCallback, SetterGoto
  <2>. QED
    BY <1>3, <2>1, <2>2, <2>3, <2>4, <2>5, <2>6 DEF OwnerStep, SetterStep
<1>4. CASE CounterEnds \/ Interrupt
  BY <1>4 DEF CounterEnds, Interrupt, chanVars
<1>5. ASSUME NEW w \in Workers, WorkerStep(w) PROVE CallbackInv'
  BY <1>5, WorkerStepTyped
<1>6. CASE ChannelsAllocated
  BY <1>6 DEF ChannelsAllocated, handlerVars, chanVars
<1>. QED
  BY <1>1, <1>2, <1>3, <1>4, <1>5, <1>6, HandlerCases

LEMMA CallbackInvariant == DeviceSpec => [](FieldsTyped /\ CallbackInv)
<1>1. ASSUME DeviceInit PROVE FieldsTyped /\ CallbackInv
  <2>. USE <1>1 DEF DeviceInit, HandlerInit, ProbeInit, ChannelZeroed
  <2>1. worker \in [Workers -> [stage : WorkerStages, fn : Settings \cup {NULL},
                                data : Settings \cup {NULL}]]
    BY DEF Done, WorkerStages
  <2>2. FieldsTyped
    BY <2>1 DEF FieldsTyped
  <2>3. CallbackInv
    BY HandlerAssumption DEF CallbackInv
  <2>. QED
    BY <2>2, <2>3
<1>. QED
  BY <1>1, FieldsStep, CallbackInvStep, PTL DEF DeviceSpec

\* The work of a channel is queued only for an owner that could set a handler, or
\* while the channel is being released.
THEOREM OwnersAreCalledBack == DeviceSpec => QueuedForAnOwner
<1>. DEFINE Queued == handler_work # "pending" /\ handler_work' = "pending"
<1>1. ASSUME FieldsTyped, CallbackInv, [DeviceNext]_deviceVars, Queued
      PROVE  owner = "client" \/ Releasing
  <2>1. CASE UNCHANGED handlerVars
    BY <1>1, <2>1 DEF handlerVars
  <2>2. CASE Take("client") \/ Take("sysfs")
    BY <1>1, <2>2 DEF Take
  <2>3. CASE OwnerStep
    <3>1. CASE StartOrStop \/ Release \/ ReleaseStop
      BY <1>1, <3>1 DEF StartOrStop, Release, ReleaseStop
    <3>2. ASSUME NEW s \in Settings \cup {NULL}, SetHandler(s) PROVE FALSE
      BY <1>1, <3>2 DEF SetHandler
    <3>3. CASE WriteData \/ WriteHandler \/ InitWork \/ SetCallback
      BY <1>1, <3>3 DEF WriteData, WriteHandler, InitWork, SetCallback
    <3>. QED
      BY <2>3, <3>1, <3>2, <3>3 DEF OwnerStep, SetterStep
  <2>4. CASE CounterEnds \/ Interrupt
    BY <1>1, <2>4 DEF CounterEnds, Interrupt, CallbackInv
  <2>5. ASSUME NEW w \in Workers, WorkerStep(w) PROVE FALSE
    BY <1>1, <2>5, WorkerStepTyped
  <2>6. CASE ChannelsAllocated
    BY <1>1, <2>6 DEF ChannelsAllocated, handlerVars
  <2>. QED
    BY <1>1, <2>1, <2>2, <2>3, <2>4, <2>5, <2>6, HandlerCases
<1>2. FieldsTyped /\ CallbackInv /\ [DeviceNext]_deviceVars
        => [Queued => owner = "client" \/ Releasing]_deviceVars
  BY <1>1
<1>. QED
  BY <1>2, CallbackInvariant, PTL DEF DeviceSpec, QueuedForAnOwner

(***************************************************************************)
(* Setting a handler, word by word, and the first handler of an owner.     *)
(* Both hold as long as the channel stays while it is used (UseInv).       *)
(***************************************************************************)
Intact == ~busy_ignored /\ ~half_listed

SettingInv ==
  /\ setter = "idle" => handler = handler_data /\ callback = (handler # NULL)
  /\ setter = "handler" => handler_data = setting
  /\ setter \in {"init", "callback"} => handler = setting /\ handler_data = setting

\* What a worker read of the channel is the handler of the owner and its data.
ReadsOwn(w) ==
  /\ AboutToCall(w) \/ worker[w].stage \in {"call", "stop"} =>
       own # NULL /\ worker[w].fn = own
  /\ worker[w].stage \in {"load_handler", "call", "stop"} => worker[w].data = own

\* The owner that has set one handler since it took an idle channel: until it is
\* installed no work is about, and then it is what every reader finds.
OwnInv ==
  /\ owner # "client" => own = NULL
  /\ owner = NULL => setter = "idle"
  /\ setter # "stop"
  /\ setter = "idle" => handler = own
  /\ setter # "idle" => setting = own /\ callback = FALSE /\ WorkIsIdle
  /\ own = NULL => WorkIsIdle
  /\ handler_work # "corrupt"
  /\ \A w \in Workers : ReadsOwn(w)

\* Both, with what a channel keeps while it is used.
HandlerInv == Intact => SettingInv /\ (own # Mixed => OwnInv)

\* A channel is made only while nobody has one.
LEMMA NewIsUnused ==
  ASSUME UseInv, Intact, ChannelsAllocated
  PROVE  owner = NULL /\ setter = "idle"
BY DEF ChannelsAllocated, AllocChannels, Acquire, Fails, DeviceGoto, UseInv, InUse, Intact,
       UsedStages, ListedStages, ChannelStages

LEMMA SettingStep ==
  ASSUME FieldsTyped, CallbackInv, UseInv, Intact, SettingInv, [DeviceNext]_deviceVars
  PROVE  SettingInv'
<1>. USE HandlerAssumption DEF SettingInv, FieldsTyped
<1>1. CASE UNCHANGED handlerVars
  BY <1>1 DEF handlerVars, chanVars
<1>2. CASE Take("client") \/ Take("sysfs")
  BY <1>2 DEF Take
<1>3. CASE OwnerStep
  <2>1. CASE StartOrStop \/ Release \/ ReleaseStop
    BY <2>1 DEF StartOrStop, Release, ReleaseStop, SetterGoto
  <2>2. ASSUME NEW s \in Settings \cup {NULL}, SetHandler(s) PROVE SettingInv'
    BY <2>2 DEF SetHandler
  <2>3. CASE WriteData \/ WriteHandler
    BY <2>3 DEF WriteData, WriteHandler, SetterGoto
  <2>4. CASE InitWork
    BY <2>4 DEF InitWork, SetterGoto
  <2>5. CASE SetCallback
    BY <2>5 DEF SetCallback, SetterGoto
  <2>. QED
    BY <1>3, <2>1, <2>2, <2>3, <2>4, <2>5 DEF OwnerStep, SetterStep
<1>4. CASE CounterEnds \/ Interrupt
  BY <1>4 DEF CounterEnds, Interrupt, chanVars
<1>5. ASSUME NEW w \in Workers, WorkerStep(w) PROVE SettingInv'
  BY <1>5, WorkerStepTyped
<1>6. CASE ChannelsAllocated
  <2>1. owner = NULL /\ setter = "idle"
    BY <1>6, NewIsUnused
  <2>2. CASE UNCHANGED handlerVars
    BY <2>2, <1>1
  <2>3. CASE ~UNCHANGED handlerVars
    BY <1>6, <2>1, <2>3 DEF ChannelsAllocated
  <2>. QED
    BY <2>2, <2>3
<1>. QED
  BY <1>1, <1>2, <1>3, <1>4, <1>5, <1>6, HandlerCases

LEMMA OwnInvOwner ==
  ASSUME FieldsTyped, CallbackInv, SettingInv, own # Mixed => OwnInv, own' # Mixed,
         Take("client") \/ Take("sysfs") \/ OwnerStep
  PROVE  OwnInv'
<1>. USE HandlerAssumption DEF FieldsTyped
<1>1. CASE Take("client") \/ Take("sysfs")
  <2>1. /\ WorkIsIdle /\ own' = NULL /\ owner = NULL /\ setter = "idle"
        /\ UNCHANGED <<handler, setter, handler_work, worker>>
    BY <1>1 DEF Take
  <2>2. handler = NULL
    BY <2>1 DEF CallbackInv, Releasing, SettingInv
  <2>3. WorkIsIdle' /\ \A w \in Workers : ReadsOwn(w)'
    BY <2>1 DEF WorkIsIdle, ReadsOwn, AboutToCall, Done
  <2>4. owner' # NULL
    BY <1>1 DEF Take
  <2>. QED
    BY <2>1, <2>2, <2>3, <2>4 DEF OwnInv, WorkIsIdle
<1>2. CASE StartOrStop
  BY <1>2 DEF StartOrStop, OwnInv, WorkIsIdle, ReadsOwn, AboutToCall
<1>3. CASE Release
  BY <1>3 DEF Release
<1>4. CASE ReleaseStop
  BY <1>4 DEF ReleaseStop, SetterGoto, OwnInv
<1>5. ASSUME NEW s \in Settings \cup {NULL}, SetHandler(s) PROVE OwnInv'
  <2>1. /\ owner = "client" /\ setter = "idle" /\ own = NULL
        /\ setter' = "data" /\ setting' = s /\ own' = s
        /\ UNCHANGED <<owner, callback, handler, handler_work, worker>>
    BY <1>5 DEF SetHandler
  <2>2. OwnInv /\ WorkIsIdle
    BY <2>1 DEF OwnInv
  <2>3. callback' = FALSE
    BY <2>1, <2>2 DEF OwnInv, SettingInv
  <2>4. WorkIsIdle' /\ \A w \in Workers : ReadsOwn(w)'
    BY <2>1, <2>2 DEF WorkIsIdle, ReadsOwn, AboutToCall, Done
  <2>. QED
    BY <2>1, <2>2, <2>3, <2>4 DEF OwnInv
<1>6. CASE WriteData \/ WriteHandler \/ InitWork
  <2>1. /\ setter # "idle" /\ setter' \notin {"idle", "stop"}
        /\ UNCHANGED <<owner, own, setting, callback, worker>>
    BY <1>6 DEF WriteData, WriteHandler, InitWork, SetterGoto
  <2>2. OwnInv
    BY <2>1
  <2>3. handler_work' = "idle" /\ WorkIsIdle
    BY <1>6, <2>1, <2>2 DEF OwnInv, WorkIsIdle, WriteData, WriteHandler, InitWork
  <2>. QED
    BY <2>1, <2>2, <2>3 DEF OwnInv, WorkIsIdle, ReadsOwn, AboutToCall
<1>7. CASE SetCallback
  <2>1. /\ setter = "callback" /\ setter' = "idle"
        /\ UNCHANGED <<owner, own, handler, handler_work, worker>>
    BY <1>7 DEF SetCallback, SetterGoto
  <2>2. OwnInv /\ WorkIsIdle /\ handler = own
    BY <2>1 DEF OwnInv, SettingInv
  <2>. QED
    BY <2>1, <2>2 DEF OwnInv, WorkIsIdle, ReadsOwn, AboutToCall
<1>. QED
  BY <1>1, <1>2, <1>3, <1>4, <1>5, <1>6, <1>7 DEF OwnerStep, SetterStep

LEMMA OwnInvWorker ==
  ASSUME FieldsTyped, SettingInv, OwnInv, NEW w \in Workers, WorkerStep(w)
  PROVE  OwnInv'
<1>1. UNCHANGED <<owner, handler, callback, setter, setting, own>>
  BY WorkerStepTyped
<1>2. /\ own # NULL /\ ~WorkIsIdle /\ setter = "idle"
      /\ handler = own /\ handler_data = own
  BY DEF WorkerStep, WorkTake, WorkTest, WorkLoad, LoadHandler, LoadData, HandlerReturns,
         WorkStop, WorkerAt, OwnInv, SettingInv, WorkIsIdle, Done
<1>3. handler_work' # "corrupt"
  BY WorkerStepTyped DEF OwnInv
<1>4. ASSUME NEW v \in Workers PROVE ReadsOwn(v)'
  <2>. USE <1>1, <1>2 DEF FieldsTyped, OwnInv, ReadsOwn, AboutToCall, WorkerAt, Done
  <2>1. CASE v # w
    BY <2>1 DEF WorkerStep, WorkTake, WorkTest, WorkLoad, LoadHandler, LoadData,
                HandlerReturns, WorkStop
  <2>2. CASE v = w
    <3>1. CASE WorkTake(w) \/ WorkStop(w)
      BY <2>2, <3>1 DEF WorkTake, WorkStop
    <3>2. CASE WorkTest(w)
      BY <2>2, <3>2 DEF WorkTest
    <3>3. CASE WorkLoad(w)
      BY <2>2, <3>3, LoadCases
    <3>4. CASE HandlerReturns(w)
      BY <2>2, <3>4 DEF HandlerReturns
    <3>. QED
      BY <3>1, <3>2, <3>3, <3>4 DEF WorkerStep
  <2>. QED
    BY <2>1, <2>2
<1>. QED
  BY <1>1, <1>2, <1>3, <1>4 DEF OwnInv

LEMMA OwnInvStep ==
  ASSUME FieldsTyped, CallbackInv, UseInv, Intact, SettingInv, own # Mixed => OwnInv,
         [DeviceNext]_deviceVars, own' # Mixed
  PROVE  OwnInv'
<1>1. CASE UNCHANGED handlerVars
  BY <1>1 DEF handlerVars, chanVars, OwnInv, WorkIsIdle, ReadsOwn, AboutToCall
<1>2. CASE Take("client") \/ Take("sysfs") \/ OwnerStep
  BY <1>2, OwnInvOwner
<1>3. CASE CounterEnds
  BY <1>3 DEF CounterEnds, chanVars, OwnInv, WorkIsIdle, ReadsOwn, AboutToCall
<1>4. CASE Interrupt
  <2>1. UNCHANGED chanVars /\ UNCHANGED worker /\ OwnInv
    BY <1>4 DEF Interrupt, chanVars
  <2>2. CASE callback
    <3>1. setter = "idle" /\ own # NULL /\ handler_work' # "corrupt"
      BY <1>4, <2>1, <2>2 DEF Interrupt, Queue, OwnInv, SettingInv
    <3>. QED
      BY <2>1, <3>1 DEF chanVars, OwnInv, ReadsOwn, AboutToCall
  <2>3. CASE ~callback
    BY <1>4, <2>1, <2>3 DEF Interrupt, chanVars, OwnInv, WorkIsIdle, ReadsOwn, AboutToCall
  <2>. QED
    BY <2>2, <2>3
<1>5. ASSUME NEW w \in Workers, WorkerStep(w) PROVE OwnInv'
  <2>1. own # Mixed
    BY <1>5, WorkerStepTyped
  <2>. QED
    BY <1>5, <2>1, OwnInvWorker
<1>6. CASE ChannelsAllocated
  <2>1. owner = NULL /\ setter = "idle"
    BY <1>6, NewIsUnused
  <2>2. CASE UNCHANGED handlerVars
    BY <2>2, <1>1
  <2>3. CASE ~UNCHANGED handlerVars
    <3>1. /\ WorkIsIdle /\ handler' = NULL
          /\ UNCHANGED <<owner, handler_work, setter, setting, worker, own>>
      BY <1>6, <2>3 DEF ChannelsAllocated
    <3>2. OwnInv /\ own = NULL
      BY <2>1, <3>1, HandlerAssumption DEF OwnInv
    <3>. QED
      BY <2>1, <3>1, <3>2 DEF OwnInv, WorkIsIdle, ReadsOwn, AboutToCall
  <2>. QED
    BY <2>2, <2>3
<1>. QED
  BY <1>1, <1>2, <1>3, <1>4, <1>5, <1>6, HandlerCases

\* The work queue takes the system down only when it is not the owner's.
SoundInv == Intact /\ own # Mixed => crashed # "worker"

LEMMA SoundStep ==
  ASSUME FieldsTyped, CallbackInv, ProbeInv, UseInv, HandlerInv, SoundInv,
         [DeviceNext]_deviceVars, Intact, Intact', own' # Mixed
  PROVE  crashed' # "worker"
<1>1. CASE WorkCrashes
  <2>1. own # Mixed /\ OwnInv
    BY <1>1 DEF WorkCrashes, handlerVars, chanVars, HandlerInv
  <2>2. ~WorkerCrashes
    BY <2>1 DEF OwnInv, ReadsOwn, WorkerCrashes
  <2>3. ~WorkIsIdle
    BY <1>1, <2>2 DEF WorkCrashes
  <2>4. owner = "client"
    BY <2>1, <2>3 DEF OwnInv
  <2>5. Alive
    BY <2>4, HandlerAssumption, ListedIsAlive DEF UseInv, InUse, UsedStages, Intact, ProbeInv
  <2>. QED
    BY <1>1, <2>2, <2>5 DEF WorkCrashes
<1>2. CASE ~WorkCrashes
  <2>1. UNCHANGED deviceVars => UNCHANGED crashed /\ UNCHANGED own
    BY DEF deviceVars, handlerVars, chanVars
  <2>2. UNCHANGED deviceVars \/ crashed' # "worker"
    BY <1>2, DeviceAssumption DEF DeviceNext, ClientTakes, ClientSteps, RunStore,
         AttributeRequest, AttributeWaits, UserCrashes, HardwareSteps, InterruptSteps,
         InterruptCrashes, WorkerSteps, DeviceSteps, Removes, DeviceCrashes, ChannelsAllocated
  <2>. QED
    BY <2>1, <2>2 DEF SoundInv
<1>. QED
  BY <1>1, <1>2

AllInv ==
  /\ FieldsTyped /\ DriftInv /\ CallbackInv /\ ModuleInv /\ ProbeInv /\ UseInv
  /\ HandlerInv /\ SoundInv

LEMMA AllInvariant == DeviceSpec => []AllInv
<1>1. ASSUME DeviceInit PROVE DriftInv /\ HandlerInv /\ SoundInv
  <2>. USE <1>1 DEF DeviceInit, HandlerInit, ChannelZeroed
  <2>1. SettingInv
    BY DEF SettingInv
  <2>2. WorkIsIdle /\ \A w \in Workers : ReadsOwn(w)
    BY DEF WorkIsIdle, ReadsOwn, AboutToCall, Done
  <2>3. OwnInv
    BY <2>2 DEF OwnInv
  <2>4. crashed # "worker"
    BY DeviceAssumption
  <2>5. DriftInv
    BY DeviceAssumption DEF DriftInv, InUse
  <2>. QED
    BY <2>1, <2>3, <2>4, <2>5 DEF HandlerInv, SoundInv
<1>2. ASSUME AllInv, FieldsTyped', UseInv', [DeviceNext]_deviceVars PROVE HandlerInv' /\ SoundInv'
  <2>. SUFFICES ASSUME Intact'
                PROVE  /\ SettingInv' /\ (own' # Mixed => OwnInv')
                       /\ (own' # Mixed => crashed' # "worker")
    BY DEF HandlerInv, SoundInv
  <2>1. Intact
    BY <1>2, HistoryCases DEF AllInv, FieldsTyped, Intact
  <2>. QED
    BY <1>2, <2>1, SettingStep, OwnInvStep, SoundStep DEF AllInv, HandlerInv
<1>. QED
  BY <1>1, <1>2, FieldsStep, DriftStep, CallbackInvariant, UseInvariant, PTL DEF DeviceSpec, AllInv

\* The fields have their types, and whenever nobody is setting a handler the
\* callback is installed if there is one, and the handler has its own data.
THEOREM DeviceTypeCorrect == DeviceSpec => []DeviceTypeOK
<1>1. AllInv => DeviceTypeOK
  BY DeviceAssumption DEF AllInv, FieldsTyped, DriftInv, HandlerInv, SettingInv, Intact, ModuleInv, ProbeInv, HeldByStage,
         Resources, DeviceTypeOK
<1>. QED
  BY <1>1, AllInvariant, PTL

\* Whatever the interrupt and any number of workers do, an owner that takes an idle
\* channel and sets one handler is called back with its own data, is stopped for no
\* other handler, and the work queue stays sound.
THEOREM OwnersGetTheirData == DeviceSpec => []HandlerGetsOwnData
<1>1. AllInv => HandlerGetsOwnData
  BY DEF AllInv, HandlerInv, SoundInv, Intact, OwnInv, ReadsOwn, HandlerGetsOwnData
<1>. QED
  BY <1>1, AllInvariant, PTL
=============================================================================
