----------------------------- MODULE PwmHandler -----------------------------
(***************************************************************************)
(* The end-of-count handler of one channel: pwm_set_handler() and the work *)
(* item of pwm_core.c, the interrupt handler of _pwm.c, and the release    *)
(* that is to remove the handler before the next user has the channel.     *)
(*                                                                         *)
(* The interrupt handler and __pwm_set_callback() exclude each other by    *)
(* pwm->lock.  Nothing else here takes a lock: a handler is set word by    *)
(* word while the work may be queued or running, and a release does not    *)
(* wait for the work.                                                      *)
(***************************************************************************)
EXTENDS Integers

CONSTANTS
  Settings,   (* the (handler, data) pairs users set                        *)
  Workers,    (* the threads of the work queue "pwmd"                       *)
  NULL, Mixed

ASSUME HandlerAssumption ==
  /\ NULL \notin Settings /\ Mixed \notin Settings /\ NULL # Mixed
  /\ NULL \notin {"client", "sysfs"}

VARIABLES
  owner,                         (* who has the channel: "client", "sysfs"  *)
  handler, handler_data,         (* struct pwm_channel, as the pairs' halves *)
  callback,                      (* p->callback is __pwm_callback           *)
  handler_work,                  (* "idle", "pending" or "corrupt"          *)
  running,                       (* the counter is enabled                  *)
  trg_int,                       (* the channel's bit of int_trg_reg        *)
  setter,                        (* where pwm_set_handler or pwm_release is *)
  setting,                       (* its arguments                           *)
  worker,                        (* where each worker is in pwm_handler     *)
  own                            (* history: NULL while the owner has set no *)
                                 (* handler, then the one it set; Mixed once *)
                                 (* it replaces it, and if the channel came  *)
                                 (* with work of its last owner              *)

chanVars    == <<owner, handler, handler_data, callback, running, setter, setting, own>>
handlerVars == <<chanVars, handler_work, trg_int, worker>>

Done == [stage |-> "idle", fn |-> NULL, data |-> NULL]

\* The fields of a channel that pwm_register() has just allocated.
ChannelZeroed ==
  /\ handler = NULL /\ handler_data = NULL /\ callback = FALSE

HandlerInit ==
  /\ ChannelZeroed
  /\ owner = NULL /\ handler_work = "idle" /\ running = FALSE /\ trg_int = FALSE
  /\ setter = "idle" /\ setting = NULL /\ own = NULL
  /\ worker = [w \in Workers |-> Done]

WorkIsIdle == handler_work = "idle" /\ \A w \in Workers : worker[w] = Done

(***************************************************************************)
(* The owner: request, start and stop, set a handler, release.             *)
(***************************************************************************)
Take(who) ==
  /\ owner = NULL /\ setter = "idle"    \* a release keeps device_list_mutex
  /\ owner' = who
  /\ own' = IF WorkIsIdle THEN NULL ELSE Mixed
  /\ UNCHANGED <<handler, handler_data, callback, handler_work, running, trg_int,
                 setter, setting, worker>>

\* The owner, or anybody by the sysfs attribute run.
StartOrStop ==
  /\ running' \in BOOLEAN
  /\ UNCHANGED <<owner, handler, handler_data, callback, handler_work, trg_int, setter,
                 setting, worker, own>>

\* Variant for the checks: the callback is installed first.
SetHandlerCallbackFirst(s) ==
  /\ owner = "client" /\ setter = "idle"
  /\ setter' = "data" /\ setting' = s
  /\ own' = IF own = NULL THEN s ELSE Mixed
  /\ callback' = (s # NULL)
  /\ UNCHANGED <<owner, handler, handler_data, handler_work, running, trg_int, worker>>

SetHandler(s) ==
  /\ owner = "client" /\ setter = "idle"
  /\ setter' = "data" /\ setting' = s
  /\ own' = IF own = NULL THEN s ELSE Mixed
  /\ UNCHANGED <<owner, handler, handler_data, callback, handler_work, running, trg_int,
                 worker>>

SetterGoto(from, to) == setter = from /\ setter' = to

WriteData ==
  /\ SetterGoto("data", "handler")
  /\ handler_data' = setting
  /\ UNCHANGED <<owner, handler, callback, handler_work, running, trg_int, setting, worker,
                 own>>

WriteHandler ==
  /\ SetterGoto("handler", "init")
  /\ handler' = setting
  /\ UNCHANGED <<owner, handler_data, callback, handler_work, running, trg_int, setting,
                 worker, own>>

\* INIT_WORK forgets that the item is queued while it is on the queue's list.
InitWork ==
  /\ SetterGoto("init", "callback")
  /\ handler_work' = IF handler_work = "idle" THEN "idle" ELSE "corrupt"
  /\ UNCHANGED <<owner, handler, handler_data, callback, running, trg_int, setting, worker,
                 own>>

\* Variant for the checks: the callback stays when the handler is removed.
SetCallbackAlways ==
  /\ SetterGoto("callback", "idle")
  /\ callback' = TRUE
  /\ setting' = NULL
  /\ UNCHANGED <<owner, handler, handler_data, handler_work, running, trg_int, worker, own>>

SetCallback ==
  /\ SetterGoto("callback", "idle")
  /\ callback' = (setting # NULL)
  /\ setting' = NULL
  /\ UNCHANGED <<owner, handler, handler_data, handler_work, running, trg_int, worker, own>>

\* pwm_release: the flag is cleared, the channel stopped, the handler removed.
Release ==
  /\ owner # NULL /\ setter = "idle"
  /\ owner' = NULL /\ own' = Mixed
  /\ setter' = "stop"
  /\ UNCHANGED <<handler, handler_data, callback, handler_work, running, trg_int, setting,
                 worker>>

\* Variant for the checks: the handler stays.
ReleaseStopOnly ==
  /\ SetterGoto("stop", "idle")
  /\ running' = FALSE
  /\ UNCHANGED <<owner, handler, handler_data, callback, handler_work, trg_int, setting,
                 worker, own>>

ReleaseStop ==
  /\ SetterGoto("stop", "data")
  /\ running' = FALSE
  /\ setting' = NULL
  /\ UNCHANGED <<owner, handler, handler_data, callback, handler_work, trg_int, worker, own>>

\* What follows once a handler is being set or the channel released.
SetterStep == ReleaseStop \/ WriteData \/ WriteHandler \/ InitWork \/ SetCallback

OwnerStep ==
  \/ StartOrStop \/ Release \/ SetterStep
  \/ \E s \in Settings \cup {NULL} : SetHandler(s)

(***************************************************************************)
(* The hardware and pwm_irq.                                               *)
(***************************************************************************)
CounterEnds ==
  /\ running /\ ~trg_int
  /\ trg_int' = TRUE
  /\ UNCHANGED <<chanVars, handler_work, worker>>

\* Variant for the checks: an item that is still running is not queued again.
QueueUnlessRunning ==
  handler_work' = IF handler_work = "idle" /\ \A w \in Workers : worker[w] = Done
                  THEN "pending" ELSE handler_work

\* queue_work does nothing if the item is queued already.
Queue == handler_work' = IF handler_work = "idle" THEN "pending" ELSE handler_work

\* The bit is acknowledged, the callback queues the work.  FLAG_STOP is never
\* set and nobody waits for the completion.
Interrupt ==
  /\ trg_int
  /\ trg_int' = FALSE
  /\ IF callback THEN Queue ELSE UNCHANGED handler_work
  /\ UNCHANGED <<chanVars, worker>>

(***************************************************************************)
(* pwm_handler, in the work queue.                                         *)
(***************************************************************************)
WorkerAt(w, from, to) == worker[w].stage = from /\ worker' = [worker EXCEPT ![w] = to]

WorkTake(w) ==
  /\ handler_work = "pending"
  /\ WorkerAt(w, "idle", [Done EXCEPT !.stage = "test"])
  /\ handler_work' = "idle"
  /\ UNCHANGED <<chanVars, trg_int>>

WorkTest(w) ==
  /\ WorkerAt(w, "test", IF handler = NULL THEN Done
                         ELSE [Done EXCEPT !.stage = "load", !.fn = handler])
  /\ UNCHANGED <<chanVars, handler_work, trg_int>>

\* The handler to call, which the compiler may keep from the test or read again, and
\* the data to call it with: in either order.
LoadHandler(w, from, to) ==
  \E fn \in {worker[w].fn, handler} :
    WorkerAt(w, from, [worker[w] EXCEPT !.stage = to, !.fn = fn])

LoadData(w, from, to) ==
  WorkerAt(w, from, [worker[w] EXCEPT !.stage = to, !.data = handler_data])

WorkLoad(w) ==
  /\ \/ LoadHandler(w, "load", "load_data") \/ LoadData(w, "load_data", "call")
     \/ LoadData(w, "load", "load_handler") \/ LoadHandler(w, "load_handler", "call")
  /\ UNCHANGED <<chanVars, handler_work, trg_int>>

\* The handler returns zero, or else the channel is stopped.
HandlerReturns(w) ==
  /\ worker[w].fn # NULL
  /\ \/ WorkerAt(w, "call", Done)
     \/ WorkerAt(w, "call", [worker[w] EXCEPT !.stage = "stop"])
  /\ UNCHANGED <<chanVars, handler_work, trg_int>>

WorkStop(w) ==
  /\ WorkerAt(w, "stop", Done)
  /\ running' = FALSE
  /\ UNCHANGED <<owner, handler, handler_data, callback, setter, setting, own, handler_work,
                 trg_int>>

WorkerStep(w) ==
  WorkTake(w) \/ WorkTest(w) \/ WorkLoad(w) \/ HandlerReturns(w) \/ WorkStop(w)

\* A corrupted list is walked, or the handler read again is gone: the worker
\* takes the system down.
WorkerCrashes ==
  \/ handler_work = "corrupt"
  \/ \E w \in Workers : worker[w].stage = "call" /\ worker[w].fn = NULL
=============================================================================
