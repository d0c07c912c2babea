------------------------------ MODULE PwmCore -------------------------------
(***************************************************************************)
(* Ownership of the channels of one registered PWM device (pwm_core.c):    *)
(* pwm_request(), pwm_release() and the sysfs attributes "request" and     *)
(* "run".  Request and release hold device_list_mutex from end to end, so  *)
(* each is one step; starting and stopping takes only the spinlock of the  *)
(* channel and needs no ownership.                                         *)
(***************************************************************************)
EXTENDS Integers, FiniteSets

CONSTANTS
  Channels,   (* the channels of the device: 0 .. nchan - 1                 *)
  Minors,     (* the channel numbers callers ask for                        *)
  Sysfs,      (* the sysfs attributes that are used: "show" reads request,  *)
              (* "store" writes it, "run" writes run                        *)
  MaxDrift,   (* bound: references the module may lose to "show"            *)
  NULL

ASSUME CoreAssumption ==
  /\ IsFiniteSet(Channels) /\ Channels \subseteq Minors
  /\ Sysfs \subseteq {"show", "store", "run"}
  /\ MaxDrift \in Nat
  /\ NULL # "sysfs"

VARIABLES
  requested,   (* channels with FLAG_REQUESTED                              *)
  requester,   (* p->requester: "sysfs", or NULL for everybody else         *)
  running,     (* channels whose counter is enabled                         *)
  handled,     (* channels with a handler, called when the counter ends     *)
  modref       (* references to the module taken by try_module_get          *)

coreVars == <<requested, requester, running, handled, modref>>

CoreInit ==
  /\ requested = {} /\ running = {} /\ handled = {} /\ modref = 0
  /\ requester = [c \in Channels |-> NULL]

(***************************************************************************)
(* Operations the clients call.                                            *)
(***************************************************************************)
\* Variant for the checks: the flag is set without being tested.
RequestUntested(c) ==
  /\ requested' = requested \cup {c}
  /\ requester' = [requester EXCEPT ![c] = NULL]
  /\ modref' = modref + 1
  /\ UNCHANGED <<running, handled>>

\* Variant for the checks: the channel number is not compared with nchan.
RequestUnchecked(c) ==
  /\ c \notin requested
  /\ requested' = requested \cup {c}
  /\ modref' = modref + 1
  /\ UNCHANGED <<requester, running, handled>>

\* A request for a channel the device lacks (-ENODEV) changes nothing, one that
\* finds it taken (-EBUSY) drops the module again: only the successful request
\* is a step.
Request(c) ==
  /\ c \in Channels
  /\ c \notin requested
  /\ requested' = requested \cup {c}
  /\ requester' = [requester EXCEPT ![c] = NULL]
  /\ modref' = modref + 1
  /\ UNCHANGED <<running, handled>>

\* Variant for the checks: the channel is not stopped.
ReleaseRunning(c) ==
  /\ requested' = requested \ {c}
  /\ modref' = IF c \in requested THEN modref - 1 ELSE modref
  /\ UNCHANGED <<requester, running, handled>>

\* Variant for the checks: the reference to the module is kept.
ReleaseWithoutPut(c) ==
  /\ requested' = requested \ {c}
  /\ running' = running \ {c}
  /\ handled' = handled \ {c}
  /\ UNCHANGED <<requester, modref>>

\* The channel is stopped and its handler removed (pwm_unsynchronize() has
\* nothing to do).  The requester is left as it was.  Releasing a channel that
\* is not requested does nothing.
Release(c) ==
  IF c \in requested
  THEN /\ requested' = requested \ {c}
       /\ running' = running \ {c}
       /\ handled' = handled \ {c}
       /\ modref' = modref - 1
       /\ UNCHANGED requester
  ELSE UNCHANGED coreVars

StartOrStop(c) ==
  /\ \/ running' = running \cup {c}
     \/ running' = running \ {c}
  /\ UNCHANGED <<requested, requester, handled, modref>>

\* pwm_set_handler, with a handler or with NULL.
SetHandler(c) ==
  /\ \/ handled' = handled \cup {c}
     \/ handled' = handled \ {c}
  /\ UNCHANGED <<requested, requester, running, modref>>

(***************************************************************************)
(* The sysfs attributes of a channel.                                      *)
(***************************************************************************)
\* Reading "request" takes the channel, without a reference to the module.
RequestShow(c) ==
  /\ "show" \in Sysfs
  /\ c \notin requested
  /\ Cardinality(requested) - modref < MaxDrift
  /\ requested' = requested \cup {c}
  /\ requester' = [requester EXCEPT ![c] = "sysfs"]
  /\ UNCHANGED <<running, handled, modref>>

\* Writing "request" releases the channel, whoever holds it.
RequestStore(c) == "store" \in Sysfs /\ Release(c)

RunStore(c) == "run" \in Sysfs /\ StartOrStop(c)

SysfsStep(c) == RequestShow(c) \/ RequestStore(c) \/ RunStore(c)
=============================================================================
