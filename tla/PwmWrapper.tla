----------------------------- MODULE PwmWrapper -----------------------------
(***************************************************************************)
(* The API for kernel modules (pwm_wrapper.c): a handle is a piece of      *)
(* memory with the channel and a magic number that pwm_close() wipes.      *)
(* Callers are assumed not to use a handle they closed, as summary.h asks. *)
(***************************************************************************)
EXTENDS PwmCore

CONSTANTS
  Handles,      (* callers of pwm_open, with one handle each                *)
  HandleMemory  (* what kzalloc does: {TRUE}, {FALSE} or either             *)

ASSUME WrapperAssumption == HandleMemory \subseteq BOOLEAN

VARIABLES
  hstage,  (* where each caller is                                          *)
  hchan    (* the channel of its handle                                     *)

wrapperVars == <<hstage, hchan>>

WrapperInit ==
  /\ hstage = [h \in Handles |-> "closed"]
  /\ hchan = [h \in Handles |-> NULL]

HandleMove(h, from, to) == hstage[h] = from /\ hstage' = [hstage EXCEPT ![h] = to]

(***************************************************************************)
(* pwm_open.                                                               *)
(***************************************************************************)
HandleRequest(h) ==
  \E c \in Minors :
    /\ HandleMove(h, "closed", "requested")
    /\ Request(c)
    /\ hchan' = [hchan EXCEPT ![h] = c]

HandleAlloc(h) ==
  /\ TRUE \in HandleMemory
  /\ HandleMove(h, "requested", "open")
  /\ UNCHANGED <<coreVars, hchan>>

\* PWM_NO_MEM: the channel is not given back, and the caller has no handle to
\* give it back with.
HandleNoMemory(h) ==
  /\ FALSE \in HandleMemory
  /\ HandleMove(h, "requested", "failed")
  /\ UNCHANGED <<coreVars, hchan>>

(***************************************************************************)
(* pwm_enable, pwm_disable, pwm_set_handler, pwm_close.                    *)
(***************************************************************************)
HandleEnable(h) ==
  /\ hstage[h] = "open"
  /\ StartOrStop(hchan[h])
  /\ UNCHANGED wrapperVars

\* pwm_set_handler() is exported beside the wrapper, to holders of a channel.
HandleSetHandler(h) ==
  /\ hstage[h] = "open"
  /\ SetHandler(hchan[h])
  /\ UNCHANGED wrapperVars

HandleClose(h) ==
  /\ HandleMove(h, "open", "closed")
  /\ Release(hchan[h])
  /\ hchan' = [hchan EXCEPT ![h] = NULL]

HandleStep(h) ==
  HandleRequest(h) \/ HandleAlloc(h) \/ HandleNoMemory(h) \/ HandleEnable(h)
    \/ HandleSetHandler(h) \/ HandleClose(h)
=============================================================================
