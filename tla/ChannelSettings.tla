--------------------------- MODULE ChannelSettings --------------------------
(***************************************************************************)
(* What pwm_config() amounts to for its callers: a channel has a period, a *)
(* duty, a polarity and is on or off, and a call that succeeds changes all *)
(* it asks for in one indivisible moment between call and return.  A call  *)
(* that is refused changes nothing, and a period that the hardware cannot  *)
(* make is passed over.                                                    *)
(***************************************************************************)
CONSTANTS
  Threads,
  Requests,   (* records: mask, period, duty, percent and polarity          *)
  NoRequest,  (* of a thread that is not in a call                          *)
  Periods     (* the periods the hardware can make                          *)

VARIABLES
  setting,    (* of the channel                                             *)
  request,    (* what each thread asks for                                  *)
  phase       (* of its call                                                *)

Init ==
  /\ setting = [period |-> 0, duty |-> 0, active_high |-> FALSE, enabled |-> FALSE]
  /\ request = [t \in Threads |-> NoRequest]
  /\ phase = [t \in Threads |-> "idle"]

Moves(t, from, to) == phase[t] = from /\ phase' = [phase EXCEPT ![t] = to]

Begin(t) ==
  /\ Moves(t, "idle", "called")
  /\ request'[t] \in Requests
  /\ request' = [request EXCEPT ![t] = request'[t]]
  /\ UNCHANGED setting

\* A percentage becomes a duty: of which of the periods the channel has had
\* since the call is not said.
Resolve(t) ==
  /\ phase[t] = "called" /\ "PERCENT" \in request[t].mask
  /\ request'[t] \in Requests
  /\ request' = [request EXCEPT ![t] =
                   [request[t] EXCEPT !.mask = (request[t].mask \ {"PERCENT"}) \cup {"DUTY"},
                                      !.duty = request'[t].duty, !.percent = 0]]
  /\ UNCHANGED <<setting, phase>>

\* Leaving a call ends the request.
Leave(t, from) ==
  /\ Moves(t, from, "idle")
  /\ request' = [request EXCEPT ![t] = NoRequest]
  /\ UNCHANGED setting

Refuse(t) == Leave(t, "called")
Return(t) == Leave(t, "applied")

After(s, r) ==
  [period      |-> IF "PERIOD" \in r.mask /\ r.period \in Periods THEN r.period ELSE s.period,
   duty        |-> IF "DUTY" \in r.mask THEN r.duty ELSE s.duty,
   active_high |-> IF "POLARITY" \in r.mask THEN r.polarity ELSE s.active_high,
   enabled     |-> "STOP" \notin r.mask /\ ("START" \in r.mask \/ s.enabled)]

Apply(t) ==
  /\ request[t].mask # {}
  /\ Moves(t, "called", "applied")
  /\ setting' = After(setting, request[t])
  /\ UNCHANGED request

Next ==
  \E t \in Threads : Begin(t) \/ Resolve(t) \/ Refuse(t) \/ Apply(t) \/ Return(t)

Spec == Init /\ [][Next]_<<setting, request, phase>>
=============================================================================
