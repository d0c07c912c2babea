----------------------------- MODULE ChannelLock ----------------------------
(***************************************************************************)
(* What opening a channel promises: one user at a time has it, its output  *)
(* is switched on and off only while somebody has it, and it is off when   *)
(* it is given back ("only one user could open the PWM channel",           *)
(* summary.h).                                                             *)
(***************************************************************************)
CONSTANTS
  Channels, Users,
  Nobody       (* not one of the users                                      *)

VARIABLES
  holder,   (* who has each channel                                         *)
  running   (* the channels whose output is on                              *)

Init ==
  /\ holder = [c \in Channels |-> Nobody]
  /\ running = {}

Acquire(u, c) ==
  /\ holder[c] = Nobody
  /\ holder' = [holder EXCEPT ![c] = u]
  /\ UNCHANGED running

Switch(c) ==
  /\ holder[c] # Nobody
  /\ running' \in {running \cup {c}, running \ {c}}
  /\ UNCHANGED holder

GiveBack(c) ==
  /\ holder[c] # Nobody
  /\ holder' = [holder EXCEPT ![c] = Nobody]
  /\ running' = running \ {c}

Next == \E c \in Channels : (\E u \in Users : Acquire(u, c)) \/ Switch(c) \/ GiveBack(c)

Spec == Init /\ [][Next]_<<holder, running>>
=============================================================================
