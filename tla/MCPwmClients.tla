---------------------------- MODULE MCPwmClients ----------------------------
(***************************************************************************)
(* Instances of PwmClients for TLC: two channels, three files, the first   *)
(* opened by one process and the others by another.  Callers also ask for  *)
(* a channel the device does not have, c3.                                 *)
(***************************************************************************)
EXTENDS PwmClients

CONSTANTS c1, c2, c3, f1, f2, f3, p1, p2

TwoChannels == {c1, c2}
AskedFor    == {c1, c2, c3}
ThreeFiles  == {f1, f2, f3}
Openers     == [f \in ThreeFiles |-> IF f = f1 THEN p1 ELSE p2]
=============================================================================
