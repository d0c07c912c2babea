----------------------------- MODULE PwmChannel -----------------------------
(***************************************************************************)
(* Everything that works on the configuration of one channel: the calls of *)
(* pwm_config(), a reader, and suspend and resume.  The reader is a        *)
(* process, frozen like the others, and it reads memory only: what it reads *)
(* does not depend on the registers.                                       *)
(***************************************************************************)
EXTENDS PwmReader, PwmPower

channelVars == <<vars, readerVars, powerVars>>

ChannelInit == Init /\ ReaderInit /\ PowerInit

ChannelNext ==
  \/ Next /\ ReaderWaits /\ PowerWaits
  \/ PowerStep /\ (Freeze => rpc = "idle") /\ UNCHANGED readerVars
  \/ ReaderStep /\ power = "awake" /\ UNCHANGED powerVars

ChannelSpec == ChannelInit /\ [][ChannelNext]_channelVars

-----------------------------------------------------------------------------
\* Types of the channel, its reader and the copy of its registers.
ChannelTypeOK == TypeOK /\ ReaderTypeOK /\ PowerTypeOK
=============================================================================
