------------------------------- MODULE PwmDrv -------------------------------
(***************************************************************************)
(* The character device (pwm_drv.c): opening and closing a channel, and    *)
(* the search of the list of open channels that the SYNC and UNSYNC ioctls *)
(* start with.                                                             *)
(*                                                                         *)
(* The list is changed under host_list_lock, which also protects the       *)
(* second search of SYNC; its first search takes no lock.  An entry is     *)
(* memory: once freed it can be handed out again, to a later open.         *)
(***************************************************************************)
EXTENDS PwmCore, Sequences, SequencesExt

CONSTANTS
  Files,      (* open files, each opened by the process Opener[f]           *)
  Opener,
  Entries     (* the memory struct pwm_chrdev's are allocated from          *)

ASSUME DrvAssumption == NULL \notin Entries \cup Channels

VARIABLES
  chrdev_list,  (* the entries on the list, in order                        *)
  allocated,    (* the entries that are not free                            *)
  entry,        (* what the entries hold (or held, when they are free)      *)
  stage,        (* where each file is                                       *)
  chan,         (* filp->private_data: the file's channel                   *)
  pwm_chr       (* the local variable of that name, in open, close and SYNC *)

drvVars == <<chrdev_list, allocated, entry, stage, chan, pwm_chr>>

DrvInit ==
  /\ chrdev_list = <<>> /\ allocated = {}
  /\ entry = [e \in Entries |-> [channel |-> NULL, ppid |-> NULL]]
  /\ stage = [f \in Files |-> "closed"]
  /\ chan = [f \in Files |-> NULL]
  /\ pwm_chr = [f \in Files |-> NULL]

Move(f, from, to) == stage[f] = from /\ stage' = [stage EXCEPT ![f] = to]

Point(f, e) == pwm_chr' = [pwm_chr EXCEPT ![f] = e]

Listed == Range(chrdev_list)

(***************************************************************************)
(* pwm_drv_open.                                                           *)
(***************************************************************************)
OpenRequest(f) ==
  \E c \in Minors :
    /\ Move(f, "closed", "requested")
    /\ Request(c)
    /\ chan' = [chan EXCEPT ![f] = c]
    /\ UNCHANGED <<chrdev_list, allocated, entry, pwm_chr>>

OpenAlloc(f) ==
  /\ Move(f, "requested", "allocated")
  /\ \E e \in Entries \ allocated :
       /\ allocated' = allocated \cup {e}
       /\ entry' = [entry EXCEPT ![e] = [channel |-> chan[f], ppid |-> Opener[f]]]
       /\ Point(f, e)
  /\ UNCHANGED <<coreVars, chrdev_list, chan>>

\* Variant for the checks: the error path does not give the channel back.
OpenNoMemoryKept(f) ==
  /\ Move(f, "requested", "closed")
  /\ chan' = [chan EXCEPT ![f] = NULL]
  /\ UNCHANGED <<coreVars, chrdev_list, allocated, entry, pwm_chr>>

\* -ENOMEM: the channel is given back.
OpenNoMemory(f) ==
  /\ Move(f, "requested", "closed")
  /\ Release(chan[f])
  /\ chan' = [chan EXCEPT ![f] = NULL]
  /\ UNCHANGED <<chrdev_list, allocated, entry, pwm_chr>>

OpenAdd(f) ==
  /\ Move(f, "allocated", "open")
  /\ chrdev_list' = Append(chrdev_list, pwm_chr[f])
  /\ Point(f, NULL)
  /\ UNCHANGED <<coreVars, allocated, entry, chan>>

(***************************************************************************)
(* The ioctls that start and stop the channel.                             *)
(***************************************************************************)
Enable(f) ==
  /\ stage[f] = "open"
  /\ StartOrStop(chan[f])
  /\ UNCHANGED drvVars

(***************************************************************************)
(* PWM_IOC_SYNC and PWM_IOC_UNSYNC.                                        *)
(***************************************************************************)
\* The list is never empty here: it holds the file's own entry.
SyncStart(f) ==
  /\ chrdev_list # <<>>
  /\ Move(f, "open", "scan")
  /\ Point(f, Head(chrdev_list))
  /\ UNCHANGED <<coreVars, chrdev_list, allocated, entry, chan>>

\* Variant for the checks: any entry of the host is taken for the file's own.
MatchesHost(f) == stage[f] = "scan"

Matches(f) == entry[pwm_chr[f]].channel = chan[f]

ScanFound(f) ==
  /\ Move(f, "scan", "found")
  /\ Matches(f)
  /\ UNCHANGED <<coreVars, chrdev_list, allocated, entry, chan, pwm_chr>>

ScanNext(f) ==
  \E i \in 1 .. Len(chrdev_list) - 1 :
    /\ stage[f] = "scan" /\ ~Matches(f)
    /\ pwm_chr[f] = chrdev_list[i]
    /\ Point(f, chrdev_list[i + 1])
    /\ UNCHANGED <<coreVars, chrdev_list, allocated, entry, stage, chan>>

\* The end of the list: BUG_ON(!found).
ScanBug(f) ==
  /\ Move(f, "scan", "bug")
  /\ ~Matches(f)
  /\ chrdev_list # <<>> /\ pwm_chr[f] = Last(chrdev_list)
  /\ UNCHANGED <<coreVars, chrdev_list, allocated, entry, chan, pwm_chr>>

\* The entry was deleted under the search, and perhaps allocated anew but not
\* yet added: its next pointer leads nowhere (poison, NULL).
ScanOops(f) ==
  /\ Move(f, "scan", "oops")
  /\ ~Matches(f)
  /\ pwm_chr[f] \notin Listed
  /\ UNCHANGED <<coreVars, chrdev_list, allocated, entry, chan, pwm_chr>>

\* The second search, under the lock, and the comparison of the two openers.
\* Whatever it decides, pwm_synchronize() returns -EINVAL.
SyncReturn(f) ==
  /\ Move(f, "found", "open")
  /\ Point(f, NULL)
  /\ UNCHANGED <<coreVars, chrdev_list, allocated, entry, chan>>

(***************************************************************************)
(* pwm_drv_close.  The process that hit an oops closes its files, too.     *)
(***************************************************************************)
\* The first entry of the channel, 0 if there is none.
OwnPosition(f) == SelectInSeq(chrdev_list, LAMBDA e : entry[e].channel = chan[f])

\* Variants for the checks: the entry stays on the list; the loop goes on after
\* the first entry of the channel.
DeleteNothing(i) == UNCHANGED chrdev_list
DeleteChannel(i) ==
  chrdev_list' = SelectSeq(chrdev_list,
                           LAMBDA e : entry[e].channel # entry[chrdev_list[i]].channel)

Delete(i) == chrdev_list' = RemoveAt(chrdev_list, i)

CloseUnlink(f) ==
  LET i == OwnPosition(f)
  IN  /\ \E from \in {"open", "bug", "oops"} : Move(f, from, "unlinked")
      /\ IF i = 0
         THEN Point(f, NULL) /\ UNCHANGED chrdev_list
         ELSE Point(f, chrdev_list[i]) /\ Delete(i)
      /\ UNCHANGED <<coreVars, allocated, entry, chan>>

CloseRelease(f) ==
  /\ Move(f, "unlinked", "released")
  /\ Release(chan[f])
  /\ UNCHANGED <<chrdev_list, allocated, entry, chan, pwm_chr>>

CloseFree(f) ==
  /\ Move(f, "released", "closed")
  /\ allocated' = allocated \ {pwm_chr[f]}
  /\ Point(f, NULL)
  /\ chan' = [chan EXCEPT ![f] = NULL]
  /\ UNCHANGED <<coreVars, chrdev_list, entry>>

OpenStep(f)  == OpenRequest(f) \/ OpenAlloc(f) \/ OpenNoMemory(f) \/ OpenAdd(f)
SyncStep(f)  == SyncStart(f) \/ ScanFound(f) \/ ScanNext(f) \/ ScanBug(f)
                  \/ ScanOops(f) \/ SyncReturn(f)
CloseStep(f) == CloseUnlink(f) \/ CloseRelease(f) \/ CloseFree(f)

FileStep(f) == OpenStep(f) \/ Enable(f) \/ SyncStep(f) \/ CloseStep(f)
=============================================================================
