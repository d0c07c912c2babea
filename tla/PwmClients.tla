----------------------------- MODULE PwmClients -----------------------------
(***************************************************************************)
(* Everybody who can hold a channel, together: the open files of the       *)
(* character device, the handles of kernel modules, and sysfs.             *)
(***************************************************************************)
EXTENDS PwmDrv, PwmWrapper

CONSTANT Nobody

Users == Files \cup Handles \cup {"sysfs"}

ASSUME ClientsAssumption ==
  /\ Nobody \notin Users
  /\ Files \cap Handles = {} /\ "sysfs" \notin Files \cup Handles

vars == <<coreVars, drvVars, wrapperVars>>

Init == CoreInit /\ DrvInit /\ WrapperInit

Next ==
  \/ \E f \in Files : FileStep(f) /\ UNCHANGED wrapperVars
  \/ \E h \in Handles : HandleStep(h) /\ UNCHANGED drvVars
  \/ \E c \in Channels : SysfsStep(c) /\ UNCHANGED <<drvVars, wrapperVars>>

Spec == Init /\ [][Next]_vars

-----------------------------------------------------------------------------
(***************************************************************************)
(* Type invariant.                                                         *)
(***************************************************************************)
FileStages == {"closed", "requested", "allocated", "open", "scan", "found", "bug", "oops",
               "unlinked", "released"}

\* Channels, entries, files and handles are in the states the code has.
TypeOK ==
  /\ requested \subseteq Channels /\ running \subseteq Channels
  /\ handled \subseteq Channels /\ modref \in Int
  /\ requester \in [Channels -> {NULL, "sysfs"}]
  /\ chrdev_list \in Seq(Entries) /\ allocated \subseteq Entries
  /\ entry \in [Entries -> [channel : Channels \cup {NULL},
                            ppid : {Opener[f] : f \in Files} \cup {NULL}]]
  /\ stage \in [Files -> FileStages]
  /\ chan \in [Files -> Channels \cup {NULL}]
  /\ pwm_chr \in [Files -> Entries \cup {NULL}]
  /\ hstage \in [Handles -> {"closed", "requested", "open", "failed"}]
  /\ hchan \in [Handles -> Channels \cup {NULL}]

(***************************************************************************)
(* Who has a channel: from a successful pwm_request to its pwm_release.    *)
(***************************************************************************)
FileHolds(f, c)   == chan[f] = c /\ stage[f] \notin {"closed", "released"}
HandleHolds(h, c) == hchan[h] = c /\ hstage[h] # "closed"
SysfsHolds(c)     == c \in requested /\ requester[c] = "sysfs"

Holders(c) ==
  {f \in Files : FileHolds(f, c)} \cup {h \in Handles : HandleHolds(h, c)}
    \cup {s \in {"sysfs"} : SysfsHolds(c)}

\* The flag of a channel says exactly whether somebody has it, and never two
\* do: no step of an open or a close loses the flag or leaves it behind, even
\* when the memory for the list entry is refused half way.  (Nobody writes
\* the sysfs attribute "request".)
OneHolder ==
  \A c \in Channels :
    Cardinality(Holders(c)) = IF c \in requested THEN 1 ELSE 0

\* The output of a channel is on, and its handler set, only while somebody has
\* the channel: the next user never finds it running or gets the handler of
\* the one before.  (Nobody writes the sysfs attribute "run".)
OnlyHeldChannelsRun == running \cup handled \subseteq requested

\* The entries on the list are those of the open files, one each, although a
\* close removes the first entry of its CHANNEL: so no close fails to find an
\* entry and frees a pointer into the list head.
IsListed(f) == stage[f] \in {"open", "scan", "found", "bug", "oops"}

EntryPerOpenFile ==
  \A c \in Channels :
    Cardinality({e \in Listed : entry[e].channel = c})
      = Cardinality({f \in Files : IsListed(f) /\ chan[f] = c})

\* No entry is on the list twice, or on the list after it was freed, and no two
\* files are about to add or to free the same one.
Private(f) == stage[f] \in {"allocated", "unlinked", "released"}

EntriesHaveOneOwner ==
  /\ IsInjective(chrdev_list)
  /\ Listed \subseteq allocated
  /\ \A f \in Files : Private(f) => pwm_chr[f] \in allocated \ Listed
  /\ \A f, g \in Files : (Private(f) /\ Private(g) /\ pwm_chr[f] = pwm_chr[g]) => f = g

\* Every entry that is allocated can still be freed: it is on the list for a file
\* to find, or in the hands of the file that adds or frees it.  No order of opens
\* and closes, and no release of a channel under its file, leaks one.
NoLeakedEntry ==
  allocated = Listed \cup {pwm_chr[f] : f \in {g \in Files : Private(g)}}

\* The entry SYNC compares with is the file's own, although it was looked up
\* without the lock and is used after other files came and went: the check of
\* the opener's process is made against the right process.
SyncUsesOwnEntry ==
  \A f \in Files : stage[f] = "found" =>
    /\ pwm_chr[f] \in Listed
    /\ entry[pwm_chr[f]] = [channel |-> chan[f], ppid |-> Opener[f]]

\* The module is never pinned by a reference that no requested channel stands
\* for, whoever releases the channel.
NoStrayModuleRef == modref <= Cardinality(requested)

(***************************************************************************)
(* Opening a channel is a lock.                                            *)
(***************************************************************************)
HolderIn(hs) == IF hs = {} THEN Nobody ELSE CHOOSE u \in Users : u \in hs

LockHolder == [c \in Channels |-> HolderIn(Holders(c))]

Lock == INSTANCE ChannelLock WITH holder <- LockHolder

\* Files, handles and sysfs together implement the lock.
ImplementsLock == Lock!Spec

(***************************************************************************)
(* What the documentation promises and the code does not keep.             *)
(***************************************************************************)
\* pwm_drv.c: BUG_ON(!found).  The search of SYNC finds the file's entry.
SyncSearchSucceeds == \A f \in Files : stage[f] # "bug"

\* summary.h: only one user could open the PWM channel.
OneOpener ==
  \A c \in Channels :
    Cardinality({f \in Files : FileHolds(f, c)} \cup {h \in Handles : HandleHolds(h, c)}) <= 1

\* pwm.h: PWM_DEVICE_BUSY, the channel is opened by other users.  Whenever a
\* request would find a channel busy, somebody who can close it has it.
BusyMeansOpened ==
  \A c \in requested :
    \/ SysfsHolds(c)
    \/ \E f \in Files : FileHolds(f, c)
    \/ \E h \in Handles : HandleHolds(h, c) /\ hstage[h] # "failed"
=============================================================================
