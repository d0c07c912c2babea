-------------------------- MODULE PwmClientsProofs --------------------------
(***************************************************************************)
(* Theorems about the users of the channels: for every number of channels, *)
(* open files and handles.                                                 *)
(*                                                                         *)
(*   References to the module  -> ModuleNotPinned                          *)
(*   Who has a channel         -> HeldByOne, RunsOnlyHeld, OpeningIsALock  *)
(*                                                                         *)
(* HeldByOne assumes that nobody writes the sysfs attribute "request", the *)
(* last two also that nobody writes "run".                                 *)
(***************************************************************************)
EXTENDS PwmClients, FiniteSetTheorems, TLAPS

(***************************************************************************)
(* Types, as far as the ownership of channels goes.                        *)
(***************************************************************************)
HolderTypes ==
  /\ requested \subseteq Channels /\ running \subseteq Channels /\ handled \subseteq Channels
  /\ modref \in Int
  /\ requester \in [Channels -> {NULL, "sysfs"}]
  /\ stage \in [Files -> FileStages]
  /\ chan \in [Files -> Channels \cup {NULL}]
  /\ hstage \in [Handles -> {"closed", "requested", "open", "failed"}]
  /\ hchan \in [Handles -> Channels \cup {NULL}]
  /\ \A f \in Files : stage[f] # "closed" => chan[f] \in Channels
  /\ \A h \in Handles : hstage[h] # "closed" => hchan[h] \in Channels

\* The steps of a file that do not change who has a channel.
FileQuiet(f) ==
  \/ OpenAlloc(f) \/ OpenAdd(f) \/ SyncStep(f) \/ CloseUnlink(f) \/ CloseFree(f)

LEMMA FileCases ==
  ASSUME NEW f \in Files, FileStep(f)
  PROVE  FileQuiet(f) \/ OpenRequest(f) \/ OpenNoMemory(f) \/ Enable(f) \/ CloseRelease(f)
BY DEF FileStep, FileQuiet, OpenStep, CloseStep

\* Where they take the file.
LEMMA QuietFile ==
  ASSUME HolderTypes, NEW f \in Files, FileQuiet(f)
  PROVE  /\ UNCHANGED coreVars
         /\ stage' \in [Files -> FileStages]
         /\ \A g \in Files \ {f} : stage'[g] = stage[g] /\ chan'[g] = chan[g]
         /\ \/ chan' = chan /\ stage[f] \notin {"closed", "released"}
                /\ stage'[f] \notin {"closed", "released"}
            \/ chan' = [chan EXCEPT ![f] = NULL] /\ stage[f] = "released"
                /\ stage'[f] = "closed"
<1>. USE DEF HolderTypes, FileStages, Move
<1>1. CASE OpenAlloc(f) \/ OpenAdd(f)
  BY <1>1 DEF OpenAlloc, OpenAdd
<1>2. CASE SyncStart(f) \/ ScanFound(f) \/ SyncReturn(f)
  BY <1>2 DEF SyncStart, ScanFound, SyncReturn
<1>3. CASE ScanNext(f)
  BY <1>3 DEF ScanNext
<1>4. CASE ScanBug(f) \/ ScanOops(f)
  BY <1>4 DEF ScanBug, ScanOops
<1>5. CASE CloseUnlink(f)
  BY <1>5 DEF CloseUnlink
<1>6. CASE CloseFree(f)
  BY <1>6 DEF CloseFree
<1>. QED
  BY <1>1, <1>2, <1>3, <1>4, <1>5, <1>6 DEF FileQuiet, SyncStep

LEMMA CoreTypes ==
  ASSUME HolderTypes, NEW c,
         Request(c) \/ (c \in Channels /\ (StartOrStop(c) \/ SetHandler(c) \/ Release(c)))
           \/ (c \in Channels /\ RequestShow(c))
  PROVE  /\ requested' \subseteq Channels /\ running' \subseteq Channels
         /\ handled' \subseteq Channels /\ modref' \in Int
         /\ requester' \in [Channels -> {NULL, "sysfs"}]
BY DEF HolderTypes, Request, StartOrStop, SetHandler, Release, RequestShow, coreVars

LEMMA HolderTypesStep == HolderTypes /\ [Next]_vars => HolderTypes'
<1>. SUFFICES ASSUME HolderTypes, [Next]_vars PROVE HolderTypes'
  OBVIOUS
<1>1. CASE UNCHANGED vars
  BY <1>1 DEF vars, coreVars, drvVars, wrapperVars, HolderTypes
<1>2. ASSUME NEW f \in Files, FileStep(f), UNCHANGED wrapperVars PROVE HolderTypes'
  <2>1. CASE FileQuiet(f)
    <3>1. /\ UNCHANGED coreVars /\ stage' \in [Files -> FileStages]
          /\ \A g \in Files \ {f} : stage'[g] = stage[g] /\ chan'[g] = chan[g]
          /\ \/ chan' = chan /\ stage[f] # "closed" /\ stage'[f] # "closed"
             \/ chan' = [chan EXCEPT ![f] = NULL] /\ stage'[f] = "closed"
      BY <2>1, QuietFile
    <3>. QED
      BY <1>2, <3>1 DEF HolderTypes, coreVars, wrapperVars
  <2>2. CASE OpenRequest(f)
    <3>1. PICK c \in Minors : Move(f, "closed", "requested") /\ Request(c)
                                /\ chan' = [chan EXCEPT ![f] = c]
      BY <2>2 DEF OpenRequest
    <3>. QED
      BY <1>2, <3>1, CoreTypes DEF HolderTypes, Move, FileStages, Request, wrapperVars
  <2>3. CASE OpenNoMemory(f) \/ CloseRelease(f)
    BY <1>2, <2>3, CoreTypes DEF OpenNoMemory, CloseRelease, HolderTypes, Move, FileStages,
                                 wrapperVars
  <2>4. CASE Enable(f)
    BY <1>2, <2>4, CoreTypes DEF Enable, HolderTypes, drvVars, wrapperVars
  <2>. QED
    BY <1>2, <2>1, <2>2, <2>3, <2>4, FileCases
<1>3. ASSUME NEW h \in Handles, HandleStep(h), UNCHANGED drvVars PROVE HolderTypes'
  <2>. USE <1>3 DEF HolderTypes, drvVars, HandleMove
  <2>1. CASE HandleRequest(h)
    <3>1. PICK c \in Minors : HandleMove(h, "closed", "requested") /\ Request(c)
                                /\ hchan' = [hchan EXCEPT ![h] = c]
      BY <2>1 DEF HandleRequest
    <3>. QED
      BY <3>1, CoreTypes DEF Request
  <2>2. CASE HandleAlloc(h) \/ HandleNoMemory(h)
    BY <2>2 DEF HandleAlloc, HandleNoMemory, coreVars
  <2>3. CASE HandleEnable(h) \/ HandleSetHandler(h)
    BY <2>3, CoreTypes DEF HandleEnable, HandleSetHandler, wrapperVars
  <2>4. CASE HandleClose(h)
    BY <2>4, CoreTypes DEF HandleClose
  <2>. QED
    BY <2>1, <2>2, <2>3, <2>4 DEF HandleStep
<1>4. ASSUME NEW c \in Channels, SysfsStep(c), UNCHANGED <<drvVars, wrapperVars>>
      PROVE  HolderTypes'
  BY <1>4, CoreTypes DEF SysfsStep, RequestStore, RunStore, drvVars, wrapperVars, HolderTypes
<1>. QED
  BY <1>1, <1>2, <1>3, <1>4 DEF Next

LEMMA HolderTypesInvariant == Spec => []HolderTypes
<1>1. Init => HolderTypes
  BY DEF Init, CoreInit, DrvInit, WrapperInit, HolderTypes, FileStages
<1>. QED
  BY <1>1, HolderTypesStep, PTL DEF Spec

(***************************************************************************)
(* References to the module.                                               *)
(***************************************************************************)
RefStep == modref <= Cardinality(requested) => modref' <= Cardinality(requested')

LEMMA RefCases ==
  ASSUME HolderTypes, NEW c,
         Request(c) \/ Release(c) \/ StartOrStop(c) \/ SetHandler(c) \/ RequestShow(c)
  PROVE  RefStep
<1>1. IsFiniteSet(requested) /\ Cardinality(requested) \in Nat
  BY CoreAssumption, FS_Subset, FS_CardinalityType DEF HolderTypes
<1>2. c \notin requested => Cardinality(requested \cup {c}) = Cardinality(requested) + 1
  BY <1>1, FS_AddElement
<1>3. c \in requested => Cardinality(requested \ {c}) = Cardinality(requested) - 1
  BY <1>1, FS_RemoveElement
<1>. USE DEF RefStep, HolderTypes
<1>4. CASE Request(c) \/ RequestShow(c)
  <2>1. c \notin requested /\ requested' = requested \cup {c} /\ modref' \in {modref, modref + 1}
    BY <1>4 DEF Request, RequestShow
  <2>2. Cardinality(requested') = Cardinality(requested) + 1
    BY <1>2, <2>1
  <2>. QED
    BY <1>1, <2>1, <2>2
<1>5. CASE Release(c)
  <2>1. CASE c \in requested
    <3>1. requested' = requested \ {c} /\ modref' = modref - 1
      BY <1>5, <2>1 DEF Release
    <3>2. Cardinality(requested') = Cardinality(requested) - 1
      BY <1>3, <2>1, <3>1
    <3>. QED
      BY <1>1, <3>1, <3>2
  <2>2. CASE c \notin requested
    BY <1>5, <2>2 DEF Release, coreVars
  <2>. QED
    BY <2>1, <2>2
<1>6. CASE StartOrStop(c) \/ SetHandler(c)
  BY <1>6 DEF StartOrStop, SetHandler
<1>. QED
  BY <1>4, <1>5, <1>6

\* Whoever takes and releases channels, sysfs included, the module has no more
\* references than channels are requested.
THEOREM ModuleNotPinned == Spec => []NoStrayModuleRef
<1>1. Init => NoStrayModuleRef
  BY FS_EmptySet DEF Init, CoreInit, NoStrayModuleRef
<1>2. HolderTypes /\ NoStrayModuleRef /\ [Next]_vars => NoStrayModuleRef'
  <2>. SUFFICES ASSUME HolderTypes, [Next]_vars PROVE RefStep
    BY DEF RefStep, NoStrayModuleRef
  <2>1. CASE UNCHANGED coreVars
    BY <2>1 DEF coreVars, RefStep
  <2>2. ASSUME NEW f \in Files, FileStep(f) PROVE RefStep
    BY <2>1, <2>2, FileCases, QuietFile, RefCases
       DEF OpenRequest, OpenNoMemory, Enable, CloseRelease
  <2>3. ASSUME NEW h \in Handles, HandleStep(h) PROVE RefStep
    BY <2>1, <2>3, RefCases
       DEF HandleStep, HandleRequest, HandleAlloc, HandleNoMemory, HandleEnable,
           HandleSetHandler, HandleClose
  <2>4. ASSUME NEW c \in Channels, SysfsStep(c) PROVE RefStep
    BY <2>4, RefCases DEF SysfsStep, RequestStore, RunStore
  <2>. QED
    BY <2>1, <2>2, <2>3, <2>4 DEF Next, vars
<1>. QED
  BY <1>1, <1>2, HolderTypesInvariant, PTL DEF Spec

(***************************************************************************)
(* Ownership.  Every step takes a free channel, gives a channel back,      *)
(* switches one that somebody has, or leaves all that alone.               *)
(***************************************************************************)
Ownership ==
  \A c \in Channels :
    /\ c \in requested => \E u \in Users : Holders(c) = {u}
    /\ c \notin requested => Holders(c) = {}

HoldersOf(c, hs) ==
  \A d \in Channels : Holders(d)' = IF d = c THEN hs ELSE Holders(d)

Takes(u, c) ==
  /\ c \in Channels \ requested /\ u \in Users
  /\ requested' = requested \cup {c}
  /\ UNCHANGED <<running, handled>>
  /\ HoldersOf(c, {u})

GivesBack(c) ==
  /\ c \in requested
  /\ requested' = requested \ {c}
  /\ running' = running \ {c} /\ handled' = handled \ {c}
  /\ HoldersOf(c, {})

Switches(c) ==
  /\ c \in requested
  /\ running' \in {running, running \cup {c}, running \ {c}}
  /\ handled' \in {handled, handled \cup {c}, handled \ {c}}
  /\ UNCHANGED requested
  /\ \A d \in Channels : Holders(d)' = Holders(d)

Idles ==
  /\ UNCHANGED <<requested, running, handled>>
  /\ \A d \in Channels : Holders(d)' = Holders(d)

\* The sysfs attribute "run" switches a channel whoever has it.
SwitchesUnasked ==
  /\ "run" \in Sysfs
  /\ UNCHANGED <<requested, handled>>
  /\ \A d \in Channels : Holders(d)' = Holders(d)

OwnerMoves ==
  \/ Idles \/ SwitchesUnasked
  \/ \E c \in Channels : (\E u \in Users : Takes(u, c)) \/ GivesBack(c) \/ Switches(c)

\* Who has a channel, user by user.
LEMMA HolderIs ==
  ASSUME NEW c
  PROVE  /\ Holders(c) \subseteq Users
         /\ \A f \in Files : f \in Holders(c) <=> FileHolds(f, c)
         /\ \A h \in Handles : h \in Holders(c) <=> HandleHolds(h, c)
         /\ "sysfs" \in Holders(c) <=> SysfsHolds(c)
BY ClientsAssumption DEF Holders, Users

\* A file that takes or gives back a channel is the only one of the users to move.
LEMMA FileMoves ==
  ASSUME HolderTypes, NEW f \in Files, UNCHANGED wrapperVars, NEW c \in Channels,
         \A g \in Files \ {f} : stage'[g] = stage[g] /\ chan'[g] = chan[g],
         \A d \in Channels \ {c} : FileHolds(f, d)' <=> FileHolds(f, d),
         \A d \in Channels \ {c} : d \in requested' <=> d \in requested,
         \A d \in Channels \ {c} : requester'[d] = requester[d]
  PROVE  /\ \A d \in Channels \ {c} : Holders(d)' = Holders(d)
         /\ \A u \in Users \ {f, "sysfs"} : u \in Holders(c)' <=> u \in Holders(c)
<1>1. \A d, g : g \in Files \ {f} => (FileHolds(g, d)' <=> FileHolds(g, d))
  BY DEF FileHolds
<1>2. \A d, h : HandleHolds(h, d)' <=> HandleHolds(h, d)
  BY DEF HandleHolds, wrapperVars
<1>3. \A d \in Channels \ {c} : SysfsHolds(d)' <=> SysfsHolds(d)
  BY DEF SysfsHolds
<1>. QED
  BY <1>1, <1>2, <1>3 DEF Holders, Users

LEMMA HandleMoves ==
  ASSUME HolderTypes, NEW h \in Handles, UNCHANGED drvVars, NEW c \in Channels,
         \A g \in Handles \ {h} : hstage'[g] = hstage[g] /\ hchan'[g] = hchan[g],
         \A d \in Channels \ {c} : HandleHolds(h, d)' <=> HandleHolds(h, d),
         \A d \in Channels \ {c} : d \in requested' <=> d \in requested,
         \A d \in Channels \ {c} : requester'[d] = requester[d]
  PROVE  /\ \A d \in Channels \ {c} : Holders(d)' = Holders(d)
         /\ \A u \in Users \ {h, "sysfs"} : u \in Holders(c)' <=> u \in Holders(c)
<1>1. \A d, g : g \in Handles \ {h} => (HandleHolds(g, d)' <=> HandleHolds(g, d))
  BY DEF HandleHolds
<1>2. \A d, f : FileHolds(f, d)' <=> FileHolds(f, d)
  BY DEF FileHolds, drvVars
<1>3. \A d \in Channels \ {c} : SysfsHolds(d)' <=> SysfsHolds(d)
  BY DEF SysfsHolds
<1>. QED
  BY <1>1, <1>2, <1>3 DEF Holders, Users

LEMMA FileOwnerMoves ==
  ASSUME HolderTypes, Ownership, NEW f \in Files, FileStep(f), UNCHANGED wrapperVars
  PROVE  OwnerMoves
<1>1. CASE FileQuiet(f)
  <2>1. /\ UNCHANGED coreVars
        /\ \A g \in Files \ {f} : stage'[g] = stage[g] /\ chan'[g] = chan[g]
        /\ \A d \in Channels : FileHolds(f, d)' <=> FileHolds(f, d)
    BY <1>1, QuietFile DEF FileHolds, HolderTypes
  <2>2. \A d \in Channels : Holders(d)' = Holders(d)
    BY <2>1, FileMoves DEF coreVars, Holders, FileHolds, HandleHolds, SysfsHolds, wrapperVars
  <2>. QED
    BY <2>1, <2>2 DEF OwnerMoves, Idles, coreVars
<1>2. CASE OpenRequest(f)
  <2>1. PICK c \in Minors : Move(f, "closed", "requested") /\ Request(c)
                              /\ chan' = [chan EXCEPT ![f] = c]
    BY <1>2 DEF OpenRequest
  <2>2. c \in Channels \ requested /\ Holders(c) = {}
    BY <2>1 DEF Request, Ownership
  <2>3. /\ FileHolds(f, c)' /\ ~SysfsHolds(c)'
        /\ \A d \in Channels \ {c} : FileHolds(f, d)' <=> FileHolds(f, d)
    BY <2>1, <2>2, CoreAssumption DEF HolderTypes, FileHolds, SysfsHolds, Move, Request
  <2>4. /\ \A d \in Channels \ {c} : Holders(d)' = Holders(d)
        /\ \A u \in Users \ {f, "sysfs"} : u \in Holders(c)' <=> u \in Holders(c)
    BY <2>1, <2>2, <2>3, FileMoves DEF HolderTypes, Move, Request
  <2>5. Holders(c)' = {f}
    BY <2>2, <2>3, <2>4, ClientsAssumption DEF Holders, Users
  <2>6. Takes(f, c)
    BY <2>1, <2>2, <2>4, <2>5 DEF Takes, HoldersOf, Request, Users
  <2>. QED
    BY <2>2, <2>6 DEF OwnerMoves, Users
<1>3. CASE OpenNoMemory(f) \/ CloseRelease(f)
  <2>0. PICK c : c = chan[f]
    OBVIOUS
  <2>1. /\ stage[f] \notin {"closed", "released"} /\ stage'[f] \in {"closed", "released"}
        /\ c \in Channels /\ Release(c)
        /\ \A g \in Files \ {f} : stage'[g] = stage[g] /\ chan'[g] = chan[g]
    BY <1>3, <2>0 DEF OpenNoMemory, CloseRelease, Move, HolderTypes
  <2>2. c \in requested /\ Holders(c) = {f}
    BY <2>0, <2>1, HolderIs DEF Ownership, FileHolds
  <2>3. /\ requested' = requested \ {c} /\ running' = running \ {c}
        /\ handled' = handled \ {c} /\ requester' = requester
    BY <2>1, <2>2 DEF Release
  <2>4. /\ ~FileHolds(f, c)' /\ ~SysfsHolds(c)'
        /\ \A d \in Channels \ {c} : FileHolds(f, d)' <=> FileHolds(f, d)
    BY <2>0, <2>1, <2>3 DEF FileHolds, SysfsHolds
  <2>5. /\ \A d \in Channels \ {c} : Holders(d)' = Holders(d)
        /\ \A u \in Users \ {f, "sysfs"} : u \in Holders(c)' <=> u \in Holders(c)
    BY <2>1, <2>3, <2>4, FileMoves
  <2>6. Holders(c)' = {}
    BY <2>2, <2>4, <2>5, ClientsAssumption DEF Holders, Users
  <2>. QED
    BY <2>1, <2>2, <2>3, <2>5, <2>6 DEF OwnerMoves, GivesBack, HoldersOf
<1>4. CASE Enable(f)
  <2>1. chan[f] \in Channels /\ FileHolds(f, chan[f]) /\ StartOrStop(chan[f])
    BY <1>4 DEF Enable, HolderTypes, FileHolds
  <2>2. chan[f] \in requested
    BY <2>1, HolderIs DEF Ownership
  <2>3. \A d \in Channels : Holders(d)' = Holders(d)
    BY <1>4, <2>1 DEF Enable, StartOrStop, Holders, FileHolds, HandleHolds, SysfsHolds, drvVars,
                      wrapperVars
  <2>. QED
    BY <2>1, <2>2, <2>3 DEF OwnerMoves, Switches, StartOrStop
<1>. QED
  BY <1>1, <1>2, <1>3, <1>4, FileCases

LEMMA HandleOwnerMoves ==
  ASSUME HolderTypes, Ownership, NEW h \in Handles, HandleStep(h), UNCHANGED drvVars
  PROVE  OwnerMoves
<1>1. CASE HandleAlloc(h) \/ HandleNoMemory(h)
  <2>1. /\ UNCHANGED coreVars /\ hchan' = hchan
        /\ \A g \in Handles, d \in Channels : HandleHolds(g, d)' <=> HandleHolds(g, d)
    BY <1>1 DEF HandleAlloc, HandleNoMemory, HandleMove, HandleHolds, HolderTypes
  <2>2. \A d \in Channels : Holders(d)' = Holders(d)
    BY <2>1 DEF coreVars, Holders, FileHolds, SysfsHolds, drvVars
  <2>. QED
    BY <2>1, <2>2 DEF OwnerMoves, Idles, coreVars
<1>2. CASE HandleRequest(h)
  <2>1. PICK c \in Minors : HandleMove(h, "closed", "requested") /\ Request(c)
                              /\ hchan' = [hchan EXCEPT ![h] = c]
    BY <1>2 DEF HandleRequest
  <2>2. c \in Channels \ requested /\ Holders(c) = {}
    BY <2>1 DEF Request, Ownership
  <2>3. /\ HandleHolds(h, c)' /\ ~SysfsHolds(c)'
        /\ \A d \in Channels \ {c} : HandleHolds(h, d)' <=> HandleHolds(h, d)
    BY <2>1, <2>2, CoreAssumption DEF HolderTypes, HandleHolds, SysfsHolds, HandleMove, Request
  <2>4. /\ \A d \in Channels \ {c} : Holders(d)' = Holders(d)
        /\ \A u \in Users \ {h, "sysfs"} : u \in Holders(c)' <=> u \in Holders(c)
    BY <2>1, <2>2, <2>3, HandleMoves DEF HolderTypes, HandleMove, Request
  <2>5. Holders(c)' = {h}
    BY <2>2, <2>3, <2>4, ClientsAssumption DEF Holders, Users
  <2>6. Takes(h, c)
    BY <2>1, <2>2, <2>4, <2>5 DEF Takes, HoldersOf, Request, Users
  <2>. QED
    BY <2>2, <2>6 DEF OwnerMoves, Users
<1>3. CASE HandleClose(h)
  <2>0. PICK c : c = hchan[h]
    OBVIOUS
  <2>1. /\ hstage[h] # "closed" /\ hstage'[h] = "closed"
        /\ c \in Channels /\ Release(c)
        /\ \A g \in Handles \ {h} : hstage'[g] = hstage[g] /\ hchan'[g] = hchan[g]
    BY <1>3, <2>0 DEF HandleClose, HandleMove, HolderTypes
  <2>2. c \in requested /\ Holders(c) = {h}
    BY <2>0, <2>1, HolderIs DEF Ownership, HandleHolds
  <2>3. /\ requested' = requested \ {c} /\ running' = running \ {c}
        /\ handled' = handled \ {c} /\ requester' = requester
    BY <2>1, <2>2 DEF Release
  <2>4. /\ ~HandleHolds(h, c)' /\ ~SysfsHolds(c)'
        /\ \A d \in Channels \ {c} : HandleHolds(h, d)' <=> HandleHolds(h, d)
    BY <2>0, <2>1, <2>3 DEF HandleHolds, SysfsHolds
  <2>5. /\ \A d \in Channels \ {c} : Holders(d)' = Holders(d)
        /\ \A u \in Users \ {h, "sysfs"} : u \in Holders(c)' <=> u \in Holders(c)
    BY <2>1, <2>3, <2>4, HandleMoves
  <2>6. Holders(c)' = {}
    BY <2>2, <2>4, <2>5, ClientsAssumption DEF Holders, Users
  <2>. QED
    BY <2>1, <2>2, <2>3, <2>5, <2>6 DEF OwnerMoves, GivesBack, HoldersOf
<1>4. CASE HandleEnable(h) \/ HandleSetHandler(h)
  <2>1. /\ hchan[h] \in Channels /\ HandleHolds(h, hchan[h])
        /\ StartOrStop(hchan[h]) \/ SetHandler(hchan[h])
    BY <1>4 DEF HandleEnable, HandleSetHandler, HolderTypes, HandleHolds
  <2>2. hchan[h] \in requested
    BY <2>1, HolderIs DEF Ownership
  <2>3. \A d \in Channels : Holders(d)' = Holders(d)
    BY <1>4, <2>1 DEF HandleEnable, HandleSetHandler, StartOrStop, SetHandler, Holders,
                      FileHolds, HandleHolds, SysfsHolds, drvVars, wrapperVars
  <2>. QED
    BY <2>1, <2>2, <2>3 DEF OwnerMoves, Switches, StartOrStop, SetHandler
<1>. QED
  BY <1>1, <1>2, <1>3, <1>4 DEF HandleStep

LEMMA SysfsOwnerMoves ==
  ASSUME HolderTypes, Ownership, "store" \notin Sysfs, NEW c \in Channels, SysfsStep(c),
         UNCHANGED <<drvVars, wrapperVars>>
  PROVE  OwnerMoves
<1>1. /\ \A d, f : FileHolds(f, d)' <=> FileHolds(f, d)
      /\ \A d, h : HandleHolds(h, d)' <=> HandleHolds(h, d)
  BY DEF FileHolds, HandleHolds, drvVars, wrapperVars
<1>2. CASE RequestShow(c)
  <2>1. /\ c \notin requested /\ requested' = requested \cup {c}
        /\ requester' = [requester EXCEPT ![c] = "sysfs"] /\ UNCHANGED <<running, handled>>
    BY <1>2 DEF RequestShow
  <2>2. SysfsHolds(c)' /\ \A d \in Channels \ {c} : SysfsHolds(d)' <=> SysfsHolds(d)
    BY <2>1 DEF SysfsHolds, HolderTypes
  <2>3. Holders(c) = {} /\ "sysfs" \in Users
    BY <2>1 DEF Ownership, Users
  <2>4. HoldersOf(c, {"sysfs"})
    BY <1>1, <2>2, <2>3 DEF HoldersOf, Holders
  <2>. QED
    BY <2>1, <2>3, <2>4 DEF OwnerMoves, Takes
<1>3. CASE RunStore(c)
  <2>1. "run" \in Sysfs /\ UNCHANGED <<requested, requester, handled>>
    BY <1>3 DEF RunStore, StartOrStop
  <2>2. \A d \in Channels : Holders(d)' = Holders(d)
    BY <1>1, <2>1 DEF Holders, SysfsHolds
  <2>. QED
    BY <2>1, <2>2 DEF OwnerMoves, SwitchesUnasked
<1>. QED
  BY <1>2, <1>3 DEF SysfsStep, RequestStore

LEMMA OwnerCases ==
  ASSUME HolderTypes, Ownership, "store" \notin Sysfs, [Next]_vars
  PROVE  OwnerMoves
<1>1. CASE UNCHANGED vars
  BY <1>1 DEF vars, coreVars, drvVars, wrapperVars, OwnerMoves, Idles, Holders, FileHolds,
              HandleHolds, SysfsHolds
<1>. QED
  BY <1>1, FileOwnerMoves, HandleOwnerMoves, SysfsOwnerMoves DEF Next

LEMMA OwnershipInvariant ==
  ASSUME "store" \notin Sysfs
  PROVE  Spec => [](HolderTypes /\ Ownership)
<1>1. Init => Ownership
  BY DEF Init, CoreInit, DrvInit, WrapperInit, Ownership, Holders, FileHolds, HandleHolds,
         SysfsHolds
<1>2. Ownership /\ OwnerMoves => Ownership'
  BY DEF Ownership, OwnerMoves, Idles, Takes, GivesBack, Switches, SwitchesUnasked,
         HoldersOf
<1>3. HolderTypes /\ Ownership /\ [Next]_vars => Ownership'
  BY <1>2, OwnerCases
<1>. QED
  BY <1>1, <1>3, HolderTypesInvariant, PTL DEF Spec

\* The flag of a channel says exactly whether somebody has it, and nobody shares a
\* channel: as long as the sysfs attribute "request" is not written.
THEOREM HeldByOne ==
  ASSUME "store" \notin Sysfs
  PROVE  Spec => []OneHolder
<1>1. Ownership => OneHolder
  BY FS_EmptySet, FS_Singleton DEF Ownership, OneHolder
<1>. QED
  BY <1>1, OwnershipInvariant, PTL

\* The output of a channel is on, and its handler set, only while somebody has it.
THEOREM RunsOnlyHeld ==
  ASSUME Sysfs \subseteq {"show"}
  PROVE  Spec => []OnlyHeldChannelsRun
<1>0. "store" \notin Sysfs
  OBVIOUS
<1>1. Init => OnlyHeldChannelsRun
  BY DEF Init, CoreInit, OnlyHeldChannelsRun
<1>2. OnlyHeldChannelsRun /\ OwnerMoves => OnlyHeldChannelsRun'
  BY DEF OnlyHeldChannelsRun, OwnerMoves, Idles, Takes, GivesBack, Switches, SwitchesUnasked
<1>3. HolderTypes /\ Ownership /\ OnlyHeldChannelsRun /\ [Next]_vars => OnlyHeldChannelsRun'
  BY <1>0, <1>2, OwnerCases
<1>4. Spec => [](HolderTypes /\ Ownership)
  BY <1>0, OwnershipInvariant
<1>. QED
  BY <1>1, <1>3, <1>4, PTL DEF Spec

(***************************************************************************)
(* The lock.                                                               *)
(***************************************************************************)
LEMMA HolderOfNone == HolderIn({}) = Nobody
BY DEF HolderIn

LEMMA HolderOfOne ==
  ASSUME NEW u \in Users
  PROVE  HolderIn({u}) = u /\ u # Nobody
BY ClientsAssumption DEF HolderIn

\* Files, handles and sysfs together are a lock of every channel: whatever they do
\* is to acquire a free channel, to switch one that is held, or to give one back,
\* switched off.
THEOREM OpeningIsALock ==
  ASSUME Sysfs \subseteq {"show"}
  PROVE  Spec => ImplementsLock
<1>0. "store" \notin Sysfs
  OBVIOUS
<1>1. Init => Lock!Init
  <2>. SUFFICES ASSUME Init PROVE Lock!Init
    OBVIOUS
  <2>1. \A c \in Channels : Holders(c) = {}
    BY DEF Init, CoreInit, DrvInit, WrapperInit, Holders, FileHolds, HandleHolds, SysfsHolds
  <2>. QED
    BY <2>1, HolderOfNone DEF Init, CoreInit, Lock!Init, LockHolder
<1>2. ASSUME Ownership, OnlyHeldChannelsRun, OwnerMoves
      PROVE  Lock!Next \/ UNCHANGED <<LockHolder, running>>
  <2>1. CASE Idles
    BY <2>1 DEF Idles, LockHolder
  <2>2. ASSUME NEW c \in Channels, NEW u \in Users, Takes(u, c) PROVE Lock!Next
    <3>1. Holders(c) = {} /\ Holders(c)' = {u}
      BY <1>2, <2>2 DEF Takes, Ownership, HoldersOf
    <3>2. LockHolder[c] = Nobody /\ u # Nobody
      BY <3>1, HolderOfNone, HolderOfOne DEF LockHolder
    <3>3. LockHolder' = [LockHolder EXCEPT ![c] = u]
      BY <2>2, HolderOfOne DEF Takes, HoldersOf, LockHolder
    <3>4. Lock!Acquire(u, c)
      BY <2>2, <3>2, <3>3 DEF Takes, Lock!Acquire
    <3>. QED
      BY <3>4 DEF Lock!Next
  <2>3. ASSUME NEW c \in Channels, GivesBack(c) PROVE Lock!Next
    <3>1. LockHolder[c] # Nobody
      BY <1>2, <2>3, HolderOfOne DEF GivesBack, Ownership, LockHolder
    <3>2. LockHolder' = [LockHolder EXCEPT ![c] = Nobody]
      BY <2>3, HolderOfNone DEF GivesBack, HoldersOf, LockHolder
    <3>3. Lock!GiveBack(c)
      BY <2>3, <3>1, <3>2 DEF GivesBack, Lock!GiveBack
    <3>. QED
      BY <3>3 DEF Lock!Next
  <2>4. ASSUME NEW c \in Channels, Switches(c)
        PROVE  Lock!Next \/ UNCHANGED <<LockHolder, running>>
    <3>1. LockHolder[c] # Nobody /\ LockHolder' = LockHolder
      BY <1>2, <2>4, HolderOfOne DEF Switches, Ownership, LockHolder
    <3>2. Lock!Switch(c) \/ UNCHANGED <<LockHolder, running>>
      BY <2>4, <3>1 DEF Switches, Lock!Switch
    <3>. QED
      BY <3>2 DEF Lock!Next
  <2>. QED
    BY <1>2, <2>1, <2>2, <2>3, <2>4 DEF OwnerMoves, SwitchesUnasked
<1>3. HolderTypes /\ Ownership /\ OnlyHeldChannelsRun /\ [Next]_vars
        => [Lock!Next]_<<LockHolder, running>>
  BY <1>0, <1>2, OwnerCases
<1>4. Spec => [](HolderTypes /\ Ownership)
  BY <1>0, OwnershipInvariant
<1>. QED
  BY <1>1, <1>3, <1>4, RunsOnlyHeld, PTL
     DEF Spec, ImplementsLock, Lock!Spec
=============================================================================
