---------------------------- MODULE PwmDrvProofs ----------------------------
(***************************************************************************)
(* Theorems about the list of the open files of the character device, for  *)
(* every number of files and entries.                                      *)
(*                                                                         *)
(*   Types of the list       -> ClientsTypeCorrect                         *)
(*   Entries and their files -> EntriesAreOwned, EntryForEveryFile,        *)
(*                              NoEntryLeaks                               *)
(*   The search of SYNC      -> SyncFindsOwnEntry                          *)
(*                                                                         *)
(* Only the last needs that nobody writes the sysfs attribute "request".   *)
(***************************************************************************)
EXTENDS PwmClientsProofs, WellFoundedInduction

(***************************************************************************)
(* Sequences without repetition.                                           *)
(***************************************************************************)
LEMMA AppendNew ==
  ASSUME NEW S, NEW l \in Seq(S), IsInjective(l), NEW e \in S, e \notin Range(l)
  PROVE  /\ Append(l, e) \in Seq(S) /\ IsInjective(Append(l, e))
         /\ Range(Append(l, e)) = Range(l) \cup {e}
BY DEF IsInjective, Range

LEMMA RemoveOne ==
  ASSUME NEW S, NEW l \in Seq(S), IsInjective(l), NEW i \in 1 .. Len(l)
  PROVE  /\ RemoveAt(l, i) \in Seq(S) /\ IsInjective(RemoveAt(l, i))
         /\ Range(RemoveAt(l, i)) = Range(l) \ {l[i]}
         /\ l[i] \in Range(l)
<1>. DEFINE r == RemoveAt(l, i)
<1>1. /\ r \in Seq(S) /\ Len(r) = Len(l) - 1
      /\ \A j \in 1 .. Len(l) - 1 : r[j] = IF j < i THEN l[j] ELSE l[j + 1]
  <2>. DEFINE a == SubSeq(l, 1, i - 1)
              b == SubSeq(l, i + 1, Len(l))
  <2>1. /\ a \in Seq(S) /\ Len(a) = i - 1
        /\ \A j \in 1 .. i - 1 : a[j] = l[j]
    OBVIOUS
  <2>2. /\ b \in Seq(S) /\ Len(b) = Len(l) - i
        /\ \A j \in 1 .. Len(l) - i : b[j] = l[i + j]
    OBVIOUS
  <2>3. r = a \o b
    BY DEF RemoveAt
  <2>. HIDE DEF a, b, r
  <2>4. r \in Seq(S) /\ Len(r) = Len(l) - 1
    BY <2>1, <2>2, <2>3
  <2>5. ASSUME NEW j \in 1 .. Len(l) - 1 PROVE r[j] = IF j < i THEN l[j] ELSE l[j + 1]
    <3>1. CASE j < i
      BY <2>1, <2>2, <2>3, <3>1
    <3>2. CASE j >= i
      <4>1. r[j] = b[j - (i - 1)] /\ j - (i - 1) \in 1 .. Len(l) - i
        BY <2>1, <2>2, <2>3, <3>2
      <4>2. b[j - (i - 1)] = l[i + (j - (i - 1))] /\ i + (j - (i - 1)) = j + 1
        BY <2>2, <4>1
      <4>. QED
        BY <3>2, <4>1, <4>2
    <3>. QED
      BY <3>1, <3>2
  <2>. QED
    BY <2>4, <2>5
<1>. HIDE DEF r
<1>2. IsInjective(r)
  <2>1. \A j, k \in 1 .. Len(l) : l[j] = l[k] => j = k
    BY DEF IsInjective
  <2>2. ASSUME NEW j \in 1 .. Len(r), NEW k \in 1 .. Len(r), r[j] = r[k] PROVE j = k
    BY <1>1, <2>1, <2>2
  <2>. QED
    BY <1>1, <2>2 DEF IsInjective
<1>3. Range(r) \subseteq Range(l) \ {l[i]}
  BY <1>1 DEF IsInjective, Range
<1>4. ASSUME NEW j \in 1 .. Len(l), j # i PROVE l[j] \in Range(r)
  <2>1. CASE j < i
    BY <1>1, <2>1 DEF Range
  <2>2. CASE j > i
    <3>1. j - 1 \in 1 .. Len(r) /\ r[j - 1] = l[j]
      BY <1>1, <2>2
    <3>. QED
      BY <3>1, <1>1 DEF Range
  <2>. QED
    BY <1>4, <2>1, <2>2
<1>5. Range(l) \ {l[i]} \subseteq Range(r)
  BY <1>4 DEF Range
<1>6. l[i] \in Range(l)
  BY DEF Range
<1>. QED
  BY <1>1, <1>2, <1>3, <1>5, <1>6 DEF r

\* The search of pwm_drv_close.
LEMMA PositionFound ==
  ASSUME NEW f \in Files, chrdev_list \in Seq(Entries)
  PROVE  /\ OwnPosition(f) \in 0 .. Len(chrdev_list)
         /\ OwnPosition(f) # 0 => entry[chrdev_list[OwnPosition(f)]].channel = chan[f]
         /\ OwnPosition(f) = 0 => \A e \in Listed : entry[e].channel # chan[f]
<1>. DEFINE I == {i \in 1 .. Len(chrdev_list) : entry[chrdev_list[i]].channel = chan[f]}
<1>1. OwnPosition(f) = IF I # {} THEN Min(I) ELSE 0
  BY DEF OwnPosition, SelectInSeq
<1>2. CASE I # {}
  <2>1. \E n \in I : \A m \in I : n <= m
    <3>. DEFINE R == OpToRel(<, Nat)
    <3>1. IsWellFoundedOn(R, Nat)
      BY NatLessThanWellFounded
    <3>2. \A m, n \in Nat : m < n => <<m, n>> \in R
      BY DEF OpToRel
    <3>3. I \subseteq Nat
      OBVIOUS
    <3>. HIDE DEF R, I
    <3>4. PICK n \in I : \A m \in I : <<m, n>> \notin R
      BY <1>2, <3>1, <3>3, WFMin
    <3>5. ASSUME NEW m \in I PROVE n <= m
      <4>1. m \in Nat /\ n \in Nat /\ <<m, n>> \notin R
        BY <3>3, <3>4
      <4>2. ~(m < n)
        BY <3>2, <4>1
      <4>. QED
        BY <4>1, <4>2
    <3>. QED
      BY <3>5
  <2>2. Min(I) \in I
    BY <2>1 DEF Min
  <2>. QED
    BY <1>1, <1>2, <2>2
<1>3. CASE I = {}
  BY <1>1, <1>3 DEF Listed, Range
<1>. QED
  BY <1>2, <1>3

(***************************************************************************)
(* Types.                                                                  *)
(***************************************************************************)
EntryTypes == [channel : Channels \cup {NULL}, ppid : {Opener[f] : f \in Files} \cup {NULL}]

ListTypes ==
  /\ chrdev_list \in Seq(Entries) /\ allocated \subseteq Entries
  /\ entry \in [Entries -> EntryTypes]
  /\ pwm_chr \in [Files -> Entries \cup {NULL}]
  /\ \A f \in Files : stage[f] = "allocated" => pwm_chr[f] \in Entries

LEMMA ListTypesStep ==
  HolderTypes /\ ListTypes /\ [Next]_vars => ListTypes'
<1>. SUFFICES ASSUME HolderTypes, ListTypes, [Next]_vars PROVE ListTypes'
  OBVIOUS
<1>1. CASE UNCHANGED drvVars
  BY <1>1 DEF drvVars, ListTypes
<1>2. ASSUME NEW f \in Files, FileStep(f) PROVE ListTypes'
  <2>. USE DEF ListTypes, HolderTypes, Move, Point
  <2>1. CASE OpenRequest(f) \/ OpenNoMemory(f) \/ CloseRelease(f)
    BY <2>1 DEF OpenRequest, OpenNoMemory, CloseRelease
  <2>2. CASE OpenAlloc(f)
    <3>1. [channel |-> chan[f], ppid |-> Opener[f]] \in EntryTypes
      BY DEF EntryTypes
    <3>. QED
      BY <2>2, <3>1 DEF OpenAlloc
  <2>3. CASE OpenAdd(f)
    <3>1. pwm_chr[f] \in Entries
      BY <2>3 DEF OpenAdd
    <3>2. chrdev_list' \in Seq(Entries)
      BY <2>3, <3>1 DEF OpenAdd
    <3>. QED
      BY <2>3, <3>2 DEF OpenAdd
  <2>4. CASE Enable(f)
    BY <1>1, <2>4 DEF Enable
  <2>5. CASE SyncStart(f)
    <3>1. Head(chrdev_list) \in Entries
      BY <2>5 DEF SyncStart
    <3>. QED
      BY <2>5, <3>1 DEF SyncStart
  <2>9. CASE ScanFound(f) \/ SyncReturn(f)
    BY <2>9 DEF ScanFound, SyncReturn
  <2>6. CASE ScanNext(f) \/ ScanBug(f) \/ ScanOops(f)
    BY <2>6 DEF ScanNext, ScanBug, ScanOops
  <2>7. CASE CloseUnlink(f)
    <3>1. UNCHANGED <<allocated, entry>> /\ stage' = [stage EXCEPT ![f] = "unlinked"]
      BY <2>7 DEF CloseUnlink
    <3>2. CASE OwnPosition(f) = 0
      BY <2>7, <3>1, <3>2 DEF CloseUnlink
    <3>3. CASE OwnPosition(f) # 0
      <4>1. OwnPosition(f) \in 1 .. Len(chrdev_list)
        BY <3>3, PositionFound
      <4>2. /\ pwm_chr' = [pwm_chr EXCEPT ![f] = chrdev_list[OwnPosition(f)]]
            /\ chrdev_list' = RemoveAt(chrdev_list, OwnPosition(f))
        BY <2>7, <3>3 DEF CloseUnlink, Delete
      <4>3. chrdev_list' \in Seq(Entries)
        BY <4>1, <4>2 DEF RemoveAt
      <4>. QED
        BY <3>1, <4>1, <4>2, <4>3
    <3>. QED
      BY <3>2, <3>3
  <2>8. CASE CloseFree(f)
    BY <2>8 DEF CloseFree
  <2>. QED
    BY <1>2, <2>1, <2>2, <2>3, <2>4, <2>5, <2>6, <2>7, <2>8, <2>9
       DEF FileStep, OpenStep, SyncStep, CloseStep
<1>. QED
  BY <1>1, <1>2 DEF Next, vars

LEMMA ListTypesInvariant == Spec => [](HolderTypes /\ ListTypes)
<1>1. Init => ListTypes
  BY DEF Init, DrvInit, ListTypes, EntryTypes
<1>. QED
  BY <1>1, ListTypesStep, HolderTypesInvariant, PTL DEF Spec

\* Channels, entries, files and handles are in the states the code has: no close
\* follows an entry that is not one, no open adds NULL to the list.
THEOREM ClientsTypeCorrect == Spec => []TypeOK
<1>1. HolderTypes /\ ListTypes => TypeOK
  BY DEF HolderTypes, ListTypes, EntryTypes, TypeOK
<1>. QED
  BY <1>1, ListTypesInvariant, PTL

(***************************************************************************)
(* Entries and their files.  The entries of a channel on the list are as   *)
(* many as the files that are open on it; so a close always finds one.     *)
(***************************************************************************)
EntriesOf(c) == {e \in Listed : entry[e].channel = c}
FilesOf(c)   == {f \in Files : IsListed(f) /\ chan[f] = c}

CountInv ==
  \A c \in Channels :
    /\ IsFiniteSet(EntriesOf(c)) /\ IsFiniteSet(FilesOf(c))
    /\ Cardinality(EntriesOf(c)) = Cardinality(FilesOf(c))

\* The entry of an open that has not added it yet.
NewEntryInv ==
  \A f \in Files : stage[f] = "allocated" => entry[pwm_chr[f]].channel = chan[f]

\* An allocated entry is on the list or in the hands of one file.
InHands(e) == \E f \in Files : Private(f) /\ pwm_chr[f] = e

KeptInv == \A e \in allocated : e \in Listed \/ InHands(e)

EntryInv == CountInv /\ NewEntryInv /\ EntriesHaveOneOwner /\ KeptInv

LEMMA CountKept ==
  ASSUME CountInv, UNCHANGED chrdev_list, \A e \in Listed : entry'[e] = entry[e],
         \A f \in Files : /\ IsListed(f)' <=> IsListed(f)
                          /\ IsListed(f) => chan'[f] = chan[f]
  PROVE  CountInv'
<1>1. Listed' = Listed
  BY DEF Listed
<1>2. \A c \in Channels : EntriesOf(c)' = EntriesOf(c)
  BY <1>1 DEF EntriesOf
<1>3. \A c \in Channels : FilesOf(c)' = FilesOf(c)
  BY DEF FilesOf
<1>. QED
  BY <1>2, <1>3 DEF CountInv

\* An entry and a file of channel c are added, or taken away.
LEMMA CountAdded ==
  ASSUME CountInv, NEW c \in Channels, NEW e, NEW f,
         e \notin EntriesOf(c), f \notin FilesOf(c),
         EntriesOf(c)' = EntriesOf(c) \cup {e}, FilesOf(c)' = FilesOf(c) \cup {f},
         \A d \in Channels \ {c} : EntriesOf(d)' = EntriesOf(d) /\ FilesOf(d)' = FilesOf(d)
  PROVE  CountInv'
<1>1. /\ IsFiniteSet(EntriesOf(c)') /\ IsFiniteSet(FilesOf(c)')
      /\ Cardinality(EntriesOf(c)') = Cardinality(EntriesOf(c)) + 1
      /\ Cardinality(FilesOf(c)') = Cardinality(FilesOf(c)) + 1
  BY FS_AddElement DEF CountInv
<1>. QED
  BY <1>1 DEF CountInv

LEMMA CountRemoved ==
  ASSUME CountInv, NEW c \in Channels, NEW e \in EntriesOf(c), NEW f \in FilesOf(c),
         EntriesOf(c)' = EntriesOf(c) \ {e}, FilesOf(c)' = FilesOf(c) \ {f},
         \A d \in Channels \ {c} : EntriesOf(d)' = EntriesOf(d) /\ FilesOf(d)' = FilesOf(d)
  PROVE  CountInv'
<1>1. /\ IsFiniteSet(EntriesOf(c)') /\ IsFiniteSet(FilesOf(c)')
      /\ Cardinality(EntriesOf(c)') = Cardinality(EntriesOf(c)) - 1
      /\ Cardinality(FilesOf(c)') = Cardinality(FilesOf(c)) - 1
  BY FS_RemoveElement DEF CountInv
<1>. QED
  BY <1>1 DEF CountInv

LEMMA EntryQuiet ==
  ASSUME HolderTypes, ListTypes, EntryInv, NEW f \in Files,
         \/ OpenRequest(f) \/ OpenNoMemory(f) \/ SyncStep(f) \/ Enable(f) \/ CloseRelease(f)
  PROVE  EntryInv'
<1>1. /\ UNCHANGED <<chrdev_list, allocated, entry>>
      /\ \A g \in Files : /\ IsListed(g)' <=> IsListed(g)
                          /\ IsListed(g) => chan'[g] = chan[g]
                          /\ Private(g)' <=> Private(g)
                          /\ Private(g) => pwm_chr'[g] = pwm_chr[g]
                          /\ stage'[g] = "allocated" => stage[g] = "allocated" /\ chan'[g] = chan[g]
  <2>. USE DEF HolderTypes, ListTypes, IsListed, Private, Move, Point
  <2>1. CASE OpenRequest(f) \/ OpenNoMemory(f) \/ CloseRelease(f)
    BY <2>1 DEF OpenRequest, OpenNoMemory, CloseRelease
  <2>2. CASE Enable(f)
    BY <2>2 DEF Enable, drvVars
  <2>3. CASE SyncStart(f) \/ ScanFound(f) \/ SyncReturn(f)
    BY <2>3 DEF SyncStart, ScanFound, SyncReturn
  <2>4. CASE ScanNext(f) \/ ScanBug(f) \/ ScanOops(f)
    BY <2>4 DEF ScanNext, ScanBug, ScanOops
  <2>. QED
    BY <2>1, <2>2, <2>3, <2>4 DEF SyncStep
<1>2. CountInv'
  BY <1>1, CountKept DEF EntryInv
<1>3. NewEntryInv'
  BY <1>1 DEF EntryInv, NewEntryInv, Private
<1>4. EntriesHaveOneOwner'
  BY <1>1 DEF EntryInv, EntriesHaveOneOwner, Listed
<1>5. KeptInv'
  BY <1>1 DEF EntryInv, KeptInv, InHands, Listed
<1>. QED
  BY <1>2, <1>3, <1>4, <1>5 DEF EntryInv

LEMMA EntryAlloc ==
  ASSUME HolderTypes, ListTypes, EntryInv, NEW f \in Files, OpenAlloc(f)
  PROVE  EntryInv'
<1>1. PICK e \in Entries \ allocated :
        /\ allocated' = allocated \cup {e}
        /\ entry' = [entry EXCEPT ![e] = [channel |-> chan[f], ppid |-> Opener[f]]]
        /\ pwm_chr' = [pwm_chr EXCEPT ![f] = e]
  BY DEF OpenAlloc, Point
<1>2. UNCHANGED <<chrdev_list, chan>> /\ stage[f] = "requested"
      /\ stage' = [stage EXCEPT ![f] = "allocated"]
  BY DEF OpenAlloc, Move
<1>3. e \notin Listed /\ Listed' = Listed
  BY <1>1, <1>2 DEF EntryInv, EntriesHaveOneOwner, Listed
<1>4. CountInv'
  BY <1>1, <1>2, <1>3, CountKept DEF EntryInv, IsListed, ListTypes, HolderTypes
<1>5. \A g \in Files \ {f} : /\ Private(g)' <=> Private(g)
                             /\ pwm_chr'[g] = pwm_chr[g] /\ stage'[g] = stage[g]
  BY <1>1, <1>2 DEF Private, HolderTypes, ListTypes
<1>6. Private(f)' /\ pwm_chr'[f] = e
  BY <1>1, <1>2 DEF Private, HolderTypes, ListTypes
<1>7. \A g \in Files \ {f} : Private(g) => pwm_chr[g] \in allocated \ Listed
  BY DEF EntryInv, EntriesHaveOneOwner
<1>8. NewEntryInv'
  <2>1. ASSUME NEW g \in Files, stage'[g] = "allocated"
        PROVE  entry'[pwm_chr'[g]].channel = chan'[g]
    <3>1. CASE g = f
      BY <1>1, <1>2, <1>6, <3>1 DEF ListTypes
    <3>2. CASE g # f
      <4>1. Private(g) /\ stage[g] = "allocated" /\ pwm_chr'[g] = pwm_chr[g]
        BY <1>5, <2>1, <3>2 DEF Private
      <4>2. pwm_chr[g] # e
        BY <1>1, <1>7, <3>2, <4>1
      <4>. QED
        BY <1>1, <1>2, <4>1, <4>2 DEF EntryInv, NewEntryInv, ListTypes
    <3>. QED
      BY <3>1, <3>2
  <2>. QED
    BY <2>1 DEF NewEntryInv
<1>9. EntriesHaveOneOwner'
  BY <1>1, <1>2, <1>3, <1>5, <1>6, <1>7 DEF EntryInv, EntriesHaveOneOwner
<1>10. KeptInv'
  <2>1. InHands(e)'
    BY <1>6 DEF InHands
  <2>2. ~Private(f)
    BY <1>2 DEF Private
  <2>3. \A d : InHands(d) => InHands(d)'
    BY <1>5, <2>2 DEF InHands
  <2>. QED
    BY <1>1, <1>3, <2>1, <2>3 DEF EntryInv, KeptInv
<1>. QED
  BY <1>4, <1>8, <1>9, <1>10 DEF EntryInv

LEMMA EntryAdd ==
  ASSUME HolderTypes, ListTypes, EntryInv, NEW f \in Files, OpenAdd(f)
  PROVE  EntryInv'
<1>1. /\ UNCHANGED <<allocated, entry, chan>> /\ stage[f] = "allocated"
      /\ stage' = [stage EXCEPT ![f] = "open"]
      /\ pwm_chr' = [pwm_chr EXCEPT ![f] = NULL]
      /\ chrdev_list' = Append(chrdev_list, pwm_chr[f])
  BY DEF OpenAdd, Move, Point
<1>2. PICK e \in Entries : e = pwm_chr[f]
  BY <1>1 DEF ListTypes
<1>3. PICK c \in Channels : c = chan[f]
  BY <1>1 DEF HolderTypes
<1>4. e \in allocated \ Listed /\ entry[e].channel = c
  BY <1>1, <1>2, <1>3 DEF EntryInv, EntriesHaveOneOwner, NewEntryInv, Private
<1>5. Listed' = Listed \cup {e} /\ IsInjective(chrdev_list)'
  BY <1>1, <1>2, <1>4, AppendNew DEF Listed, EntryInv, EntriesHaveOneOwner, ListTypes
<1>6. \A g \in Files : /\ Private(g)' <=> (Private(g) /\ g # f)
                       /\ IsListed(g)' <=> (IsListed(g) \/ g = f)
                       /\ g # f => pwm_chr'[g] = pwm_chr[g] /\ stage'[g] = stage[g]
  BY <1>1 DEF Private, IsListed, HolderTypes, ListTypes
<1>7. ~IsListed(f)
  BY <1>1 DEF IsListed
<1>8. CountInv'
  <2>1. e \notin EntriesOf(c) /\ f \notin FilesOf(c)
    BY <1>4, <1>7 DEF EntriesOf, FilesOf
  <2>2. EntriesOf(c)' = EntriesOf(c) \cup {e} /\ FilesOf(c)' = FilesOf(c) \cup {f}
    BY <1>1, <1>3, <1>4, <1>5, <1>6 DEF EntriesOf, FilesOf
  <2>3. \A d \in Channels \ {c} : EntriesOf(d)' = EntriesOf(d) /\ FilesOf(d)' = FilesOf(d)
    BY <1>1, <1>3, <1>4, <1>5, <1>6 DEF EntriesOf, FilesOf
  <2>. QED
    BY <2>1, <2>2, <2>3, CountAdded DEF EntryInv
<1>9. NewEntryInv'
  BY <1>1, <1>6 DEF EntryInv, NewEntryInv, HolderTypes
<1>10. EntriesHaveOneOwner'
  <2>1. \A g \in Files : Private(g)' => pwm_chr'[g] \in allocated \ (Listed \cup {e})
    BY <1>1, <1>2, <1>6 DEF EntryInv, EntriesHaveOneOwner, Private
  <2>2. \A g, h \in Files : Private(g)' /\ Private(h)' /\ pwm_chr'[g] = pwm_chr'[h] => g = h
    BY <1>6 DEF EntryInv, EntriesHaveOneOwner
  <2>3. Listed \subseteq allocated
    BY DEF EntryInv, EntriesHaveOneOwner
  <2>. QED
    BY <1>1, <1>4, <1>5, <2>1, <2>2, <2>3 DEF EntriesHaveOneOwner
<1>11. KeptInv'
  <2>1. \A d : InHands(d) => InHands(d)' \/ d = e
    BY <1>2, <1>6 DEF InHands
  <2>. QED
    BY <1>1, <1>5, <2>1 DEF EntryInv, KeptInv
<1>. QED
  BY <1>8, <1>9, <1>10, <1>11 DEF EntryInv

LEMMA EntryUnlink ==
  ASSUME HolderTypes, ListTypes, EntryInv, NEW f \in Files, CloseUnlink(f)
  PROVE  EntryInv'
<1>. DEFINE i == OwnPosition(f)
<1>1. IsListed(f) /\ stage' = [stage EXCEPT ![f] = "unlinked"]
      /\ UNCHANGED <<allocated, entry, chan>>
  BY DEF CloseUnlink, Move, IsListed
<1>2. PICK c \in Channels : c = chan[f]
  BY <1>1 DEF HolderTypes, IsListed
<1>3. EntriesOf(c) # {}
  <2>1. f \in FilesOf(c)
    BY <1>1, <1>2 DEF FilesOf
  <2>2. Cardinality(FilesOf(c)) # 0
    BY <2>1, FS_EmptySet DEF EntryInv, CountInv
  <2>. QED
    BY <2>2, FS_EmptySet DEF EntryInv, CountInv
<1>4. i \in 1 .. Len(chrdev_list) /\ entry[chrdev_list[i]].channel = c
  BY <1>2, <1>3, PositionFound DEF EntriesOf, ListTypes
<1>5. PICK e \in Entries : e = chrdev_list[i]
  BY <1>4 DEF ListTypes
<1>6. chrdev_list' = RemoveAt(chrdev_list, i) /\ pwm_chr' = [pwm_chr EXCEPT ![f] = e]
  BY <1>4, <1>5 DEF CloseUnlink, Delete, Point
<1>7. e \in Listed /\ Listed' = Listed \ {e} /\ IsInjective(chrdev_list)'
  BY <1>4, <1>5, <1>6, RemoveOne DEF Listed, ListTypes, EntryInv, EntriesHaveOneOwner
<1>8. \A g \in Files : /\ Private(g)' <=> (Private(g) \/ g = f)
                       /\ IsListed(g)' <=> (IsListed(g) /\ g # f)
                       /\ g # f => pwm_chr'[g] = pwm_chr[g] /\ stage'[g] = stage[g]
  BY <1>1, <1>6 DEF Private, IsListed, HolderTypes, ListTypes
<1>9. pwm_chr'[f] = e /\ stage'[f] = "unlinked"
  BY <1>1, <1>6 DEF HolderTypes, ListTypes
<1>10. CountInv'
  <2>1. e \in EntriesOf(c) /\ f \in FilesOf(c)
    BY <1>1, <1>2, <1>4, <1>5, <1>7 DEF EntriesOf, FilesOf
  <2>2. EntriesOf(c)' = EntriesOf(c) \ {e} /\ FilesOf(c)' = FilesOf(c) \ {f}
    BY <1>1, <1>7, <1>8 DEF EntriesOf, FilesOf
  <2>3. \A d \in Channels \ {c} : EntriesOf(d)' = EntriesOf(d) /\ FilesOf(d)' = FilesOf(d)
    BY <1>1, <1>2, <1>4, <1>5, <1>7, <1>8 DEF EntriesOf, FilesOf
  <2>. QED
    BY <2>1, <2>2, <2>3, CountRemoved DEF EntryInv
<1>11. NewEntryInv'
  BY <1>1, <1>8, <1>9 DEF EntryInv, NewEntryInv
<1>12. EntriesHaveOneOwner'
  <2>1. \A g \in Files : Private(g) => pwm_chr[g] \in allocated \ Listed
    BY DEF EntryInv, EntriesHaveOneOwner
  <2>2. \A g \in Files : Private(g)' => pwm_chr'[g] \in allocated \ (Listed \ {e})
    BY <1>7, <1>8, <1>9, <2>1 DEF EntryInv, EntriesHaveOneOwner
  <2>3. \A g, h \in Files : Private(g)' /\ Private(h)' /\ pwm_chr'[g] = pwm_chr'[h] => g = h
    BY <1>7, <1>8, <1>9, <2>1 DEF EntryInv, EntriesHaveOneOwner
  <2>. QED
    BY <1>1, <1>7, <2>2, <2>3 DEF EntryInv, EntriesHaveOneOwner
<1>13. KeptInv'
  <2>1. ~Private(f)
    BY <1>1 DEF IsListed, Private
  <2>2. InHands(e)'
    BY <1>8, <1>9 DEF InHands
  <2>3. \A d : InHands(d) => InHands(d)'
    BY <1>8, <2>1 DEF InHands
  <2>. QED
    BY <1>1, <1>7, <2>2, <2>3 DEF EntryInv, KeptInv
<1>. QED
  BY <1>10, <1>11, <1>12, <1>13 DEF EntryInv

LEMMA EntryFree ==
  ASSUME HolderTypes, ListTypes, EntryInv, NEW f \in Files, CloseFree(f)
  PROVE  EntryInv'
<1>1. /\ UNCHANGED <<chrdev_list, entry>> /\ stage[f] = "released"
      /\ stage' = [stage EXCEPT ![f] = "closed"]
      /\ allocated' = allocated \ {pwm_chr[f]}
      /\ pwm_chr' = [pwm_chr EXCEPT ![f] = NULL]
      /\ chan' = [chan EXCEPT ![f] = NULL]
  BY DEF CloseFree, Move, Point
<1>2. \A g \in Files : /\ Private(g)' <=> (Private(g) /\ g # f)
                       /\ IsListed(g)' <=> IsListed(g)
                       /\ g # f => /\ pwm_chr'[g] = pwm_chr[g] /\ stage'[g] = stage[g]
                                   /\ chan'[g] = chan[g]
  BY <1>1 DEF Private, IsListed, HolderTypes, ListTypes
<1>3. Private(f) /\ ~IsListed(f) /\ stage'[f] = "closed"
  BY <1>1 DEF Private, IsListed, HolderTypes
<1>4. CountInv'
  BY <1>1, <1>2, <1>3, CountKept DEF EntryInv
<1>5. NewEntryInv'
  BY <1>1, <1>2, <1>3 DEF EntryInv, NewEntryInv
<1>6. EntriesHaveOneOwner'
  BY <1>1, <1>2, <1>3 DEF EntryInv, EntriesHaveOneOwner, Listed
<1>7. KeptInv'
  <2>1. \A d : InHands(d) => InHands(d)' \/ d = pwm_chr[f]
    BY <1>2 DEF InHands
  <2>. QED
    BY <1>1, <2>1 DEF EntryInv, KeptInv, Listed
<1>. QED
  BY <1>4, <1>5, <1>6, <1>7 DEF EntryInv

LEMMA EntryInvariant == Spec => [](HolderTypes /\ ListTypes /\ EntryInv)
<1>1. ASSUME Init PROVE EntryInv
  <2>1. Listed = {} /\ \A f \in Files : ~IsListed(f) /\ ~Private(f)
    BY <1>1 DEF Init, DrvInit, Listed, Range, IsListed, Private
  <2>2. \A c \in Channels : EntriesOf(c) = {} /\ FilesOf(c) = {}
    BY <2>1 DEF EntriesOf, FilesOf
  <2>3. CountInv
    BY <2>2, FS_EmptySet DEF CountInv
  <2>4. NewEntryInv
    BY <2>1 DEF NewEntryInv, Private
  <2>5. EntriesHaveOneOwner
    BY <1>1, <2>1 DEF Init, DrvInit, EntriesHaveOneOwner, IsInjective
  <2>6. KeptInv
    BY <1>1 DEF Init, DrvInit, KeptInv
  <2>. QED
    BY <2>3, <2>4, <2>5, <2>6 DEF EntryInv
<1>2. HolderTypes /\ ListTypes /\ EntryInv /\ [Next]_vars => EntryInv'
  <2>. SUFFICES ASSUME HolderTypes, ListTypes, EntryInv, [Next]_vars PROVE EntryInv'
    OBVIOUS
  <2>1. CASE UNCHANGED drvVars
    <3>1. CountInv'
      BY <2>1, CountKept DEF EntryInv, drvVars, IsListed
    <3>. QED
      BY <2>1, <3>1 DEF EntryInv, NewEntryInv, EntriesHaveOneOwner, KeptInv, InHands, Listed,
                        Private, drvVars
  <2>2. ASSUME NEW f \in Files, FileStep(f) PROVE EntryInv'
    BY <2>2, EntryQuiet, EntryAlloc, EntryAdd, EntryUnlink, EntryFree
       DEF FileStep, OpenStep, CloseStep
  <2>. QED
    BY <2>1, <2>2 DEF Next, vars
<1>. QED
  BY <1>1, <1>2, ListTypesInvariant, PTL DEF Spec

\* A close finds an entry of its channel, whatever files come and go and whoever
\* took the channel away from whom: the list has an entry for every open file.
THEOREM EntryForEveryFile == Spec => []EntryPerOpenFile
<1>1. EntryInv => EntryPerOpenFile
  BY DEF EntryInv, CountInv, EntriesOf, FilesOf, EntryPerOpenFile
<1>. QED
  BY <1>1, EntryInvariant, PTL

\* No entry is on the list twice, or on the list after it was freed, and no two files
\* add or free the same one.
THEOREM EntriesAreOwned == Spec => []EntriesHaveOneOwner
<1>. QED
  BY EntryInvariant, PTL DEF EntryInv

\* Every allocated entry is still on the list or in the hands of the file that adds
\* or frees it, in whatever order files come and go: none is leaked.
THEOREM NoEntryLeaks == Spec => []NoLeakedEntry
<1>1. EntryInv => NoLeakedEntry
  BY DEF EntryInv, EntriesHaveOneOwner, KeptInv, InHands, NoLeakedEntry
<1>. QED
  BY <1>1, EntryInvariant, PTL

(***************************************************************************)
(* The search of SYNC.  Where a channel has one holder, every entry on the *)
(* list is the entry of a file, no two are of one channel, and an entry    *)
(* that the search steps on after it was deleted is of another channel,    *)
(* even when it was allocated anew.                                        *)
(***************************************************************************)
OwnEntry(f) == [channel |-> chan[f], ppid |-> Opener[f]]

EntriesInv ==
  /\ \A f \in Files : stage[f] = "allocated" => entry[pwm_chr[f]] = OwnEntry(f)
  /\ \A e \in Listed : \E f \in Files : IsListed(f) /\ entry[e] = OwnEntry(f)
  /\ \A d, e \in Listed : entry[d].channel = entry[e].channel => d = e

ScanInv ==
  \A f \in Files : stage[f] = "scan" =>
    /\ pwm_chr[f] \in Entries
    /\ Matches(f) => pwm_chr[f] \in Listed

SyncInv == EntriesInv /\ ScanInv /\ SyncUsesOwnEntry

AllTypes == HolderTypes /\ ListTypes /\ EntryInv /\ Ownership

LEMMA OneFile ==
  ASSUME HolderTypes, Ownership, NEW f \in Files, NEW g \in Files, chan[f] = chan[g],
         stage[f] \notin {"closed", "released"}, stage[g] \notin {"closed", "released"}
  PROVE  f = g
<1>1. chan[f] \in Channels
  BY DEF HolderTypes
<1>2. f \in Holders(chan[f]) /\ g \in Holders(chan[f])
  BY HolderIs DEF FileHolds
<1>. QED
  BY <1>1, <1>2 DEF Ownership

\* The entry with the channel of an open file is the file's.
LEMMA MatchIsOwn ==
  ASSUME AllTypes, EntriesInv, NEW f \in Files, IsListed(f), NEW e \in Listed,
         entry[e].channel = chan[f]
  PROVE  entry[e] = OwnEntry(f)
<1>1. PICK g \in Files : IsListed(g) /\ entry[e] = OwnEntry(g)
  BY DEF EntriesInv
<1>2. chan[f] = chan[g]
  BY <1>1 DEF OwnEntry
<1>3. f = g
  BY <1>1, <1>2, OneFile DEF AllTypes, IsListed
<1>. QED
  BY <1>1, <1>3

\* Steps that move no file to or from the list, and write no entry.
LEMMA EntriesKept ==
  ASSUME EntriesInv, UNCHANGED <<chrdev_list, entry>>,
         \A g \in Files :
           /\ IsListed(g) => IsListed(g)' /\ chan'[g] = chan[g]
           /\ stage'[g] = "allocated" => /\ stage[g] = "allocated" /\ chan'[g] = chan[g]
                                         /\ pwm_chr'[g] = pwm_chr[g]
  PROVE  EntriesInv'
<1>1. Listed' = Listed
  BY DEF Listed
<1>2. \A g \in Files : stage'[g] = "allocated" => entry'[pwm_chr'[g]] = OwnEntry(g)'
  BY DEF EntriesInv, OwnEntry
<1>3. ASSUME NEW e \in Listed PROVE \E f \in Files : IsListed(f)' /\ entry'[e] = OwnEntry(f)'
  <2>1. PICK f \in Files : IsListed(f) /\ entry[e] = OwnEntry(f)
    BY DEF EntriesInv
  <2>2. IsListed(f)' /\ OwnEntry(f)' = OwnEntry(f)
    BY <2>1 DEF OwnEntry
  <2>. QED
    BY <2>1, <2>2
<1>. QED
  BY <1>1, <1>2, <1>3 DEF EntriesInv

LEMMA SyncQuiet ==
  ASSUME AllTypes, SyncInv, NEW f \in Files,
         OpenRequest(f) \/ OpenNoMemory(f) \/ CloseRelease(f) \/ CloseFree(f) \/ Enable(f)
  PROVE  SyncInv'
<1>1. /\ UNCHANGED <<chrdev_list, entry>>
      /\ \A g \in Files :
           /\ IsListed(g) => IsListed(g)' /\ chan'[g] = chan[g]
           /\ stage'[g] = "allocated" => /\ stage[g] = "allocated" /\ chan'[g] = chan[g]
                                         /\ pwm_chr'[g] = pwm_chr[g]
           /\ stage'[g] \in {"scan", "found"} =>
                stage'[g] = stage[g] /\ chan'[g] = chan[g] /\ pwm_chr'[g] = pwm_chr[g]
  <2>. USE DEF AllTypes, HolderTypes, ListTypes, IsListed, Move, Point
  <2>1. CASE OpenRequest(f) \/ OpenNoMemory(f) \/ CloseRelease(f)
    BY <2>1 DEF OpenRequest, OpenNoMemory, CloseRelease
  <2>2. CASE CloseFree(f) \/ Enable(f)
    BY <2>2 DEF CloseFree, Enable, drvVars
  <2>. QED
    BY <2>1, <2>2
<1>2. EntriesInv'
  BY <1>1, EntriesKept DEF SyncInv
<1>3. ScanInv' /\ SyncUsesOwnEntry'
  BY <1>1 DEF SyncInv, ScanInv, SyncUsesOwnEntry, Listed, Matches
<1>. QED
  BY <1>2, <1>3 DEF SyncInv

LEMMA SyncScan ==
  ASSUME AllTypes, SyncInv, NEW f \in Files, SyncStep(f)
  PROVE  SyncInv'
<1>1. /\ UNCHANGED <<chrdev_list, entry, chan>> /\ stage[f] \in {"open", "scan", "found"}
      /\ stage'[f] \in {"open", "scan", "found", "bug", "oops"}
      /\ \A g \in Files \ {f} : stage'[g] = stage[g] /\ pwm_chr'[g] = pwm_chr[g]
  <2>. USE DEF AllTypes, HolderTypes, ListTypes, Move, Point
  <2>1. CASE SyncStart(f) \/ ScanFound(f) \/ SyncReturn(f)
    BY <2>1 DEF SyncStart, ScanFound, SyncReturn
  <2>2. CASE ScanNext(f) \/ ScanBug(f) \/ ScanOops(f)
    BY <2>2 DEF ScanNext, ScanBug, ScanOops
  <2>. QED
    BY <2>1, <2>2 DEF SyncStep
<1>2. EntriesInv'
  BY <1>1, EntriesKept DEF SyncInv, IsListed
<1>3. stage'[f] = "scan" => pwm_chr'[f] \in Listed
  <2>1. CASE SyncStart(f)
    <3>1. Head(chrdev_list) \in Listed
      BY <2>1 DEF SyncStart, AllTypes, ListTypes, Listed, Range
    <3>. QED
      BY <2>1, <3>1 DEF SyncStart, Point, AllTypes, ListTypes
  <2>2. CASE ScanNext(f)
    <3>1. PICK i \in 1 .. Len(chrdev_list) - 1 : Point(f, chrdev_list[i + 1])
      BY <2>2 DEF ScanNext
    <3>2. chrdev_list[i + 1] \in Listed
      BY DEF AllTypes, ListTypes, Listed, Range
    <3>. QED
      BY <3>1, <3>2 DEF Point, AllTypes, ListTypes
  <2>3. CASE ScanFound(f) \/ SyncReturn(f) \/ ScanBug(f) \/ ScanOops(f)
    BY <2>3 DEF ScanFound, SyncReturn, ScanBug, ScanOops, Move, AllTypes, HolderTypes
  <2>. QED
    BY <2>1, <2>2, <2>3 DEF SyncStep
<1>4. Listed \subseteq Entries
  BY DEF AllTypes, ListTypes, Listed, Range
<1>5. ScanInv'
  BY <1>1, <1>3, <1>4 DEF SyncInv, ScanInv, Listed, Matches
<1>6. stage'[f] = "found" => pwm_chr'[f] \in Listed /\ entry[pwm_chr'[f]] = OwnEntry(f)
  <2>1. CASE ScanFound(f)
    <3>1. pwm_chr'[f] = pwm_chr[f] /\ Matches(f) /\ stage[f] = "scan"
      BY <2>1 DEF ScanFound, Move
    <3>2. pwm_chr[f] \in Listed /\ IsListed(f)
      BY <3>1 DEF SyncInv, ScanInv, IsListed
    <3>. QED
      BY <3>1, <3>2, MatchIsOwn DEF Matches, SyncInv
  <2>2. CASE SyncStart(f) \/ SyncReturn(f)
    BY <2>2 DEF SyncStart, SyncReturn, Move, AllTypes, HolderTypes
  <2>3. CASE ScanNext(f) \/ ScanBug(f) \/ ScanOops(f)
    BY <2>3 DEF ScanNext, ScanBug, ScanOops, Move, AllTypes, HolderTypes
  <2>. QED
    BY <2>1, <2>2, <2>3 DEF SyncStep
<1>7. SyncUsesOwnEntry'
  BY <1>1, <1>6 DEF SyncInv, SyncUsesOwnEntry, Listed, OwnEntry
<1>. QED
  BY <1>2, <1>5, <1>7 DEF SyncInv

LEMMA SyncAlloc ==
  ASSUME AllTypes, SyncInv, NEW f \in Files, OpenAlloc(f)
  PROVE  SyncInv'
<1>1. PICK e \in Entries \ allocated :
        /\ entry' = [entry EXCEPT ![e] = OwnEntry(f)]
        /\ pwm_chr' = [pwm_chr EXCEPT ![f] = e]
  BY DEF OpenAlloc, Point, OwnEntry
<1>2. UNCHANGED <<chrdev_list, chan>> /\ stage[f] = "requested"
      /\ stage' = [stage EXCEPT ![f] = "allocated"]
  BY DEF OpenAlloc, Move
<1>3. e \notin Listed /\ Listed' = Listed /\ Listed \subseteq Entries
  BY <1>2 DEF AllTypes, EntryInv, EntriesHaveOneOwner, Listed, ListTypes, Range
<1>4. \A g \in Files \ {f} : pwm_chr'[g] = pwm_chr[g] /\ stage'[g] = stage[g]
  BY <1>1, <1>2 DEF AllTypes, HolderTypes, ListTypes
<1>5. pwm_chr'[f] = e /\ stage'[f] = "allocated" /\ entry'[e] = OwnEntry(f)
  BY <1>1, <1>2 DEF AllTypes, HolderTypes, ListTypes
<1>6. \A d \in Entries \ {e} : entry'[d] = entry[d]
  BY <1>1 DEF AllTypes, ListTypes
<1>7. EntriesInv'
  <2>1. ASSUME NEW g \in Files, stage'[g] = "allocated"
        PROVE  entry'[pwm_chr'[g]] = OwnEntry(g)
    <3>1. CASE g = f
      BY <1>5, <3>1
    <3>2. CASE g # f
      <4>1. Private(g) /\ stage[g] = "allocated"
        BY <1>4, <2>1, <3>2 DEF Private
      <4>2. pwm_chr[g] \in Entries \ {e}
        BY <4>1 DEF AllTypes, EntryInv, EntriesHaveOneOwner, ListTypes
      <4>. QED
        BY <1>4, <1>6, <3>2, <4>1, <4>2 DEF SyncInv, EntriesInv
    <3>. QED
      BY <3>1, <3>2
  <2>2. \A d \in Listed : entry'[d] = entry[d]
    BY <1>3, <1>6
  <2>3. \A g \in Files : IsListed(g) => IsListed(g)'
    BY <1>2, <1>4 DEF IsListed
  <2>. QED
    BY <1>2, <1>3, <2>1, <2>2, <2>3 DEF SyncInv, EntriesInv, OwnEntry
<1>8. ScanInv'
  <2>1. ASSUME NEW g \in Files, stage'[g] = "scan"
        PROVE  /\ pwm_chr'[g] \in Entries
               /\ entry'[pwm_chr'[g]].channel = chan'[g] => pwm_chr'[g] \in Listed'
    <3>1. g # f /\ stage[g] = "scan" /\ pwm_chr'[g] = pwm_chr[g] /\ pwm_chr[g] \in Entries
      BY <1>4, <1>5, <2>1 DEF SyncInv, ScanInv
    <3>2. CASE pwm_chr[g] = e
      <4>1. chan[f] # chan[g]
        BY <1>2, <3>1, OneFile DEF AllTypes
      <4>. QED
        BY <1>2, <1>5, <3>1, <3>2, <4>1 DEF OwnEntry
    <3>3. CASE pwm_chr[g] # e
      BY <1>2, <1>3, <1>6, <3>1, <3>3 DEF SyncInv, ScanInv, Matches
    <3>. QED
      BY <3>2, <3>3
  <2>. QED
    BY <2>1 DEF ScanInv, Matches
<1>9. SyncUsesOwnEntry'
  BY <1>2, <1>3, <1>4, <1>5, <1>6 DEF SyncInv, SyncUsesOwnEntry
<1>. QED
  BY <1>7, <1>8, <1>9 DEF SyncInv

LEMMA SyncAdd ==
  ASSUME AllTypes, SyncInv, NEW f \in Files, OpenAdd(f)
  PROVE  SyncInv'
<1>1. /\ UNCHANGED <<entry, chan>> /\ stage[f] = "allocated"
      /\ stage' = [stage EXCEPT ![f] = "open"]
      /\ pwm_chr' = [pwm_chr EXCEPT ![f] = NULL]
      /\ chrdev_list' = Append(chrdev_list, pwm_chr[f])
  BY DEF OpenAdd, Move, Point
<1>2. PICK e \in Entries : e = pwm_chr[f]
  BY <1>1 DEF AllTypes, ListTypes
<1>3. e \notin Listed /\ entry[e] = OwnEntry(f)
  BY <1>1, <1>2 DEF AllTypes, EntryInv, EntriesHaveOneOwner, Private, SyncInv, EntriesInv
<1>4. Listed' = Listed \cup {e}
  BY <1>1, <1>2, <1>3, AppendNew DEF Listed, AllTypes, EntryInv, EntriesHaveOneOwner, ListTypes
<1>5. /\ IsListed(f)' /\ ~IsListed(f) /\ stage'[f] = "open"
      /\ \A g \in Files \ {f} : stage'[g] = stage[g] /\ pwm_chr'[g] = pwm_chr[g]
  BY <1>1 DEF IsListed, AllTypes, HolderTypes, ListTypes
<1>6. \A d \in Listed : entry[d].channel # entry[e].channel
  <2>1. ASSUME NEW d \in Listed, entry[d].channel = entry[e].channel PROVE FALSE
    <3>1. PICK g \in Files : IsListed(g) /\ entry[d] = OwnEntry(g)
      BY DEF SyncInv, EntriesInv
    <3>2. chan[g] = chan[f]
      BY <1>3, <2>1, <3>1 DEF OwnEntry
    <3>. QED
      BY <1>1, <1>5, <3>1, <3>2, OneFile DEF AllTypes, IsListed
  <2>. QED
    BY <2>1
<1>7. EntriesInv'
  <2>1. \A g \in Files : stage'[g] = "allocated" => entry[pwm_chr'[g]] = OwnEntry(g)
    BY <1>5 DEF SyncInv, EntriesInv
  <2>2. \A d \in Listed' : \E g \in Files : IsListed(g)' /\ entry[d] = OwnEntry(g)
    BY <1>3, <1>4, <1>5 DEF SyncInv, EntriesInv, IsListed
  <2>3. \A c, d \in Listed' : entry[c].channel = entry[d].channel => c = d
    BY <1>4, <1>6 DEF SyncInv, EntriesInv
  <2>. QED
    BY <1>1, <2>1, <2>2, <2>3 DEF EntriesInv, OwnEntry
<1>8. ScanInv' /\ SyncUsesOwnEntry'
  BY <1>1, <1>4, <1>5 DEF SyncInv, ScanInv, SyncUsesOwnEntry, Matches
<1>. QED
  BY <1>7, <1>8 DEF SyncInv

LEMMA SyncUnlink ==
  ASSUME AllTypes, SyncInv, NEW f \in Files, CloseUnlink(f)
  PROVE  SyncInv'
<1>. DEFINE i == OwnPosition(f)
<1>1. /\ UNCHANGED <<entry, chan>> /\ IsListed(f) /\ stage[f] \notin {"closed", "released"}
      /\ stage' = [stage EXCEPT ![f] = "unlinked"]
  BY DEF CloseUnlink, Move, IsListed
<1>2. /\ stage'[f] = "unlinked"
      /\ \A g \in Files \ {f} : stage'[g] = stage[g] /\ pwm_chr'[g] = pwm_chr[g]
  BY <1>1 DEF CloseUnlink, Point, AllTypes, HolderTypes, ListTypes
<1>3. PICK e : /\ Listed' = Listed \ {e}
               /\ e \in Listed => entry[e].channel = chan[f]
               /\ \A d \in Listed \ {e} : entry[d].channel # chan[f]
  <2>1. CASE i = 0
    <3>1. /\ chrdev_list' = chrdev_list
          /\ \A d \in Listed : entry[d].channel # chan[f]
      BY <2>1, PositionFound DEF CloseUnlink, AllTypes, ListTypes
    <3>2. NULL \notin Listed
      BY DrvAssumption DEF AllTypes, ListTypes, Listed, Range
    <3>. QED
      BY <3>1, <3>2 DEF Listed
  <2>2. CASE i # 0
    <3>1. i \in 1 .. Len(chrdev_list) /\ entry[chrdev_list[i]].channel = chan[f]
      BY <2>2, PositionFound DEF AllTypes, ListTypes
    <3>2. chrdev_list' = RemoveAt(chrdev_list, i)
      BY <2>2 DEF CloseUnlink, Delete
    <3>3. Listed' = Listed \ {chrdev_list[i]} /\ chrdev_list[i] \in Listed
      BY <3>1, <3>2, RemoveOne DEF Listed, AllTypes, ListTypes, EntryInv, EntriesHaveOneOwner
    <3>4. \A d \in Listed \ {chrdev_list[i]} : entry[d].channel # chan[f]
      BY <3>1, <3>3 DEF SyncInv, EntriesInv
    <3>. QED
      BY <3>1, <3>3, <3>4
  <2>. QED
    BY <2>1, <2>2
<1>4. EntriesInv'
  <2>1. \A g \in Files : stage'[g] = "allocated" => entry[pwm_chr'[g]] = OwnEntry(g)
    BY <1>2 DEF SyncInv, EntriesInv
  <2>2. ASSUME NEW d \in Listed' PROVE \E g \in Files : IsListed(g)' /\ entry[d] = OwnEntry(g)
    <3>1. PICK g \in Files : IsListed(g) /\ entry[d] = OwnEntry(g)
      BY <1>3, <2>2 DEF SyncInv, EntriesInv
    <3>2. g # f
      BY <1>3, <2>2, <3>1 DEF OwnEntry
    <3>. QED
      BY <1>2, <3>1, <3>2 DEF IsListed
  <2>. QED
    BY <1>1, <1>3, <2>1, <2>2 DEF SyncInv, EntriesInv, OwnEntry
<1>5. \A g \in Files \ {f} : stage[g] \in {"scan", "found"} => chan[g] # chan[f]
  BY <1>1, OneFile DEF AllTypes
<1>6. ScanInv'
  BY <1>1, <1>2, <1>3, <1>5 DEF SyncInv, ScanInv, Matches
<1>7. SyncUsesOwnEntry'
  BY <1>1, <1>2, <1>3, <1>5 DEF SyncInv, SyncUsesOwnEntry
<1>. QED
  BY <1>4, <1>6, <1>7 DEF SyncInv

\* The entry SYNC compares with is the file's own, although it was looked up without
\* the lock while other files were opened and closed: as long as the sysfs attribute
\* "request" is not written.
THEOREM SyncFindsOwnEntry ==
  ASSUME "store" \notin Sysfs
  PROVE  Spec => []SyncUsesOwnEntry
<1>1. ASSUME Init PROVE SyncInv
  <2>1. Listed = {} /\ \A f \in Files : stage[f] = "closed"
    BY <1>1 DEF Init, DrvInit, Listed, Range
  <2>. QED
    BY <2>1 DEF SyncInv, EntriesInv, ScanInv, SyncUsesOwnEntry
<1>2. AllTypes /\ SyncInv /\ [Next]_vars => SyncInv'
  <2>. SUFFICES ASSUME AllTypes, SyncInv, [Next]_vars PROVE SyncInv'
    OBVIOUS
  <2>1. CASE UNCHANGED drvVars
    <3>1. EntriesInv'
      BY <2>1, EntriesKept DEF SyncInv, drvVars, IsListed
    <3>. QED
      BY <2>1, <3>1 DEF SyncInv, ScanInv, SyncUsesOwnEntry, Matches, Listed, drvVars
  <2>2. ASSUME NEW f \in Files, FileStep(f) PROVE SyncInv'
    BY <2>2, SyncQuiet, SyncScan, SyncAlloc, SyncAdd, SyncUnlink
       DEF FileStep, OpenStep, CloseStep
  <2>. QED
    BY <2>1, <2>2 DEF Next, vars
<1>. QED
  BY <1>1, <1>2, EntryInvariant, OwnershipInvariant, PTL DEF Spec, AllTypes, SyncInv
=============================================================================
