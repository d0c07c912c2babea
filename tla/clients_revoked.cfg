SPECIFICATION Spec
CONSTANTS
  c1 = c1
  c2 = c2
  c3 = c3
  f1 = f1
  f2 = f2
  f3 = f3
  p1 = p1
  p2 = p2
  NULL = NULL
  Nobody = Nobody
  Channels = {c1}
  Minors <- AskedFor
  Files <- ThreeFiles
  Opener <- Openers
  Entries = {e1, e2, e3}
  Handles = {}
  HandleMemory = {TRUE, FALSE}
  Sysfs = {"show", "store", "run"}
  MaxDrift = 1
INVARIANTS
  EntryPerOpenFile
  EntriesHaveOneOwner
  NoLeakedEntry
  NoStrayModuleRef
CHECK_DEADLOCK FALSE
