CONSTANTS
  NumFiles = 2
  Contents = {c1, c2}
  OtherKinds = {"absent", "unreadable", "hidden"}
  Scanners = {s1, s2}
  Edits = {"files", "patterns", "documents"}
  Faults = {"upload", "leftover", "close", "delete", "cancel", "crash", "walk"}
  MaxEvents = 2
  MaxDocuments = 5
SPECIFICATION FairSpec
CONSTRAINT OneScanOrOneFile
INVARIANTS
  TypeOK
  CleanScanMirrors
PROPERTIES
  DeletedForAReason
  EventuallyCurrent
CHECK_DEADLOCK FALSE
