CONSTANTS
  s1 = s1
  d1 = d1
  d2 = d2
  r1 = r1
  r2 = r2
  r3 = r3
  Sessions = {s1}
  Dossiers = {d1}
  Incomplete = {}
  Requests <- SomeRequests
  Operations = {"start", "confirm", "transmit", "undo", "destroy"}
  Workers = 2
  MaxCrashes = 1
  Prod = FALSE
  NoSession = NoSession
  NoDossier = NoDossier
SPECIFICATION ImportSpec
SYMMETRY Symmetric
INVARIANTS
  ImportTypeOK
  ReportComplete
  ReportedExists
  AtMostOnePerWorker
  WaitingHasReason
  OrphansHaveReason
  TransmittedWasPosted
CHECK_DEADLOCK FALSE
