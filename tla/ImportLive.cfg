CONSTANTS
  s1 = s1
  d1 = d1
  d2 = d2
  r1 = r1
  r2 = r2
  r3 = r3
  Sessions = {s1}
  Dossiers = {d1, d2}
  Incomplete = {d2}
  Requests = {r1, r2}
  Operations = {"start", "undo", "destroy"}
  Workers = 1
  MaxCrashes = 1
  Prod = FALSE
  NoSession = NoSession
  NoDossier = NoDossier
SPECIFICATION FairImportSpec
PROPERTIES
  EveryTaskEnds
  ImportShowsResult
CHECK_DEADLOCK FALSE
