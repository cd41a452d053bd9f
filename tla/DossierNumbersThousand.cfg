CONSTANTS
  d1 = d1
  d2 = d2
  d3 = d3
  r1 = r1
  r2 = r2
  r3 = r3
  r4 = r4
  Dossiers <- TwoDossiers
  Requests <- TwoRequests
  NoDossier = NoDossier
  NoRequest = NoRequest
  Base = 10
  Padding = 3
  Given = 999
  Renumbers = FALSE
SPECIFICATION DossierNumbersSpec
INVARIANTS
  UniqueInSequence
CHECK_DEADLOCK FALSE
