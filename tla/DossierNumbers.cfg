CONSTANTS
  d1 = d1
  d2 = d2
  d3 = d3
  r1 = r1
  r2 = r2
  r3 = r3
  r4 = r4
  Dossiers <- ThreeDossiers
  Requests <- FourRequests
  NoDossier = NoDossier
  NoRequest = NoRequest
  Base = 10
  Padding = 1
  Given = 7
  Renumbers = TRUE
SPECIFICATION DossierNumbersSpec
SYMMETRY Symmetric
INVARIANTS
  NumbersUnique
  NumbersNew
CHECK_DEADLOCK FALSE
