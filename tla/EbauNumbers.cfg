CONSTANTS
  d1 = d1
  d2 = d2
  d3 = d3
  r1 = r1
  r2 = r2
  r3 = r3
  m1 = m1
  m2 = m2
  Dossiers <- SomeDossiers
  Requests <- SomeRequests
  Municipalities <- BothMunicipalities
  NoDossier = NoDossier
  NoRequest = NoRequest
  NoService = NoService
SPECIFICATION EbauSpec
SYMMETRY Symmetric
INVARIANTS
  GeneratedUnique
CHECK_DEADLOCK FALSE
