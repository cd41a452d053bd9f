CONSTANTS
  muni = muni
  canton = canton
  sub = sub
  none = none
  Services <- MCServices
  Subservices = {sub}
  Authorities <- MCAuthorities
  NoService = none
  Municipality = muni
  MaxManual = 2
  MaxInquiries = 3
  MaxTargets = 2
SPECIFICATION Spec
INVARIANTS
  OfferedIsOpen
  LeftInArchive
  ReviewMatchesAnswer
CHECK_DEADLOCK FALSE
