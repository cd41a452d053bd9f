CONSTANTS
  muni = muni
  district = district
  sub = sub
  ctrl = ctrl
  other = other
  none = none
  Services <- MCServices
  Subservices = {}
  Authorities <- MCAuthorities
  Municipalities <- MCMunicipalities
  Controls <- MCControls
  ControlOf <- MCControlOf
  FormMunicipality = muni
  NoService = none
  Kinds = {"building-permit", "extend-validity", "preliminary-clarification", "internal"}
  UserTasks <- MCAllTasks
  MaxManual = 2
  MaxInquiries = 1
  MaxTargets = 1
SPECIFICATION AnySpec
INVARIANTS
  DossierTypeOK
  OneMainItem
  ClosedCaseIsClean
  DistributionFollowsItem
  OneResponsible
  AddressedToResponsible
  StateMatchesItem
  ClosedStateClosesCase
  ControlIsInvolved
PROPERTIES
  ClosedIsFinal
  
CHECK_DEADLOCK FALSE
