CONSTANTS
  muni = muni
  district = district
  sub = sub
  ctrl = ctrl
  other = other
  none = none
  Services <- MCServices
  Subservices <- MCSubservices
  Authorities <- MCAuthorities
  Municipalities <- MCMunicipalities
  Controls <- MCControls
  ControlOf <- MCControlOf
  FormMunicipality = muni
  NoService = none
  Kinds = {"building-permit"}
  UserTasks <- MCAllTasks
  MaxManual = 2
  MaxInquiries = 1
  MaxTargets = 1
SPECIFICATION Spec
INVARIANTS
  DecisionHandsOver
CHECK_DEADLOCK FALSE
