CONSTANTS
  muni = muni
  district = district
  sub = sub
  ctrl = ctrl
  other = other
  none = none
  Services <- MCServices
  Subservices = {}
  Authorities <- MCAuthorities
  Municipalities <- MCMunicipalities
  Controls = {ctrl}
  ControlOf <- MCControlOf
  FormMunicipality = muni
  NoService = none
  Kinds = {"building-permit"}
  UserTasks <- MCSomeTasks
  MaxManual = 2
  MaxInquiries = 1
  MaxTargets = 1
SPECIFICATION FaultySpec
PROPERTIES
  ReachedIsKept
  ImplementsDistribution
CHECK_DEADLOCK FALSE
