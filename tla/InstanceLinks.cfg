CONSTANTS
  i1 = i1
  i2 = i2
  i3 = i3
  i4 = i4
  r1 = r1
  r2 = r2
  r3 = r3
  Instances <- SomeInstances
  Requests <- SomeRequests
  NoGroup = NoGroup
  NoInstance = NoInstance
SPECIFICATION Spec
SYMMETRY Symmetric
PROPERTIES
  LinkEstablished
  ImplementsLinks
CHECK_DEADLOCK FALSE
