CONSTANTS
  a1 = a1
  a2 = a2
  s1 = s1
  u1 = u1
  none = none
  Services <- MCServices
  Subservices <- MCSubservices
  Authorities <- MCAuthorities
  NoService = none
  MaxInquiries = 3
  MaxTargets = 2
SPECIFICATION DistSpec
SYMMETRY Symmetric
INVARIANTS
  DistTypeOK
  OneCreateInquiry
  InvolvedCanInvite
  OnlyDraftsBeforeStart
  AnswerMatchesInquiry
  NothingOpenAtEnd
PROPERTIES
  AnswersAreFinal
  ImplementsConsultation
CHECK_DEADLOCK FALSE
