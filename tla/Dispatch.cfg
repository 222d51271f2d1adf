SPECIFICATION FairSpec
CONSTANTS
  e1 = e1
  e2 = e2
  e3 = e3
  g1 = g1
  Events = {e1, e2, e3}
  Generators = {g1}
  Nobody = Nobody
  Outside = {"marker", "restart", "error"}
  Config <- Default
PROPERTIES
  CancelAcceptedInTime
  FiringIsAnswered
  LoginEventuallyUnblocked
  MarkerIsHonoured
