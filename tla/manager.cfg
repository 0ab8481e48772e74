CONSTANTS
  app1 = app1
  app2 = app2
  ExternalApplications <- TwoApplications
  DefaultApplication = shipped
  NoApplication = none
  c1 = c1
  c2 = c2
  Controllers <- TwoControllers
  Hat = hat
  StatusDisplay = status
  Nobody = nobody
  Abandoned = abandoned
CHECK_DEADLOCK FALSE
SPECIFICATION FairInputSpec
INVARIANTS
  StateIsTrue
  ApplicationStartsClean
  ClaimsMatchControllers
  ConnectedControllerIsReady
PROPERTIES
  EmergencyScreenStays
  RenderFailureEndsProcess
  ActivationEnds
