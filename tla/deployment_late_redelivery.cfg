CONSTANTS
  t1 = t1
  t2 = t2
  t3 = t3
  NoTransfer = NoTransfer
  TransferIds <- TwoTransfers
  MaximumRememberedDeployments = 1
  RemovalMayFail = FALSE
  LateRedelivery = TRUE
SPECIFICATION Spec
PROPERTY
  StartedApplicationIsInstalled
