CONSTANTS
  t1 = t1
  t2 = t2
  t3 = t3
  TransferIds <- ThreeTransfers
  NoTransfer = none
  MaximumRememberedDeployments = 2
  MaximumQueuedMessages = 1
  MaximumInTransit = 1
  MaximumPublishes = 4
  RemovalMayFail = FALSE
  LateRedelivery = TRUE
  PromptCopies = TRUE
  ProcessMayRestart = FALSE
SYMMETRY Symmetry
SPECIFICATION DeliverySpec
PROPERTY
  CopiesAreRecognised
