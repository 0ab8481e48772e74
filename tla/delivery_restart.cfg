CONSTANTS
  t1 = t1
  t2 = t2
  t3 = t3
  TransferIds <- TwoTransfers
  NoTransfer = none
  MaximumRememberedDeployments = 1
  MaximumQueuedMessages = 2
  MaximumInTransit = 1
  MaximumPublishes = 3
  RemovalMayFail = FALSE
  LateRedelivery = TRUE
  PromptCopies = FALSE
  ProcessMayRestart = TRUE
SPECIFICATION FairDeliverySpec
INVARIANTS
  ExitCodeIsTrue
PROPERTIES
  QueuedMessageIsAnswered
