CONSTANTS
  t1 = t1
  t2 = t2
  t3 = t3
  NoTransfer = NoTransfer
  TransferIds <- ThreeTransfers
  MaximumRememberedDeployments = 2
  RemovalMayFail = TRUE
  LateRedelivery = FALSE
SPECIFICATION Spec
INVARIANTS
  NothingIsLeftBehind
  RunningApplicationIsTracked
  ActiveDirectoryIsIntact
PROPERTIES
  RememberedAnswerIsStable
  ImplementsContract
