CONSTANTS
  MaximumWidgetId = 2
  MaximumPendingCommands = 2
  MaximumFilledAreas = 2
  MaximumBatch = 2
SPECIFICATION Spec
INVARIANTS
  BackendKnowsEveryWidget
  IdsMatchPromisedScreen
  VideoOwnsTheDisplay
PROPERTIES
  LateDrawingIsUndone
  ImplementsApplicationScreen
