CONSTANTS
  MaximumWidgetId = 1
  MaximumPendingCommands = 2
  MaximumFilledAreas = 1
  MaximumBatch = 2
SPECIFICATION FairSpec
PROPERTIES
  DrawnWidgetAppears
  CallsReturn
  DisplayKeepsRefreshing
