SPECIFICATION Spec
CONSTANTS
  Capacity = 3
  MaxAttempts = 2
  InitialDelay = 1
  MaximumDelay = 3
  Setups <- MCSetups
  Sizes <- MCSizes
  MaxSubmits = 4
INVARIANTS AccountingExact ReconnectBudget
PROPERTY ImplementsDelivery
CHECK_DEADLOCK FALSE
