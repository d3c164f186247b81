SPECIFICATION BootSpec
CONSTANTS
  MaxNetworks = 3
  Retries = 3
  FirstBackoff = 1
  BackoffCap = 3
INVARIANTS
  BootsIntact
  UpdateHasTheDevice
  AnswersAreTrue
  FullBudgetEach
  PortalStaysAlone
PROPERTIES
  StaysReachable
