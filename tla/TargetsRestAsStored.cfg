SPECIFICATION Spec
CONSTANTS
  Pins = {4, 5, 6}
  MaxBanks = 2
  DefaultPin = 4
  DefaultLed = 5
  Seed = 1
  Networks = {2}
  MaxCalls = 3
INVARIANTS
  TargetsRestAsStored
