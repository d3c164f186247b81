SPECIFICATION FairSpec
CONSTANTS
  Debounce = 2
  ArmHold = 4
  ResetHold = 5
  UnlockPresses = 2
  UnlockWindow = 4
  ConfigWindow = 9
  PressValid = 2
  MaxGap = 1
  MaxNow = 20
INVARIANTS
  OnePressOneSubmission
PROPERTIES
  PressesAreMeant
  PagesSeeTheWindow
