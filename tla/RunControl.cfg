SPECIFICATION Spec
CONSTANTS
  Programs <- AllPrograms
  AudioIds = {"load", "fire", "stop"}
  BankCount = 2
  MaxBanks = 3
  MaxElapsed = 8
  None = None
  Second = 3
  MaxSleep = 2
  IdleSleep = 4
  MaxLate = 1
INVARIANTS
  RunHasItsPlace
  PublishedIsCurrent
  RunKeepsItsTimes
PROPERTIES
  OnlyEventsTurnTargets
  ClipsStartWithTheirEvent
  ChangesArePublished
  KeepsPromise
