SPECIFICATION MCSpec
CONSTANTS
  Docs = {"p", "q"}
  FirstUploadId = 2
  LastId = 3
  Images <- TwoImages
  MaxLostWrites = 1
  MaxSkips = 1
  None = None
  MinMs = 1
  MaxMs = 2
  MaxBanks = 2
  MaxClip = 8
  Absent = None
  Typo = None
  NoDoc = None
  Sources <- OnPrograms
  Texts <- TypedTexts
  Names <- MCNames
  Durations <- MCDurations
  Clips = {1}
  MaxEdits = 4
  MaxSeries = 2
  MaxEvents = 3
  MaxLost = 1
INVARIANTS
  AnswersHold
  LoadedStays
  DraftInOrder
  SavesAreAsShown
